----------------------------- MODULE ContextsPool -----------------------------
(***************************************************************************)
(* The scheduler under the smtp, imap, pop3 and http servers: a pool of    *)
(* connection contexts that move between five lists, one lock each, and    *)
(* the hands of a listener, the epoll thread, the scan thread, the pool's  *)
(* workers, callers of contexts_pool_signal and of context_pool_activate,  *)
(* and the one thread that wakes sleeping contexts.                        *)
(*                                                                         *)
(* A step is a critical section, or what a thread does with a context it   *)
(* holds.  A context's type is set by whoever holds it, and read by others *)
(* only under the lock of the list that they mean to take it from, except  *)
(* by the waker, which spins on it with no lock at all.                    *)
(***************************************************************************)
EXTENDS Naturals, SequencesExt

CONSTANTS
  Context,    \* the contexts of the pool
  Worker,     \* threads of the threads pool
  Listener,   \* the listener threads: plain and ssl
  Caller,     \* threads that signal or activate a context they point to
  NoContext

ASSUME PoolAssumption == NoContext \notin Context /\ IsFiniteSet(Context)

VARIABLES
  type,        \* type[c], as the thread that holds c last set it
  free,        \* the lists; the order matters only for the turning one
  idling,
  polling,
  reading,     \* those on it with POLLING_READ in their polling_mask
  sleeping,
  turning,
  waiting,     \* the contexts whose b_waiting is TRUE
  open,        \* the contexts with a connection
  ready,       \* those with something to read, or the end of the stream
  registered,  \* those whose socket is in the epoll set
  armed,       \* and has not fired since it was last added or modified
  lctx,        \* lctx[l]: the context listener l holds
  events,      \* events the epoll thread has got and not looked at yet
  ectx,        \* the context it is switching
  spc,         \* program counter of the scan thread
  temp_list,   \* the contexts it is switching
  wctx,        \* wctx[w]: the context worker w holds
  wnext,       \* wnext[w]: what is to be done with it
  kctx,        \* kctx[k]: the context caller k is switching
  asleep,      \* contexts that have asked to be woken
  vctx,        \* the context the waker is to wake
  vpc          \* its program counter

listVars  == <<free, idling, polling, reading, sleeping, turning>>
epollVars == <<waiting, ready, registered, armed>>
scanVars  == <<spc, temp_list>>
wakeVars  == <<asleep, vctx, vpc>>
vars == <<type, listVars, epollVars, open, lctx, events, ectx, scanVars, wctx,
          wnext, kctx, wakeVars>>

Types == {"FREE", "IDLING", "POLLING", "SLEEPING", "TURNING", "CONSTRUCTING",
          "SWITCHING"}

\* What a protocol parser wants next; of the four ways to be polled RDONLY and RDWR
\* watch the input ("POLLING"), NONE and WRONLY do not ("POLLING_OUT").
Results == {"CONTINUE", "IDLE", "POLLING", "POLLING_OUT", "SLEEPING", "CLOSE"}

Init ==
  /\ type = [c \in Context |-> "FREE"]
  /\ free = Context
  /\ idling = {} /\ polling = {} /\ reading = {}
  /\ sleeping = {} /\ turning = <<>>
  /\ waiting = {} /\ open = {} /\ ready = {} /\ registered = {} /\ armed = {}
  /\ lctx = [l \in Listener |-> NoContext]
  /\ events = {} /\ ectx = NoContext
  /\ spc = "polling" /\ temp_list = <<>>
  /\ wctx = [w \in Worker |-> NoContext]
  /\ wnext = [w \in Worker |-> "get"]
  /\ kctx = [k \in Caller |-> NoContext]
  /\ asleep = {} /\ vctx = NoContext /\ vpc = "get"

SetType(c, t) == type' = [type EXCEPT ![c] = t]

\* Mutant: contexts leave a list and keep its type.
SwitchNothing(S) == type' = type

\* Whoever takes contexts that it only points to from a list marks them, under
\* the lock of the list.
Switch(S) == type' = [c \in Context |-> IF c \in S THEN "SWITCHING" ELSE type[c]]

-----------------------------------------------------------------------------
(* contexts_pool_put_context, under the lock of the list.                  *)

\* Mutant: a socket that is in the epoll set is left as it is.
AddOnly(c) ==
  IF c \in registered
  THEN UNCHANGED epollVars
  ELSE /\ registered' = registered \cup {c}
       /\ armed' = armed \cup {c}
       /\ waiting' = waiting \cup {c}
       /\ UNCHANGED ready

\* EPOLL_CTL_ADD for a new connection, which may fail; otherwise
\* EPOLL_CTL_MOD, and if the scan thread has removed the socket, ADD; when that
\* fails the connection is shut down, and b_waiting left as it was.
Register(c) ==
  \/ /\ c \in registered
     /\ type[c] # "CONSTRUCTING"
     /\ armed' = armed \cup {c}
     /\ UNCHANGED <<waiting, ready, registered>>
  \/ /\ c \notin registered
     /\ registered' = registered \cup {c}
     /\ armed' = armed \cup {c}
     /\ waiting' = waiting \cup {c}
     /\ UNCHANGED ready
  \/ /\ type[c] = "CONSTRUCTING"
     /\ waiting' = waiting \ {c}
     /\ UNCHANGED <<ready, registered, armed>>
  \/ /\ c \notin registered
     /\ type[c] # "CONSTRUCTING"
     /\ ready' = ready \cup {c}
     /\ UNCHANGED <<waiting, registered, armed>>

\* Its holder has set the polling_mask.
PutPolling(c, in) ==
  /\ SetType(c, "POLLING")
  /\ polling' = polling \cup {c}
  /\ reading' = IF in THEN reading \cup {c} ELSE reading
  /\ Register(c)
  /\ UNCHANGED <<free, idling, sleeping, turning>>

PutIdling(c) ==
  /\ SetType(c, "IDLING")
  /\ idling' = idling \cup {c}
  /\ UNCHANGED <<free, polling, reading, sleeping, turning, epollVars>>

PutSleeping(c) ==
  /\ SetType(c, "SLEEPING")
  /\ sleeping' = sleeping \cup {c}
  /\ UNCHANGED <<free, idling, polling, reading, turning, epollVars>>

PutTurning(c) ==
  /\ SetType(c, "TURNING")
  /\ turning' = Append(turning, c)
  /\ UNCHANGED <<free, idling, polling, reading, sleeping, epollVars>>

PutFree(c) ==
  /\ SetType(c, "FREE")
  /\ free' = free \cup {c}
  /\ waiting' = IF type[c] = "TURNING" THEN waiting \ {c} ELSE waiting
  /\ UNCHANGED <<idling, polling, reading, sleeping, turning, ready,
                 registered, armed>>

-----------------------------------------------------------------------------
(* A listener.                                                             *)

\* contexts_pool_get_context(CONTEXT_FREE): the type is not changed.
GetFree(l) ==
  /\ lctx[l] = NoContext
  /\ \E c \in free :
       /\ free' = free \ {c}
       /\ lctx' = [lctx EXCEPT ![l] = c]
  /\ UNCHANGED <<type, idling, polling, reading, sleeping, turning,
                 epollVars, open, events, ectx, scanVars, wctx, wnext, kctx,
                 wakeVars>>

\* The listener marks the context, with no lock; it has a connection for it.
Construct(l) ==
  /\ lctx[l] # NoContext
  /\ type[lctx[l]] = "FREE"
  /\ SetType(lctx[l], "CONSTRUCTING")
  /\ open' = open \cup {lctx[l]}
  /\ UNCHANGED <<listVars, epollVars, lctx, events, ectx, scanVars, wctx,
                 wnext, kctx, wakeVars>>

\* The filters let the client in: it is to speak.
Accept(l) ==
  /\ lctx[l] # NoContext
  /\ type[lctx[l]] = "CONSTRUCTING"
  /\ PutPolling(lctx[l], TRUE)
  /\ lctx' = [lctx EXCEPT ![l] = NoContext]
  /\ UNCHANGED <<open, events, ectx, scanVars, wctx, wnext, kctx, wakeVars>>

\* Or not: the connection is closed and the context put back.
Reject(l) ==
  /\ lctx[l] # NoContext
  /\ type[lctx[l]] = "CONSTRUCTING"
  /\ PutFree(lctx[l])
  /\ open' = open \ {lctx[l]}
  /\ lctx' = [lctx EXCEPT ![l] = NoContext]
  /\ UNCHANGED <<events, ectx, scanVars, wctx, wnext, kctx, wakeVars>>

\* The client sends something, or ends the connection.
Arrive(c) ==
  /\ c \in open \ ready
  /\ ready' = ready \cup {c}
  /\ UNCHANGED <<type, listVars, waiting, open, registered, armed, lctx,
                 events, ectx, scanVars, wctx, wnext, kctx, wakeVars>>

-----------------------------------------------------------------------------
(* The epoll thread.                                                       *)

\* epoll_wait: of the armed sockets those that are watched for input and have some,
\* and any that have room to write or an error, each of them once (EPOLLONESHOT).
Wait ==
  /\ events = {} /\ ectx = NoContext
  /\ \E more \in SUBSET armed : events' = (armed \cap reading \cap ready) \cup more
  /\ events' # {}
  /\ armed' = armed \ events'
  /\ UNCHANGED <<type, listVars, waiting, open, ready, registered, lctx, ectx,
                 scanVars, wctx, wnext, kctx, wakeVars>>

\* Mutant: the context's type is not looked at.
StillWaits(c) == c \in waiting

\* Under the polling lock: nobody else has taken the context.
StillPolled(c) == type[c] = "POLLING" /\ c \in waiting

\* One event: the context may have moved on since, and is then left alone.
Look ==
  /\ ectx = NoContext
  /\ \E c \in events :
       /\ events' = events \ {c}
       /\ \/ /\ StillPolled(c)
             /\ polling' = polling \ {c}
             /\ reading' = reading \ {c}
             /\ Switch({c})
             /\ ectx' = c
          \/ /\ ~ StillPolled(c)
             /\ UNCHANGED <<polling, reading, type, ectx>>
  /\ UNCHANGED <<free, idling, sleeping, turning, epollVars, open, lctx,
                 scanVars, wctx, wnext, kctx, wakeVars>>

SwitchEvent ==
  /\ ectx # NoContext
  /\ PutTurning(ectx)
  /\ ectx' = NoContext
  /\ UNCHANGED <<open, lctx, events, scanVars, wctx, wnext, kctx, wakeVars>>

-----------------------------------------------------------------------------
(* The scan thread.                                                        *)

\* Mutant: b_waiting is not reset.
DeleteOnly(S) ==
  /\ registered' = registered \ S
  /\ armed' = armed \ S
  /\ UNCHANGED <<waiting, ready>>

\* EPOLL_CTL_DEL of contexts whose time is out.
Delete(S) ==
  /\ registered' = registered \ S
  /\ armed' = armed \ S
  /\ waiting' = waiting \ S
  /\ UNCHANGED ready

\* Under the polling lock: the contexts that epoll does not watch, and those
\* whose time is out (any, here) unless EPOLL_CTL_DEL fails.
ScanPolling ==
  /\ spc = "polling"
  /\ \E late \in SUBSET (polling \cap waiting) :
       LET gone  == late \cap registered
           moved == (polling \ waiting) \cup gone
       IN  /\ Delete(gone)
           /\ polling' = polling \ moved
           /\ reading' = reading \ moved
           /\ Switch(moved)
           /\ temp_list' \in SetToSeqs(moved)
  /\ spc' = "idling"
  /\ UNCHANGED <<free, idling, sleeping, turning, open, lctx, events, ectx,
                 wctx, wnext, kctx, wakeVars>>

\* Mutant: idle contexts are left to those who signal them.
SkipIdling ==
  /\ spc = "idling"
  /\ spc' = "turning"
  /\ UNCHANGED <<type, listVars, epollVars, open, lctx, events, ectx,
                 temp_list, wctx, wnext, kctx, wakeVars>>

\* Under the idling lock: all of them.
ScanIdling ==
  /\ spc = "idling"
  /\ Switch(idling)
  /\ \E s \in SetToSeqs(idling) : temp_list' = temp_list \o s
  /\ idling' = {}
  /\ spc' = "turning"
  /\ UNCHANGED <<free, polling, reading, sleeping, turning, epollVars, open,
                 lctx, events, ectx, wctx, wnext, kctx, wakeVars>>

\* Under the turning lock.
ScanTurning ==
  /\ spc = "turning"
  /\ turning' = turning \o temp_list
  /\ type' = [c \in Context |->
                IF c \in ToSet(temp_list) THEN "TURNING" ELSE type[c]]
  /\ temp_list' = <<>>
  /\ spc' = "polling"
  /\ UNCHANGED <<free, idling, polling, reading, sleeping, epollVars, open,
                 lctx, events, ectx, wctx, wnext, kctx, wakeVars>>

-----------------------------------------------------------------------------
(* A worker of the threads pool.                                           *)

\* contexts_pool_get_context(CONTEXT_TURNING): the type is not changed.
Take(w) ==
  /\ wnext[w] = "get"
  /\ turning # <<>>
  /\ turning' = Tail(turning)
  /\ wctx' = [wctx EXCEPT ![w] = Head(turning)]
  /\ wnext' = [wnext EXCEPT ![w] = "process"]
  /\ UNCHANGED <<type, free, idling, polling, reading, sleeping, epollVars,
                 open, lctx, events, ectx, scanVars, kctx, wakeVars>>

\* The protocol parser: it reads all or some of what there is, and says where
\* the context is to go.  One that is to sleep is on the queue of the waker
\* before it sleeps; one that ends has closed its socket, which takes it out of
\* the epoll set.
Process(w) ==
  /\ wnext[w] = "process"
  /\ \E r \in Results :
       /\ wnext' = [wnext EXCEPT ![w] = r]
       /\ asleep' = IF r = "SLEEPING" THEN asleep \cup {wctx[w]} ELSE asleep
       /\ \/ /\ r = "CLOSE"
             /\ open' = open \ {wctx[w]}
             /\ ready' = ready \ {wctx[w]}
             /\ registered' = registered \ {wctx[w]}
             /\ armed' = armed \ {wctx[w]}
          \/ /\ r # "CLOSE"
             /\ ready' \in {ready, ready \ {wctx[w]}}
             /\ UNCHANGED <<open, registered, armed>>
  /\ UNCHANGED <<type, listVars, waiting, lctx, events, ectx, scanVars, wctx,
                 kctx, vctx, vpc>>

\* contexts_pool_put_context.
Put(w) ==
  /\ \/ wnext[w] = "CONTINUE" /\ PutTurning(wctx[w])
     \/ wnext[w] = "IDLE" /\ PutIdling(wctx[w])
     \/ wnext[w] = "POLLING" /\ PutPolling(wctx[w], TRUE)
     \/ wnext[w] = "POLLING_OUT" /\ PutPolling(wctx[w], FALSE)
     \/ wnext[w] = "SLEEPING" /\ PutSleeping(wctx[w])
     \/ wnext[w] = "CLOSE" /\ PutFree(wctx[w])
  /\ wctx' = [wctx EXCEPT ![w] = NoContext]
  /\ wnext' = [wnext EXCEPT ![w] = "get"]
  /\ UNCHANGED <<open, lctx, events, ectx, scanVars, kctx, wakeVars>>

-----------------------------------------------------------------------------
(* Threads that point to a context they do not hold.                       *)

\* contexts_pool_signal: nothing happens unless the context is idle.
Signal(k) ==
  /\ kctx[k] = NoContext
  /\ \E c \in Context :
       /\ type[c] = "IDLING"
       /\ idling' = idling \ {c}
       /\ Switch({c})
       /\ kctx' = [kctx EXCEPT ![k] = c]
  /\ UNCHANGED <<free, polling, reading, sleeping, turning, epollVars, open,
                 lctx, events, ectx, scanVars, wctx, wnext, wakeVars>>

\* context_pool_activate_context: nothing unless it is polled.  The socket
\* stays in the epoll set.
Activate(k) ==
  /\ kctx[k] = NoContext
  /\ \E c \in Context :
       /\ type[c] = "POLLING"
       /\ polling' = polling \ {c}
       /\ reading' = reading \ {c}
       /\ Switch({c})
       /\ kctx' = [kctx EXCEPT ![k] = c]
  /\ UNCHANGED <<free, idling, sleeping, turning, epollVars, open, lctx,
                 events, ectx, scanVars, wctx, wnext, wakeVars>>

\* Both go on to put it on the turning list.
SwitchCalled(k) ==
  /\ kctx[k] # NoContext
  /\ PutTurning(kctx[k])
  /\ kctx' = [kctx EXCEPT ![k] = NoContext]
  /\ UNCHANGED <<open, lctx, events, ectx, scanVars, wctx, wnext, wakeVars>>

-----------------------------------------------------------------------------
(* The waker: smtp's flushing thread, or the thread of the imap parser.    *)

\* The mail is saved, or the mailbox has changed: the context is to be woken.
PickSleeper(c) ==
  /\ vpc = "get"
  /\ c \in asleep
  /\ asleep' = asleep \ {c}
  /\ vctx' = c
  /\ vpc' = "sleeping"
  /\ UNCHANGED <<type, listVars, epollVars, open, lctx, events, ectx,
                 scanVars, wctx, wnext, kctx>>

\* Mutant: the waker does not wait for the worker to let go of the context.
WakeAtOnce ==
  /\ vpc = "sleeping"
  /\ sleeping' = sleeping \ {vctx}
  /\ vpc' = "put"
  /\ UNCHANGED <<type, free, idling, polling, reading, turning, epollVars,
                 open, lctx, events, ectx, scanVars, wctx, wnext, kctx,
                 asleep, vctx>>

\* Mutant: it gives up when the context does not sleep yet.
WakeOrGiveUp ==
  \/ WakeAtOnce /\ type[vctx] = "SLEEPING"
  \/ /\ vpc = "sleeping"
     /\ type[vctx] # "SLEEPING"
     /\ vpc' = "get"
     /\ UNCHANGED <<type, listVars, epollVars, open, lctx, events, ectx,
                    scanVars, wctx, wnext, kctx, asleep, vctx>>

\* contexts_pool_wakeup_context: it waits, with no lock, for the type to say
\* that the context sleeps, and takes it from the list, with its type as it is.
WakeSleeper ==
  /\ vpc = "sleeping"
  /\ type[vctx] = "SLEEPING"
  /\ sleeping' = sleeping \ {vctx}
  /\ vpc' = "put"
  /\ UNCHANGED <<type, free, idling, polling, reading, turning, epollVars,
                 open, lctx, events, ectx, scanVars, wctx, wnext, kctx,
                 asleep, vctx>>

SwitchWoken ==
  /\ vpc = "put"
  /\ PutTurning(vctx)
  /\ vctx' = NoContext
  /\ vpc' = "get"
  /\ UNCHANGED <<open, lctx, events, ectx, scanVars, wctx, wnext, kctx, asleep>>

-----------------------------------------------------------------------------
Epoll     == Wait \/ Look \/ SwitchEvent
Scan      == ScanPolling \/ ScanIdling \/ ScanTurning
Work(w)   == Take(w) \/ Process(w) \/ Put(w)
Wake      == (\E c \in Context : PickSleeper(c)) \/ WakeSleeper \/ SwitchWoken
Listen(l) == GetFree(l) \/ Construct(l) \/ Accept(l) \/ Reject(l)
Call(k)   == Signal(k) \/ Activate(k) \/ SwitchCalled(k)

Next ==
  \/ \E l \in Listener : Listen(l)
  \/ \E c \in Context : Arrive(c)
  \/ Epoll
  \/ Scan
  \/ \E w \in Worker : Work(w)
  \/ \E k \in Caller : Call(k)
  \/ Wake

Spec == Init /\ [][Next]_vars

\* The threads of the server are endless loops; those that call it do not stop
\* between two of its locks.  Clients and callers owe nothing: there may never be
\* room to write, and epoll_wait need return for input only.  The waker passes
\* nobody over for ever: smtp's queue is first in, first out, and the imap thread
\* goes round its list and wakes a context when its time is out at the latest.
Fairness ==
  /\ WF_vars((Wait /\ armed \cap reading \cap ready # {}) \/ Look \/ SwitchEvent)
  /\ WF_vars(Scan)
  /\ \A w \in Worker : WF_vars(Work(w))
  /\ WF_vars(Wake)
  /\ \A c \in Context : SF_vars(PickSleeper(c))
  /\ \A k \in Caller : WF_vars(SwitchCalled(k))

FairSpec == Spec /\ Fairness

-----------------------------------------------------------------------------
ContextOrNone == Context \cup {NoContext}

\* Every variable keeps its type; a worker or the waker that is not at the
\* start of its loop holds a context, and at the start it holds none.
TypeOK ==
  /\ type \in [Context -> Types]
  /\ free \subseteq Context /\ idling \subseteq Context
  /\ polling \subseteq Context /\ reading \subseteq polling
  /\ sleeping \subseteq Context
  /\ turning \in Seq(Context) /\ temp_list \in Seq(Context)
  /\ waiting \subseteq Context /\ open \subseteq Context
  /\ ready \subseteq Context /\ registered \subseteq Context
  /\ armed \subseteq registered
  /\ events \subseteq Context /\ ectx \in ContextOrNone
  /\ spc \in {"polling", "idling", "turning"}
  /\ lctx \in [Listener -> ContextOrNone]
  /\ wctx \in [Worker -> ContextOrNone]
  /\ wnext \in [Worker -> Results \cup {"get", "process"}]
  /\ \A w \in Worker : wctx[w] = NoContext <=> wnext[w] = "get"
  /\ kctx \in [Caller -> ContextOrNone]
  /\ asleep \subseteq Context /\ vctx \in ContextOrNone
  /\ vpc \in {"get", "sleeping", "put"}
  /\ vctx = NoContext <=> vpc = "get"

Spots == {"free", "idling", "polling", "sleeping", "turning", "listener",
          "epoll", "scan", "worker", "caller", "waker"}

Held(hand) == Range(hand) \ {NoContext}

\* Where the contexts are.  The waker holds what it has taken from the sleeping
\* list, not what it waits for.
At == [s \in Spots |->
         CASE s = "free"     -> free
           [] s = "idling"   -> idling
           [] s = "polling"  -> polling
           [] s = "sleeping" -> sleeping
           [] s = "turning"  -> ToSet(turning)
           [] s = "listener" -> Held(lctx)
           [] s = "epoll"    -> {ectx} \ {NoContext}
           [] s = "scan"     -> ToSet(temp_list)
           [] s = "worker"   -> Held(wctx)
           [] s = "caller"   -> Held(kctx)
           [] s = "waker"    -> {c \in {vctx} : vpc = "put"}]

\* No two threads hold the same context.
Alone(hand) ==
  \A i, j \in DOMAIN hand :
    i # j => hand[i] # hand[j] \/ hand[i] = NoContext

\* A context is on exactly one list, or in exactly one thread's hands: no event,
\* timeout, signal or wake-up gives it to a second worker, and none loses it.
\* (Five lists under five locks, a list node inside the context.)
OnePlace ==
  /\ \A s, t \in Spots : s # t => At[s] \cap At[t] = {}
  /\ UNION {At[s] : s \in Spots} = Context
  /\ IsInjective(turning) /\ IsInjective(temp_list)
  /\ Alone(lctx) /\ Alone(wctx) /\ Alone(kctx)

\* Whoever takes a context that it only points to looks at its type under the
\* lock of one list, though others change it under other locks: the type says
\* "polling" or "idling" exactly while the context is on that list, on the other
\* lists it is that of the list, and a worker's context is still "turning".
TypeTells ==
  \A c \in Context :
    /\ type[c] = "POLLING" <=> c \in polling
    /\ type[c] = "IDLING" <=> c \in idling
    /\ c \in sleeping => type[c] = "SLEEPING"
    /\ c \in ToSet(turning) \cup Held(wctx) => type[c] = "TURNING"
    /\ c \in free => type[c] = "FREE"

\* b_waiting is what the pool knows of the epoll set: through timeouts that
\* remove a socket, failing system calls, and contexts that are used again, it
\* is TRUE for an open connection exactly when its socket is in the set.
WaitingIsRegistered == waiting \cap open = registered

\* An event is delivered once and is thrown away when the context is not
\* polled just then; still no polled context that epoll is to watch is deaf: its
\* socket is armed, or its event is in the epoll thread's hands.
NoDeafContext == polling \cap waiting \subseteq armed \cup events

Served(c) == \E w \in Worker : wctx[w] = c

\* What a client sends while its context is polled, a worker gets to see, unless the
\* parser has asked epoll for room to write and not for input: then it waits for
\* that, or for the scan thread.
ReadyIsServed ==
  \A c \in Context :
    c \in ready \cap polling /\ (c \in waiting => c \in reading) ~> Served(c)

\* A context that idles is turned again though a signal sent before it was on the
\* list is thrown away, and one that sleeps is woken though the waker may have
\* been told before it slept.
WaitersAreServed == \A c \in Context : c \in idling \cup sleeping ~> Served(c)

-----------------------------------------------------------------------------
(* What the pool is for: Scheduler, with every context that is between two *)
(* lists taken to be runnable.                                             *)

Place(c) ==
  IF Served(c) THEN "running"
  ELSE IF c \in free THEN "free"
  ELSE IF \E l \in Listener : lctx[l] = c THEN "accepted"
  ELSE IF c \in idling \cup polling \cup sleeping THEN "parked"
  ELSE "runnable"

Abstract == INSTANCE Scheduler WITH place <- [c \in Context |-> Place(c)]

\* The pool implements the scheduler: a connection is given to a worker only
\* after it was parked or given back, freed only by the worker that has it, and
\* a freed context runs again only for a new connection.
IsScheduler == Abstract!Spec
=============================================================================
