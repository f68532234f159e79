------------------------------ MODULE Transporter ------------------------------
(***************************************************************************)
(* The transporter of the delivery process (transporter.c): a pool of      *)
(* threads that take messages from message_dequeue, or contexts that hooks *)
(* have queued, run the hooks on them and put them back.  A thread that is *)
(* not served for a while leaves the pool or waits for a signal; a scan    *)
(* thread adds threads when messages wait.                                 *)
(*                                                                         *)
(* The condition variable has no predicate, and the signals are sent with  *)
(* no lock: one that finds nobody waiting is lost.                         *)
(***************************************************************************)
EXTENDS Naturals, SequencesExt

CONSTANTS
  Mail,          \* mails in the mail queue
  NoMsg,
  Thread,        \* g_threads_max threads
  First,         \* the first g_threads_min of them: wait_on_event is TRUE
  MaxNotServed,  \* MAX_TIMES_NOT_SERVED
  FreeNum        \* g_free_num, contexts for the hooks

\* A mail, or the mail that bounces it.
Msg == [mail : Mail, bounce : BOOLEAN]

ASSUME TransporterAssumption ==
  /\ IsFiniteSet(Thread)
  /\ First \subseteq Thread
  /\ NoMsg \notin Msg
  /\ MaxNotServed \in Nat /\ FreeNum \in Nat \ {0}

VARIABLES
  stored,      \* the mails in the store of message_dequeue
  loaded,      \* those of them that have a MESSAGE node
  g_used_list, \* the nodes that no thread has taken
  loader,      \* "load", or "signal" before transporter_wakeup_one_thread
  started,     \* transporter_run has made its broadcast
  g_threads_list,
  g_free_threads,
  pc,          \* pc[t]: where thread t is
  item,        \* item[t]: what it works on: a message, or a context that bounces
  cannot_served_times,
  g_queue_list,
  free,        \* the length of g_free_list
  unheard      \* the last signal found nobody waiting

sourceVars == <<stored, loaded, g_used_list, loader>>
poolVars   == <<started, g_threads_list, g_free_threads>>
threadVars == <<pc, item, cannot_served_times>>
contextVars == <<g_queue_list, free>>
transVars == <<sourceVars, poolVars, threadVars, contextVars, unheard>>

TransTypeOK ==
  /\ stored \subseteq Mail /\ loaded \subseteq stored
  /\ g_used_list \in Seq(Mail)
  /\ loader \in {"load", "signal"}
  /\ started \in BOOLEAN
  /\ g_threads_list \subseteq Thread
  /\ g_free_threads \in Seq(Thread)
  /\ pc \in [Thread -> {"off", "start", "waiting", "get", "dequeue", "idle", "leave",
                        "hook", "signal", "open", "write", "put"}]
  /\ item \in [Thread -> Msg \cup {NoMsg}]
  /\ cannot_served_times \in [Thread -> 0..MaxNotServed]
  /\ g_queue_list \in Seq(Msg)
  /\ free \in 0..FreeNum
  /\ unheard \in BOOLEAN

TransInit ==
  /\ stored = Mail
  /\ loaded = {} /\ g_used_list = <<>> /\ loader = "load"
  /\ started = FALSE
  /\ g_threads_list = First
  /\ g_free_threads \in SetToSeqs(Thread \ First)
  /\ pc = [t \in Thread |-> IF t \in First THEN "start" ELSE "off"]
  /\ item = [t \in Thread |-> NoMsg]
  /\ cannot_served_times = [t \in Thread |-> 0]
  /\ g_queue_list = <<>>
  /\ free = FreeNum - 1 \* the hooks' cache queue thread has one
  /\ unheard = FALSE

\* The process dies, or is stopped, which cancels the threads wherever they are,
\* and starts again.
TransRestart ==
  /\ UNCHANGED stored
  /\ loaded' = {} /\ g_used_list' = <<>> /\ loader' = "load"
  /\ started' = FALSE
  /\ g_threads_list' = First
  /\ g_free_threads' \in SetToSeqs(Thread \ First)
  /\ pc' = [t \in Thread |-> IF t \in First THEN "start" ELSE "off"]
  /\ item' = [t \in Thread |-> NoMsg]
  /\ cannot_served_times' = [t \in Thread |-> 0]
  /\ g_queue_list' = <<>>
  /\ free' = FreeNum - 1
  /\ unheard' = FALSE

-----------------------------------------------------------------------------
(* The condition variable.                                                 *)

Waiting == {t \in Thread : pc[t] = "waiting"}

\* Mutant: the signal wakes nobody.
WakeNobody(self, next) ==
  /\ pc' = [t \in Thread |-> IF t \in self THEN next ELSE pc[t]]
  /\ unheard' = (Waiting = {})

\* pthread_cond_signal, after which the threads in self go to next.
WakeOne(self, next) ==
  /\ \E w \in SUBSET Waiting :
       /\ Cardinality(w) = 1 \/ (w = {} /\ Waiting = {})
       /\ pc' = [t \in Thread |-> IF t \in w THEN "get"
                                  ELSE IF t \in self THEN next ELSE pc[t]]
  /\ unheard' = (Waiting = {})

\* message_dequeue puts the node of a mail on its used list, then signals.
Load(m) ==
  /\ loader = "load"
  /\ m \in stored \ loaded
  /\ loaded' = loaded \cup {m}
  /\ g_used_list' = Append(g_used_list, m)
  /\ loader' = "signal"
  /\ UNCHANGED <<stored, poolVars, threadVars, contextVars, unheard>>

LoadSignal ==
  /\ loader = "signal"
  /\ WakeOne({}, "get")
  /\ loader' = "load"
  /\ UNCHANGED <<stored, loaded, g_used_list, poolVars, item,
                 cannot_served_times, contextVars>>

\* The broadcast at the end of transporter_run.
Broadcast ==
  /\ ~started
  /\ started' = TRUE
  /\ pc' = [t \in Thread |-> IF t \in Waiting THEN "get" ELSE pc[t]]
  /\ UNCHANGED <<sourceVars, g_threads_list, g_free_threads, item,
                 cannot_served_times, contextVars, unheard>>

-----------------------------------------------------------------------------
(* A thread.                                                               *)

Goto(t, s) == pc' = [pc EXCEPT ![t] = s]

\* wait_on_event.
StartWait(t) ==
  /\ pc[t] = "start"
  /\ Goto(t, "waiting")
  /\ UNCHANGED <<sourceVars, poolVars, item, cannot_served_times, contextVars,
                 unheard>>

\* message_dequeue_get.
Get(t) ==
  /\ pc[t] = "get"
  /\ IF g_used_list = <<>>
     THEN Goto(t, "dequeue") /\ UNCHANGED <<g_used_list, item, cannot_served_times>>
     ELSE /\ g_used_list' = Tail(g_used_list)
          /\ item' = [item EXCEPT
                        ![t] = [mail |-> Head(g_used_list), bounce |-> FALSE]]
          /\ cannot_served_times' = [cannot_served_times EXCEPT ![t] = 0]
          /\ Goto(t, "hook")
  /\ UNCHANGED <<stored, loaded, loader, poolVars, contextVars, unheard>>

\* transporter_dequeue_context.
Dequeue(t) ==
  /\ pc[t] = "dequeue"
  /\ IF g_queue_list = <<>>
     THEN Goto(t, "idle") /\ UNCHANGED <<g_queue_list, item, cannot_served_times>>
     ELSE /\ g_queue_list' = Tail(g_queue_list)
          /\ item' = [item EXCEPT ![t] = Head(g_queue_list)]
          /\ cannot_served_times' = [cannot_served_times EXCEPT ![t] = 0]
          /\ Goto(t, "hook")
  /\ UNCHANGED <<sourceVars, poolVars, free, unheard>>

\* Not served: once more, leave the pool, or wait for a signal.
NotServed(t) ==
  /\ pc[t] = "idle"
  /\ LET often == cannot_served_times[t] + 1 >= MaxNotServed
         spare == Cardinality(g_threads_list) > Cardinality(First)
     IN /\ Goto(t, IF ~often THEN "get" ELSE IF spare THEN "leave" ELSE "waiting")
        /\ g_threads_list' = IF often /\ spare THEN g_threads_list \ {t}
                                               ELSE g_threads_list
        /\ cannot_served_times' = IF often THEN cannot_served_times
                                  ELSE [cannot_served_times EXCEPT ![t] = @ + 1]
  /\ UNCHANGED <<sourceVars, started, g_free_threads, item, contextVars, unheard>>

Leave(t) ==
  /\ pc[t] = "leave"
  /\ g_free_threads' = Append(g_free_threads, t)
  /\ Goto(t, "off")
  /\ UNCHANGED <<sourceVars, started, g_threads_list, item, cannot_served_times,
                 contextVars, unheard>>

\* Mutant: the hook has put the context back already.
ReleaseTwice(t) == free' = free + 2

\* Mutant: the context is not put back.
ReleaseNothing(t) == free' = free

\* transporter_put_context.
Release(t) == free' = free + 1

\* What is done is put back: message_dequeue_put erases the mail.
Put(t) ==
  /\ pc[t] = "put"
  /\ IF item[t].bounce
     THEN Release(t) /\ UNCHANGED <<stored, loaded>>
     ELSE /\ stored' = stored \ {item[t].mail}
          /\ loaded' = loaded \ {item[t].mail}
          /\ UNCHANGED free
  /\ item' = [item EXCEPT ![t] = NoMsg]
  /\ Goto(t, "get")
  /\ UNCHANGED <<g_used_list, loader, poolVars, cannot_served_times, g_queue_list,
                 unheard>>

-----------------------------------------------------------------------------
(* The scan thread: it alone takes from g_free_threads.                    *)

MoreNeeded ==
  /\ g_used_list # <<>>
  /\ g_threads_list # Thread
  /\ g_free_threads # <<>>

AddThread ==
  /\ MoreNeeded
  /\ LET t == Head(g_free_threads) IN
       /\ g_threads_list' = g_threads_list \cup {t}
       /\ cannot_served_times' = [cannot_served_times EXCEPT ![t] = 0]
       /\ Goto(t, IF t \in First THEN "start" ELSE "get")
  /\ g_free_threads' = Tail(g_free_threads)
  /\ UNCHANGED <<sourceVars, started, item, contextVars, unheard>>

\* pthread_create fails.
AddFails ==
  /\ MoreNeeded
  /\ g_free_threads' = Append(Tail(g_free_threads), Head(g_free_threads))
  /\ UNCHANGED <<sourceVars, started, g_threads_list, threadVars, contextVars,
                 unheard>>

-----------------------------------------------------------------------------
(* What the hooks call.                                                    *)

\* transporter_get_context and transporter_enqueue_context, up to the signal.
Enqueue(msg) ==
  /\ free > 0
  /\ free' = free - 1
  /\ g_queue_list' = Append(g_queue_list, msg)
=============================================================================
