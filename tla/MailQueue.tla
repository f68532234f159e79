------------------------------ MODULE MailQueue ------------------------------
(***************************************************************************)
(* The mail queue of the MTA: the smtp process that fills the store and    *)
(* the delivery process that empties it, running side by side with no lock *)
(* in common.                                                              *)
(***************************************************************************)
EXTENDS MessageEnqueue, MessageDequeue

vars == <<storeVars, enqVars, deqVars>>

TypeOK == StoreTypeOK /\ EnqTypeOK /\ DeqTypeOK

Init == StoreInit /\ EnqInit /\ DeqInit

Enqueue == EnqNext /\ UNCHANGED deqVars
Dequeue == DeqNext /\ UNCHANGED enqVars

Next == Enqueue \/ Dequeue

Spec == Init /\ [][Next]_vars

(***************************************************************************)
(* The flushing thread and the loader loop for ever with short sleeps, and *)
(* a worker that holds a node runs to the end of message_dequeue_put.  An  *)
(* idle worker sleeps on a condition variable and may never be woken, and  *)
(* so owes nothing.  Clients may stop at any time and no process has to    *)
(* die.                                                                    *)
(***************************************************************************)
Fairness ==
  /\ WF_vars(FlushThread /\ UNCHANGED deqVars)
  /\ WF_vars(Loader /\ UNCHANGED enqVars)
  /\ \A w \in Worker : WF_vars(wpc[w] # "get" /\ Work(w) /\ UNCHANGED enqVars)

FairSpec == Spec /\ Fairness

-----------------------------------------------------------------------------
(* Safety.                                                                 *)

\* A mail whose client was told 250, and which no hook has been given yet,
\* is in the store: through both processes' restarts, through a block or a
\* flush ID being used again, and through the cleaning a restart does.
AcceptedIsStored ==
  \A m \in Mail : Saved(m) /\ handled[m] = 0 => Stored(m)

\* A node on its way to the hooks still finds its own mail in its slot: a
\* tape node's pointers go straight into the shared block, and erasing by
\* slot must erase this mail and no other.
NodeKeepsItsSlot ==
  \A n \in Live :
    node[n].mail \in Mail /\ Content(node[n].slot) = node[n].mail

\* No two threads have the same slot in hand.  The hash tables are what
\* ensures it, although the key goes in after the node is already public.
OneNodePerSlot ==
  \A a, b \in Keyed : node[a].slot = node[b].slot => a = b

\* The hooks see a mail once for each life of the delivery process at most;
\* duplicates come from a crash between the hooks and the erasing, only.
HandledOncePerLife ==
  \A m \in Mail : handled[m] <= 1 + deq_restarts

\* A node is on one list, or in one thread's hands, and none is lost: what
\* the idle scan relies on when it waits for the free list to be full.
NodesAccounted ==
  /\ Node = free \cup Loading \cup OnUsedList \cup Held
  /\ free \cap (Loading \cup OnUsedList \cup Held) = {}
  /\ Loading \cap (OnUsedList \cup Held) = {}
  /\ OnUsedList \cap Held = {}
  /\ \A i, j \in 1 .. Len(used) : used[i] = used[j] => i = j
  /\ \A v, w \in Worker :
       v # w /\ wpc[v] # "get" /\ wpc[w] # "get" => wnode[v] # wnode[w]

\* The memory that the nodes hold, unit by unit, and that the loader has taken
\* for the node it is about to take.
MemHeld == Cardinality(UNION {{n} \X (1 .. node[n].size) : n \in Counted})
             + (IF lpc = "pop" THEN lsize ELSE 0)

\* g_current_mem never claims less than what is held (or more mail would be
\* read into memory than g_max_memory) and never exceeds the limit.
MemoryBounded == MemHeld <= current_mem /\ current_mem <= MaxMem

\* "current allocated memory", as the declaration of g_current_mem has it:
\* neither less nor more than what is held.
MemoryExact == current_mem = MemHeld

\* A mail that is given to the hooks has been read to its end: no file is read
\* with a size that stat gave before the file was complete.
MailsReadWhole == cut = {}

\* The whole mail gets into the queue: its header lines and its body.
AcceptedWhole == \A m \in Mail : Saved(m) => m \notin body_read

\* Keys in the hash tables that no node vouches for.
OrphanKeys == {s \in hashed : ~ \E n \in Keyed : node[n].slot = s}

\* g_message_units nodes are enough: one for each tape block, and one for each
\* 64K that file mails may take.  A load that got its memory finds no node
\* only while a worker has given its memory back and not yet its node.
NodesSuffice ==
  lpc = "pop" /\ free = {} => \E w \in Worker : wpc[w] = "append"

\* The two critical sections of get_from_free and of put_to_free leave one
\* window, and the node that is public before its key is hashed another:
\* memory that was counted exactly goes astray in the first only, by a load
\* that finds no node, and a key outlives its node only by being added after
\* it.
OnlyTwoWindows ==
  [][/\ MemoryExact /\ ~ MemoryExact' =>
          /\ lpc = "pop" /\ lpc' # "pop" /\ free = {}
          /\ \E w \in Worker : wpc[w] = "append"
     /\ \A s \in OrphanKeys' \ OrphanKeys : lpc = "hash" /\ s = lslot]_vars

-----------------------------------------------------------------------------
(* What the queue promises.                                                *)

Promise == INSTANCE DurableQueue WITH
  stored   <- {m \in Mail : Stored(m)},
  accepted <- {m \in Mail : client[m] = "accepted"},
  handled  <- handled,
  lives    <- deq_restarts

\* Both processes together keep it: the cancelling, the failing and the
\* restarting of the smtp process remove no complete mail, and the delivery
\* process removes none that the hooks have not been given.
KeepsPromise == Promise!Spec

-----------------------------------------------------------------------------
(* Liveness.                                                               *)

\* A key without a node, and no loader about to vouch for it: no thread will
\* ever take it out, unless a mail is loaded from the same slot, which the
\* key itself prevents.
StaleKeys ==
  {s \in hashed :
     ~ \E n \in Node \ free : node[n].slot = s}

\* How many steps of the flushing thread, at most, are left for what it works on
\* (the search through the blocks is one here), and until it feeds m back: those
\* for each context in front of m as well.
StepsLeft ==
  [idle |-> 0, feedback |-> 1, notify |-> 2, body |-> 3, open |-> 4, tape |-> 5,
   find |-> 6]

StepsUntil(m) ==
  {7 * i + StepsLeft[fpc] :
     i \in {i \in 0 .. Len(flush_queue) :
             m = IF i = 0 THEN fmail ELSE flush_queue[i]}}

\* No context that sleeps is forgotten or overtaken, by any path of success or
\* failure: it is in the queue or with the flushing thread, each step of that
\* thread brings it nearer to its feedback, and no step of anybody else puts
\* it off.
FlushGoesOn ==
  /\ [](\A m \in Mail : client[m] = "flushing" => StepsUntil(m) # {})
  /\ [][\A m \in Mail :
          client[m] = "flushing" /\ client'[m] = "flushing" =>
            \A k \in StepsUntil(m) : \E j \in StepsUntil(m)' :
              j <= k /\ (fpc' # fpc => j < k)]_vars

\* Every context put to sleep by the flusher is fed back.
FlushAnswered ==
  \A m \in Mail : client[m] = "flushing" ~> client[m] # "flushing"

\* Every worker is idle, with a node to be had: the signal for it was given while
\* no worker waited (Delivery!QueuedIsServed is about when that may be).
Slept == used # <<>> /\ \A w \in Worker : wpc[w] = "get"

\* A stored mail is handled in the end, however its notice was lost (a full
\* message queue, a key still in the table, no memory, no node): the idle
\* scan finds it.  Three things are excepted: a key added after its node was put
\* back, memory that was never given back, and workers that all sleep for ever
\* with a node on the used list.
StoredIsHandled ==
  \A m \in Mail :
    Stored(m) ~>
      handled[m] > 0 \/ StaleKeys # {} \/ ~ MemoryExact \/ []Slept

\* The same for workers that are woken in the end, and no other exception.
StoredIsAlwaysHandled ==
  \A m \in Mail : Stored(m) ~> handled[m] > 0 \/ []Slept
=============================================================================
