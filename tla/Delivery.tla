-------------------------------- MODULE Delivery -------------------------------
(***************************************************************************)
(* The delivery process from the used list of message_dequeue to the end   *)
(* of a mail: the transporter, the gateway hook in its threads, and the    *)
(* cache queue, with mishaps at any step: the process dies, or a file      *)
(* cannot be removed.                                                      *)
(***************************************************************************)
EXTENDS RetryQueue

CONSTANT MaxMishaps  \* bound: how many mishaps

ASSUME DeliveryAssumption == MaxMishaps \in Nat

VARIABLES
  mishaps,
  dropped   \* mails in the cache thread's hands, with no file, at a death

vars == <<transVars, retryVars, mishaps, dropped>>

Init ==
  /\ TransInit /\ RetryInit
  /\ mishaps = 0 /\ dropped = {}

Transport(t) ==
  /\ StartWait(t) \/ Get(t) \/ Dequeue(t) \/ NotServed(t) \/ Leave(t) \/ Put(t)
  /\ UNCHANGED retryVars

Others ==
  /\ (\E m \in Mail : Load(m)) \/ LoadSignal \/ Broadcast \/ AddThread \/ AddFails
  /\ UNCHANGED retryVars

Die ==
  /\ dropped' = IF cpc = "bounce" /\ cwhole THEN dropped \cup MailIn(cmsg)
                                            ELSE dropped
  /\ TransRestart /\ RetryRestart

Mishap ==
  /\ mishaps < MaxMishaps
  /\ mishaps' = mishaps + 1
  /\ Die \/ (RemoveFails /\ UNCHANGED dropped)

Live ==
  /\ \/ \E t \in Thread : Transport(t) \/ Hook(t)
     \/ Others
     \/ CacheThread
  /\ UNCHANGED <<mishaps, dropped>>

Next == Live \/ Mishap

Spec == Init /\ [][Next]_vars

Does(A) == A /\ UNCHANGED <<mishaps, dropped>>

CacheReads(i)  == ReadFile /\ cfile = i
CacheCounts(i) == CacheDefers /\ cfile = i /\ files' # files

\* Endless loops with short sleeps; pthread_create does not fail for ever, nor do
\* the reading of a complete file and the write of its count.
Fairness ==
  /\ \A t \in Thread : WF_vars(Does(Transport(t) \/ Hook(t)))
  /\ WF_vars(Does((\E m \in Mail : Load(m)) /\ UNCHANGED retryVars))
  /\ WF_vars(Does(LoadSignal /\ UNCHANGED retryVars))
  /\ WF_vars(Does(Broadcast /\ UNCHANGED retryVars))
  /\ WF_vars(Does(AddThread /\ UNCHANGED retryVars))
  /\ WF_vars(Does(CacheThread))
  /\ \A i \in IDs : SF_vars(Does(CacheReads(i))) /\ SF_vars(Does(CacheCounts(i)))

FairSpec == Spec /\ Fairness

-----------------------------------------------------------------------------
(* Properties.                                                             *)

TypeOK ==
  /\ TransTypeOK /\ RetryTypeOK
  /\ mishaps \in 0..MaxMishaps /\ dropped \subseteq Mail

\* Every context of the hooks is free, queued, with a thread, or the one that the
\* cache queue thread keeps: none is lost, whatever bounces, and none is in two
\* places.
ContextsAccounted ==
  free + Len(g_queue_list) + 1
    + Cardinality({t \in Thread : item[t] # NoMsg /\ item[t].bounce}) = FreeNum

Original(m) == [mail |-> m, bounce |-> FALSE]

\* In a complete file of the cache queue; and read from it, the file removed.
InFile(m) == \E i \in Complete : files[i].msg = Original(m)
BeingBounced(m) == cpc = "bounce" /\ cwhole /\ cmsg = Original(m)

\* A mail is in the mail queue, or in a complete file of the cache queue, or with
\* the cache thread on its way to be bounced, or it has been delivered, bounced or
\* given up where the code says so.  There are two other ways out: a death in the
\* middle of a bounce, and a file that was finished between its stat and its read.
MailKept ==
  \A m \in Mail :
    \/ m \in stored
    \/ InFile(m) \/ BeingBounced(m)
    \/ m \in delivered \cup bounced \cup given_up \cup dropped \cup mangled

\* "0 at the begin of file to indicate message is now being writing": what the
\* cache queue deals with as a mail is the whole of it.
MailsSentWhole == mangled = {}

\* Until the first mishap a mail has one end.
OneOutcome ==
  mishaps = 0 =>
    \A m \in Mail :
      /\ ~(m \in delivered /\ m \in bounced)
      /\ m \in given_up => m \notin delivered \cup bounced
      /\ m \in mangled => m \notin delivered \cup bounced \cup given_up

Custody == INSTANCE MailCustody WITH
  queued <- stored,
  cached <- {m \in Mail : InFile(m) \/ BeingBounced(m)}

\* What becomes of a mail, step by step: the transporter, the hook in all of its
\* threads and the cache queue together hand it on as one who keeps it would.
KeepsCustody == Custody!Spec

\* Nobody will look at the lists before somebody signals again: all of the threads
\* in the pool wait, and a signal has found none of them waiting.
Overslept ==
  /\ unheard
  /\ loader = "load"
  /\ \A t \in g_threads_list : pc[t] = "waiting"

\* A message on the used list or a context in the queue is taken, unless the signal
\* was lost on all the threads: then it waits for the next one.
QueuedIsServed ==
  /\ \A m \in Mail :
       m \in ToSet(g_used_list) ~>
         \/ m \notin ToSet(g_used_list)
         \/ Overslept /\ g_threads_list = Thread
  /\ \A msg \in Msg :
       msg \in ToSet(g_queue_list) ~> msg \notin ToSet(g_queue_list) \/ Overslept

\* What is in the cache queue leaves it.
CachedIsSettled == \A i \in IDs : i \in Complete ~> i \notin Complete
=============================================================================
