---------------------------- MODULE DeliveryProofs ----------------------------
(***************************************************************************)
(* Proofs about Delivery: no context of the hooks is lost or doubled, no   *)
(* mail leaves the process's hands but where the code says so, without a   *)
(* mishap no mail has two ends, and step by step a mail is handed on as     *)
(* MailCustody promises.                                                   *)
(***************************************************************************)
EXTENDS Delivery, ListLemmas

\* Where a thread works on nothing.
Resting == {"off", "start", "waiting", "get", "dequeue", "idle", "leave"}

Bouncing == {msg \in Msg : msg.bounce}

Holders == {t \in Thread : item[t] # NoMsg /\ item[t].bounce}

ThreadInv ==
  /\ \A t \in Thread : item[t] = NoMsg <=> pc[t] \in Resting
  /\ IsInjective(g_free_threads)
  /\ \A t \in ToSet(g_free_threads) : pc[t] = "off"
  /\ g_queue_list \in Seq(Bouncing)

\* The node of a mail is on the used list or with one thread.
NodeInv ==
  /\ IsInjective(g_used_list)
  /\ ToSet(g_used_list) \subseteq loaded
  /\ \A t \in Thread :
       item[t] # NoMsg /\ ~item[t].bounce => item[t].mail \in loaded \ ToSet(g_used_list)
  /\ \A t, s \in Thread :
       item[t] # NoMsg /\ ~item[t].bounce /\ item[s] = item[t] => s = t

\* A file belongs to the thread that writes it, with a 0 in front; what the cache
\* thread has read is in its file until it removes it.
FileInv ==
  /\ \A i \in FileIDs : i <= g_mess_id
  /\ \A t \in Thread :
       IF pc[t] = "write"
       THEN writing[t] \in IDs /\ files[writing[t]] = [msg |-> item[t], times |-> 0]
       ELSE writing[t] = 0
  /\ \A t, s \in Thread : writing[t] # 0 /\ writing[s] = writing[t] => s = t
  /\ cpc \in {"dispatch", "remove"} => cfile \in Complete /\ files[cfile].msg = cmsg
  /\ cpc \in {"dispatch", "remove", "bounce", "signal"} => cmsg \in Msg
  /\ cpc = "remove" => MailIn(cmsg) \subseteq delivered \cup mangled

Ended == delivered \cup bounced \cup given_up \cup mangled

Settled(m) == InFile(m) \/ BeingBounced(m) \/ m \in Ended \cup dropped

KeptInv ==
  /\ \A t \in Thread :
       pc[t] \in {"signal", "put"} /\ ~item[t].bounce => Settled(item[t].mail)
  /\ \A m \in Mail : m \in stored \/ Settled(m)

\* In the mail queue, and its thread, if it has one, has not done with it.
Fresh(m) ==
  /\ m \in stored
  /\ \A t \in Thread : item[t] = Original(m) => pc[t] \in {"hook", "open", "write"}

\* Nothing has happened to a fresh mail, but that its thread may be writing it.
FreshIsOpen ==
  \A m \in Mail : Fresh(m) =>
    /\ m \notin Ended
    /\ ~BeingBounced(m)
    /\ \A i \in FileIDs :
         files[i].msg = Original(m) => \E t \in Thread : writing[t] = i

\* A mail in the cache queue is there once, and its fate is open until it is
\* delivered from there.
CachedIsOpen ==
  /\ \A i, j \in FileIDs : ~files[i].msg.bounce /\ files[j].msg = files[i].msg => i = j
  /\ \A i \in Complete :
       ~files[i].msg.bounce =>
         (cpc = "remove" /\ cfile = i) \/ files[i].msg.mail \notin Ended

BouncedIsOpen ==
  \A m \in Mail : BeingBounced(m) =>
    m \notin Ended /\ \A i \in FileIDs : files[i].msg # Original(m)

OneEnd ==
  /\ delivered \cap bounced = {} /\ delivered \cap given_up = {}
  /\ bounced \cap given_up = {}
  /\ mangled \cap (delivered \cup bounced \cup given_up) = {}

Fate == FreshIsOpen /\ CachedIsOpen /\ BouncedIsOpen /\ OneEnd

-----------------------------------------------------------------------------
(* Threads, lists and contexts.                                            *)

PoolInv == TypeOK /\ ThreadInv /\ ContextsAccounted

LEMMA HoldersFinite ==
  IsFiniteSet(Holders) /\ Cardinality(Holders) \in Nat
<1>1. IsFiniteSet(Holders)
  BY TransporterAssumption, FS_Subset DEF Holders
<1> QED BY <1>1, FS_CardinalityType

\* A thread takes an item, or is done with one.
LEMMA HoldersChange ==
  ASSUME TypeOK, NEW t \in Thread, NEW x \in Msg \cup {NoMsg},
         item' = [item EXCEPT ![t] = x]
  PROVE  /\ t \notin Holders /\ x # NoMsg /\ x.bounce
              => Cardinality(Holders') = Cardinality(Holders) + 1
         /\ t \in Holders /\ x = NoMsg
              => Cardinality(Holders') = Cardinality(Holders) - 1
         /\ t \notin Holders /\ (x = NoMsg \/ ~x.bounce) => Holders' = Holders
<1>1. \A s \in Thread : item'[s] = IF s = t THEN x ELSE item[s]
  BY DEF TypeOK, TransTypeOK
<1>2. IsFiniteSet(Holders) /\ Cardinality(Holders) \in Nat
  BY HoldersFinite
<1>3. CASE t \notin Holders /\ x # NoMsg /\ x.bounce
  <2>1. Holders' = Holders \cup {t}
    BY <1>1, <1>3 DEF Holders
  <2>2. Cardinality(Holders \cup {t}) = Cardinality(Holders) + 1
    BY <1>2, <1>3, FS_AddElement
  <2> QED BY <1>3, <2>1, <2>2
<1>4. CASE t \in Holders /\ x = NoMsg
  <2>1. Holders' = Holders \ {t}
    BY <1>1, <1>4 DEF Holders
  <2>2. Cardinality(Holders \ {t}) = Cardinality(Holders) - 1
    BY <1>2, <1>4, FS_RemoveElement
  <2> QED BY <1>4, <2>1, <2>2
<1>5. CASE t \notin Holders /\ (x = NoMsg \/ ~x.bounce)
  BY <1>1, <1>5 DEF Holders
<1> QED BY <1>3, <1>4, <1>5

\* The threads that a step may leave at the condition variable, or move on.
LEMMA WakeOneMoves ==
  ASSUME TypeOK, NEW self \in SUBSET Thread, NEW next, WakeOne(self, next),
         next \in {"get", "put"}
  PROVE  /\ pc' \in [Thread -> {"off", "start", "waiting", "get", "dequeue", "idle",
                                "leave", "hook", "signal", "open", "write", "put"}]
         /\ unheard' \in BOOLEAN
         /\ \A t \in Thread : \/ pc'[t] = pc[t] /\ t \notin self
                              \/ pc[t] = "waiting" /\ pc'[t] = "get"
                              \/ t \in self /\ pc'[t] = next
<1>1. PICK w \in SUBSET Waiting :
        pc' = [t \in Thread |-> IF t \in w THEN "get"
                                ELSE IF t \in self THEN next ELSE pc[t]]
  BY DEF WakeOne
<1>2. \A t \in w : pc[t] = "waiting"
  BY DEF Waiting
<1> QED BY <1>1, <1>2 DEF TypeOK, TransTypeOK, WakeOne

\* A step that takes nothing and gives nothing back.
LEMMA PoolFrame ==
  ASSUME PoolInv, TypeOK',
         UNCHANGED <<item, g_queue_list, free>>,
         \A t \in Thread : pc'[t] \in Resting <=> pc[t] \in Resting,
         IsInjective(g_free_threads'),
         \A t \in ToSet(g_free_threads') : pc'[t] = "off"
  PROVE  PoolInv'
<1>1. ThreadInv'
  BY DEF PoolInv, ThreadInv
<1>2. Holders' = Holders
  BY DEF Holders
<1> QED BY <1>1, <1>2 DEF PoolInv, ContextsAccounted, Holders

\* Threads change places, the lists stay as they are.
LEMMA PoolMoves ==
  ASSUME PoolInv, TypeOK',
         UNCHANGED <<item, g_queue_list, free, g_free_threads>>,
         \A t \in Thread :
           /\ pc'[t] \in Resting <=> pc[t] \in Resting
           /\ pc[t] = "off" => pc'[t] = "off"
  PROVE  PoolInv'
<1>1. ToSet(g_free_threads) \subseteq Thread
  BY DEF PoolInv, TypeOK, TransTypeOK, ToSet
<1>2. /\ IsInjective(g_free_threads')
      /\ \A t \in ToSet(g_free_threads') : pc'[t] = "off"
  BY <1>1 DEF PoolInv, ThreadInv
<1> QED BY <1>2, PoolFrame

\* A step of the cache queue thread that leaves the transporter alone.
LEMMA PoolCache ==
  ASSUME PoolInv, UNCHANGED transVars, RetryTypeOK',
         mishaps' \in 0..MaxMishaps, dropped' \subseteq Mail
  PROVE  PoolInv'
<1>1. TypeOK'
  BY DEF PoolInv, TypeOK, TransTypeOK, transVars, sourceVars, poolVars, threadVars,
         contextVars
<1> QED BY <1>1, PoolMoves DEF transVars, poolVars, threadVars, contextVars

\* What transporter_run makes of memory.
LEMMA StartTypes ==
  ASSUME NEW free_threads \in SetToSeqs(Thread \ First)
  PROVE  /\ free_threads \in Seq(Thread)
         /\ IsInjective(free_threads)
         /\ ToSet(free_threads) = Thread \ First
<1>1. IsFiniteSet(Thread \ First)
  BY TransporterAssumption, FS_Subset
<1>2. free_threads \in Seq(Thread \ First)
  BY <1>1, OrderOfSet
<1> QED BY <1>1, <1>2, OrderOfSet

LEMMA PoolTransport ==
  ASSUME PoolInv, NEW t \in Thread, Transport(t), UNCHANGED <<mishaps, dropped>>
  PROVE  PoolInv'
<1> USE TransporterAssumption
    DEF transVars, sourceVars, poolVars, threadVars, contextVars
<1>0. RetryTypeOK' /\ mishaps' \in 0..MaxMishaps /\ dropped' \subseteq Mail
  BY DEF Transport, PoolInv, TypeOK, RetryTypeOK, retryVars, cacheVars, outcomeVars
<1>1. CASE StartWait(t)
  <2>1. TransTypeOK'
    BY <1>1 DEF StartWait, Goto, PoolInv, TypeOK, TransTypeOK
  <2> QED BY <1>0, <1>1, <2>1, PoolMoves
          DEF StartWait, Goto, PoolInv, TypeOK, TransTypeOK, Resting
<1>2. CASE Get(t)
  <2>1. CASE g_used_list = <<>>
    <3>1. TransTypeOK'
      BY <1>2, <2>1 DEF Get, Goto, PoolInv, TypeOK, TransTypeOK
    <3> QED BY <1>0, <1>2, <2>1, <3>1, PoolMoves
            DEF Get, Goto, PoolInv, TypeOK, TransTypeOK, Resting
  <2>2. CASE g_used_list # <<>>
    <3> DEFINE x == [mail |-> Head(g_used_list), bounce |-> FALSE]
    <3>1. Head(g_used_list) \in Mail /\ Tail(g_used_list) \in Seq(Mail)
      BY <2>2 DEF PoolInv, TypeOK, TransTypeOK
    <3>2. x \in Msg /\ x # NoMsg /\ ~x.bounce
      <4>1. x \in Msg /\ ~x.bounce
        BY <3>1 DEF Msg
      <4> QED BY <4>1
    <3>3. /\ item' = [item EXCEPT ![t] = x]
          /\ pc[t] = "get" /\ pc' = [pc EXCEPT ![t] = "hook"]
          /\ g_used_list' = Tail(g_used_list)
          /\ cannot_served_times' = [cannot_served_times EXCEPT ![t] = 0]
          /\ UNCHANGED <<stored, loaded, loader, poolVars, contextVars, unheard>>
      BY <1>2, <2>2 DEF Get, Goto
    <3> HIDE DEF x
    <3>4. TransTypeOK'
      BY <3>1, <3>2, <3>3 DEF PoolInv, TypeOK, TransTypeOK
    <3>5. t \notin Holders
      BY <3>3 DEF PoolInv, ThreadInv, Resting, Holders
    <3>6. Holders' = Holders
      BY <3>2, <3>3, <3>5, HoldersChange DEF PoolInv
    <3>7. ContextsAccounted'
      BY <3>3, <3>6 DEF PoolInv, ContextsAccounted, Holders
    <3>8. ThreadInv'
      BY <3>2, <3>3 DEF PoolInv, ThreadInv, Resting, TypeOK, TransTypeOK, ToSet
    <3> QED BY <1>0, <3>4, <3>7, <3>8 DEF PoolInv, TypeOK
  <2> QED BY <2>1, <2>2
<1>3. CASE Dequeue(t)
  <2>1. CASE g_queue_list = <<>>
    <3>1. TransTypeOK'
      BY <1>3, <2>1 DEF Dequeue, Goto, PoolInv, TypeOK, TransTypeOK
    <3> QED BY <1>0, <1>3, <2>1, <3>1, PoolMoves
            DEF Dequeue, Goto, PoolInv, TypeOK, TransTypeOK, Resting
  <2>2. CASE g_queue_list # <<>>
    <3>1. PICK x \in Bouncing : x = Head(g_queue_list)
      BY <2>2 DEF PoolInv, ThreadInv
    <3>2. x \in Msg /\ x # NoMsg /\ x.bounce
      BY DEF Bouncing
    <3>3. /\ g_queue_list' = Tail(g_queue_list)
          /\ g_queue_list' \in Seq(Bouncing) /\ g_queue_list' \in Seq(Msg)
          /\ Len(g_queue_list') = Len(g_queue_list) - 1
          /\ Len(g_queue_list) \in Nat
      <4>1. g_queue_list' = Tail(g_queue_list)
        BY <1>3, <2>2 DEF Dequeue
      <4>2. g_queue_list \in Seq(Bouncing)
        BY DEF PoolInv, ThreadInv
      <4>3. g_queue_list \in Seq(Msg)
        BY DEF PoolInv, TypeOK, TransTypeOK
      <4>4. Tail(g_queue_list) \in Seq(Bouncing)
        BY <2>2, <4>2
      <4>5. /\ Tail(g_queue_list) \in Seq(Msg)
            /\ Len(Tail(g_queue_list)) = Len(g_queue_list) - 1
            /\ Len(g_queue_list) \in Nat
        BY <2>2, <4>3
      <4> QED BY <4>1, <4>4, <4>5
    <3>4. /\ item' = [item EXCEPT ![t] = x]
          /\ pc[t] = "dequeue" /\ pc' = [pc EXCEPT ![t] = "hook"]
          /\ cannot_served_times' = [cannot_served_times EXCEPT ![t] = 0]
          /\ UNCHANGED <<sourceVars, poolVars, free, unheard>>
      BY <1>3, <2>2, <3>1 DEF Dequeue, Goto
    <3>5. TransTypeOK'
      BY <3>2, <3>3, <3>4 DEF PoolInv, TypeOK, TransTypeOK
    <3>6. t \notin Holders
      BY <3>4 DEF PoolInv, ThreadInv, Resting, Holders
    <3>7. Cardinality(Holders') = Cardinality(Holders) + 1
      BY <3>2, <3>4, <3>6, HoldersChange DEF PoolInv
    <3>8. ContextsAccounted'
      BY <3>3, <3>4, <3>7, HoldersFinite
         DEF PoolInv, TypeOK, TransTypeOK, ContextsAccounted, Holders
    <3>9. ThreadInv'
      <4>1. \A s \in Thread : /\ pc'[s] = IF s = t THEN "hook" ELSE pc[s]
                             /\ item'[s] = IF s = t THEN x ELSE item[s]
        BY <3>4 DEF PoolInv, TypeOK, TransTypeOK
      <4>2. g_free_threads' = g_free_threads /\ ToSet(g_free_threads) \subseteq Thread
        BY <3>4 DEF PoolInv, TypeOK, TransTypeOK, ToSet
      <4> QED BY <3>2, <3>3, <3>4, <4>1, <4>2 DEF PoolInv, ThreadInv, Resting
    <3> QED BY <1>0, <3>5, <3>8, <3>9 DEF PoolInv, TypeOK
  <2> QED BY <2>1, <2>2
<1>4. CASE NotServed(t)
  <2>1. /\ pc[t] = "idle"
        /\ \E s \in {"get", "leave", "waiting"} : pc' = [pc EXCEPT ![t] = s]
        /\ g_threads_list' \subseteq g_threads_list
        /\ UNCHANGED <<sourceVars, started, g_free_threads, item, contextVars, unheard>>
    BY <1>4 DEF NotServed, Goto
  <2>2. cannot_served_times' \in [Thread -> 0..MaxNotServed]
    <3>1. \/ cannot_served_times' = cannot_served_times
          \/ /\ ~(cannot_served_times[t] + 1 >= MaxNotServed)
             /\ cannot_served_times'
                  = [cannot_served_times EXCEPT ![t] = cannot_served_times[t] + 1]
      BY <1>4 DEF NotServed
    <3>2. cannot_served_times \in [Thread -> 0..MaxNotServed]
      BY DEF PoolInv, TypeOK, TransTypeOK
    <3>3. ~(cannot_served_times[t] + 1 >= MaxNotServed)
            => cannot_served_times[t] + 1 \in 0..MaxNotServed
      BY <3>2
    <3> QED BY <3>1, <3>2, <3>3
  <2>3. TransTypeOK'
    BY <2>1, <2>2 DEF PoolInv, TypeOK, TransTypeOK
  <2> QED BY <1>0, <2>1, <2>3, PoolMoves DEF PoolInv, TypeOK, TransTypeOK, Resting
<1>5. CASE Leave(t)
  <2>1. /\ pc[t] = "leave" /\ pc' = [pc EXCEPT ![t] = "off"]
        /\ g_free_threads' = Append(g_free_threads, t)
        /\ UNCHANGED <<sourceVars, started, g_threads_list, item, cannot_served_times,
                       contextVars, unheard>>
    BY <1>5 DEF Leave, Goto
  <2>2. t \notin ToSet(g_free_threads)
    BY <2>1 DEF PoolInv, ThreadInv
  <2>3. /\ g_free_threads' \in Seq(Thread)
        /\ ToSet(g_free_threads') = ToSet(g_free_threads) \cup {t}
        /\ IsInjective(g_free_threads')
    BY <2>1, <2>2, AppendOne DEF PoolInv, TypeOK, TransTypeOK, ThreadInv
  <2>4. TransTypeOK'
    BY <2>1, <2>3 DEF PoolInv, TypeOK, TransTypeOK
  <2>5. \A s \in ToSet(g_free_threads') : pc'[s] = "off"
    BY <2>1, <2>3 DEF PoolInv, ThreadInv, TypeOK, TransTypeOK, ToSet
  <2> QED BY <1>0, <2>1, <2>3, <2>4, <2>5, PoolFrame
          DEF PoolInv, TypeOK, TransTypeOK, Resting
<1>6. CASE Put(t)
  <2>1. /\ pc[t] = "put" /\ pc' = [pc EXCEPT ![t] = "get"]
        /\ item' = [item EXCEPT ![t] = NoMsg]
        /\ UNCHANGED <<g_used_list, loader, poolVars, cannot_served_times, g_queue_list,
                       unheard>>
    BY <1>6 DEF Put, Goto
  <2>2. item[t] \in Msg /\ item[t] # NoMsg
    BY <2>1 DEF PoolInv, ThreadInv, TypeOK, TransTypeOK, Resting
  <2>3. /\ stored' \subseteq Mail /\ loaded' \subseteq stored'
        /\ free' = IF t \in Holders THEN free + 1 ELSE free
    BY <1>6, <2>2 DEF Put, Release, PoolInv, TypeOK, TransTypeOK, Holders
  <2>4. Len(g_queue_list) \in Nat /\ free \in Nat
    BY DEF PoolInv, TypeOK, TransTypeOK
  <2>5. ContextsAccounted'
    <3>1. CASE t \in Holders
      <4>1. Cardinality(Holders') = Cardinality(Holders) - 1
        BY <2>1, <3>1, HoldersChange DEF PoolInv
      <4> QED BY <2>1, <2>3, <2>4, <3>1, <4>1, HoldersFinite
              DEF PoolInv, ContextsAccounted, Holders
    <3>2. CASE t \notin Holders
      <4>1. Holders' = Holders
        BY <2>1, <3>2, HoldersChange DEF PoolInv
      <4> QED BY <2>1, <2>3, <3>2, <4>1 DEF PoolInv, ContextsAccounted, Holders
    <3> QED BY <3>1, <3>2
  <2>6. free' \in 0..FreeNum
    <3>1. /\ free' + Len(g_queue_list') + 1 + Cardinality(Holders') = FreeNum
          /\ Cardinality(Holders') \in Nat
      <4>1. IsFiniteSet(Holders')
        BY FS_Subset DEF Holders
      <4> QED BY <2>5, <4>1, FS_CardinalityType DEF ContextsAccounted, Holders
    <3> QED BY <2>1, <2>3, <2>4, <3>1
  <2>7. TransTypeOK'
    BY <2>1, <2>3, <2>6 DEF PoolInv, TypeOK, TransTypeOK
  <2>8. ThreadInv'
    BY <2>1 DEF PoolInv, ThreadInv, Resting, TypeOK, TransTypeOK, ToSet
  <2> QED BY <1>0, <2>5, <2>7, <2>8 DEF PoolInv, TypeOK
<1> QED BY <1>1, <1>2, <1>3, <1>4, <1>5, <1>6 DEF Transport

LEMMA PoolOthers ==
  ASSUME PoolInv, Others, UNCHANGED <<mishaps, dropped>>
  PROVE  PoolInv'
<1> USE TransporterAssumption
    DEF transVars, sourceVars, poolVars, threadVars, contextVars
<1>0. RetryTypeOK' /\ mishaps' \in 0..MaxMishaps /\ dropped' \subseteq Mail
  BY DEF Others, PoolInv, TypeOK, RetryTypeOK, retryVars, cacheVars, outcomeVars
<1>1. CASE \E m \in Mail : Load(m)
  <2>1. PICK m \in Mail : Load(m)
    BY <1>1
  <2>2. /\ loaded' \subseteq stored'
        /\ g_used_list' \in Seq(Mail)
        /\ loader' \in {"load", "signal"}
    BY <2>1 DEF Load, PoolInv, TypeOK, TransTypeOK
  <2>3. UNCHANGED <<stored, poolVars, threadVars, contextVars, unheard>>
    BY <2>1 DEF Load
  <2>4. TransTypeOK'
    BY <2>2, <2>3 DEF PoolInv, TypeOK, TransTypeOK
  <2> QED BY <1>0, <2>3, <2>4, PoolMoves DEF TypeOK
<1>2. CASE LoadSignal
  <2>1. /\ WakeOne({}, "get") /\ loader' = "load"
        /\ UNCHANGED <<stored, loaded, g_used_list, poolVars, item,
                       cannot_served_times, contextVars>>
    BY <1>2 DEF LoadSignal
  <2>2. /\ pc' \in [Thread -> {"off", "start", "waiting", "get", "dequeue", "idle",
                               "leave", "hook", "signal", "open", "write", "put"}]
        /\ unheard' \in BOOLEAN
        /\ \A t \in Thread : pc'[t] = pc[t] \/ (pc[t] = "waiting" /\ pc'[t] = "get")
    BY <2>1, WakeOneMoves DEF PoolInv
  <2>3. TransTypeOK'
    BY <2>1, <2>2 DEF PoolInv, TypeOK, TransTypeOK
  <2> QED BY <1>0, <2>1, <2>2, <2>3, PoolMoves DEF TypeOK, Resting
<1>3. CASE Broadcast
  <2>1. /\ pc' = [t \in Thread |-> IF t \in Waiting THEN "get" ELSE pc[t]]
        /\ started' = TRUE
        /\ UNCHANGED <<sourceVars, g_threads_list, g_free_threads, item,
                       cannot_served_times, contextVars, unheard>>
    BY <1>3 DEF Broadcast
  <2>2. TransTypeOK'
    BY <2>1 DEF PoolInv, TypeOK, TransTypeOK
  <2> QED BY <1>0, <2>1, <2>2, PoolMoves DEF TypeOK, Resting, Waiting
<1>4. CASE AddThread
  <2> DEFINE list == g_free_threads
  <2>1. PICK t \in Thread : t = Head(list)
    BY <1>4 DEF AddThread, MoreNeeded, PoolInv, TypeOK, TransTypeOK
  <2>2. /\ list # <<>>
        /\ list' = Tail(list)
        /\ g_threads_list' = g_threads_list \cup {t}
        /\ cannot_served_times' = [cannot_served_times EXCEPT ![t] = 0]
        /\ \E s \in {"start", "get"} : pc' = [pc EXCEPT ![t] = s]
        /\ UNCHANGED <<sourceVars, started, item, contextVars, unheard>>
    BY <1>4, <2>1 DEF AddThread, MoreNeeded, Goto
  <2>3. /\ t \in ToSet(list)
        /\ list' \in Seq(Thread) /\ ToSet(list') = ToSet(list) \ {t}
        /\ IsInjective(list')
    BY <2>1, <2>2, TakeHead DEF PoolInv, TypeOK, TransTypeOK, ThreadInv
  <2>4. TransTypeOK'
    BY <2>2, <2>3 DEF PoolInv, TypeOK, TransTypeOK
  <2>5. pc[t] = "off" /\ ToSet(list) \subseteq Thread
    BY <2>3 DEF PoolInv, ThreadInv, TypeOK, TransTypeOK, ToSet
  <2>6. \A s \in ToSet(list') : pc'[s] = "off"
    BY <2>2, <2>3, <2>5 DEF PoolInv, ThreadInv, TypeOK, TransTypeOK
  <2> QED BY <1>0, <2>2, <2>3, <2>4, <2>5, <2>6, PoolFrame
          DEF PoolInv, TypeOK, TransTypeOK, Resting
<1>5. CASE AddFails
  <2> DEFINE list == g_free_threads
             t == Head(list)
  <2>1. /\ list # <<>> /\ list' = Append(Tail(list), t)
        /\ UNCHANGED <<sourceVars, started, g_threads_list, threadVars, contextVars,
                       unheard>>
    BY <1>5 DEF AddFails, MoreNeeded
  <2>2. /\ t \in Thread /\ t \in ToSet(list)
        /\ Tail(list) \in Seq(Thread) /\ ToSet(Tail(list)) = ToSet(list) \ {t}
        /\ IsInjective(Tail(list))
    BY <2>1, TakeHead DEF PoolInv, TypeOK, TransTypeOK, ThreadInv
  <2>3. /\ list' \in Seq(Thread) /\ ToSet(list') = ToSet(list) /\ IsInjective(list')
    <3> DEFINE rest == Tail(list)
    <3>1. rest \in Seq(Thread) /\ IsInjective(rest) /\ ToSet(rest) = ToSet(list) \ {t}
      BY <2>2
    <3> HIDE DEF rest
    <3>2. /\ Append(rest, t) \in Seq(Thread)
          /\ ToSet(Append(rest, t)) = ToSet(rest) \cup {t}
          /\ IsInjective(Append(rest, t))
      BY <2>2, <3>1, AppendOne
    <3>3. g_free_threads' = Append(rest, t)
      BY <2>1 DEF rest
    <3> QED BY <2>2, <3>1, <3>2, <3>3
  <2>4. TransTypeOK'
    BY <2>1, <2>3 DEF PoolInv, TypeOK, TransTypeOK
  <2>5. \A s \in ToSet(list') : pc'[s] = "off"
    BY <2>1, <2>3 DEF PoolInv, ThreadInv
  <2> QED BY <1>0, <2>1, <2>3, <2>4, <2>5, PoolFrame DEF TypeOK
<1> QED BY <1>1, <1>2, <1>3, <1>4, <1>5 DEF Others

\* A bounce is queued.
LEMMA EnqueueBounce ==
  ASSUME PoolInv, NEW m \in Mail, Enqueue([mail |-> m, bounce |-> TRUE]), UNCHANGED item
  PROVE  /\ free' \in 0..FreeNum
         /\ g_queue_list' \in Seq(Bouncing) /\ g_queue_list' \in Seq(Msg)
         /\ ContextsAccounted'
<1> DEFINE x == [mail |-> m, bounce |-> TRUE]
<1>1. x \in Bouncing /\ x \in Msg
  BY DEF Bouncing, Msg
<1>2. /\ free > 0 /\ free' = free - 1
      /\ g_queue_list' = Append(g_queue_list, x)
  BY DEF Enqueue
<1>3. free' \in 0..FreeNum /\ free \in Nat
  BY <1>2, TransporterAssumption DEF PoolInv, TypeOK, TransTypeOK
<1>4. /\ g_queue_list' \in Seq(Bouncing)
      /\ Len(g_queue_list') = Len(g_queue_list) + 1 /\ Len(g_queue_list) \in Nat
  BY <1>1, <1>2 DEF PoolInv, ThreadInv
<1>5. g_queue_list' \in Seq(Msg)
  BY <1>1, <1>2 DEF PoolInv, TypeOK, TransTypeOK
<1>6. Holders' = Holders
  BY DEF Holders
<1>7. ContextsAccounted'
  BY <1>2, <1>3, <1>4, <1>6, HoldersFinite DEF PoolInv, ContextsAccounted, Holders
<1> QED BY <1>3, <1>4, <1>5, <1>7

\* A hook queues a bounce, or the cache queue thread does.
LEMMA PoolBounce ==
  ASSUME PoolInv, NEW msg \in Msg, Enqueue([mail |-> msg.mail, bounce |-> TRUE]), TypeOK',
         UNCHANGED <<item, g_free_threads>>,
         \A t \in Thread :
           /\ pc'[t] \in Resting <=> pc[t] \in Resting
           /\ pc[t] = "off" => pc'[t] = "off"
  PROVE  PoolInv'
<1>1. msg.mail \in Mail
  BY DEF Msg
<1>2. ContextsAccounted' /\ g_queue_list' \in Seq(Bouncing)
  BY <1>1, EnqueueBounce
<1>3. ToSet(g_free_threads) \subseteq Thread
  BY DEF PoolInv, TypeOK, TransTypeOK, ToSet
<1>4. ThreadInv'
  BY <1>2, <1>3 DEF PoolInv, ThreadInv
<1> QED BY <1>2, <1>4 DEF PoolInv

\* What has become of the mails.
Outcomes ==
  /\ delivered \subseteq Mail /\ bounced \subseteq Mail /\ given_up \subseteq Mail
  /\ mangled \subseteq Mail

LEMMA OutcomeTypes ==
  ASSUME TypeOK, NEW msg \in Msg,
         Deliver(msg) \/ Mangle(msg) \/ GiveUp(msg) \/ Bounce(msg)
           \/ UNCHANGED outcomeVars
  PROVE  Outcomes'
<1>1. msg.mail \in Mail /\ MailIn(msg) \subseteq Mail
  BY DEF Msg, MailIn
<1> QED BY <1>1 DEF Outcomes, Deliver, Mangle, GiveUp, Bounce, outcomeVars, TypeOK,
                    RetryTypeOK

LEMMA PoolHook ==
  ASSUME PoolInv, FileInv, NEW t \in Thread, Hook(t), UNCHANGED <<mishaps, dropped>>
  PROVE  PoolInv'
<1> USE DEF transVars, sourceVars, poolVars, threadVars, contextVars
<1>0. /\ mishaps' \in 0..MaxMishaps /\ dropped' \subseteq Mail
      /\ pc[t] \notin Resting => item[t] \in Msg
  BY DEF PoolInv, TypeOK, ThreadInv, TransTypeOK
<1>1. CASE HookDelivers(t) \/ HookGivesUp(t)
  <2>1. /\ pc[t] = "hook" /\ pc' = [pc EXCEPT ![t] = "put"]
        /\ Deliver(item[t]) \/ GiveUp(item[t])
        /\ UNCHANGED <<sourceVars, poolVars, item, cannot_served_times, contextVars,
                       unheard, files, g_mess_id, writing, cacheVars>>
    BY <1>1 DEF HookDelivers, HookGivesUp, Goto
  <2>2. Outcomes'
    BY <1>0, <2>1, OutcomeTypes DEF PoolInv, Resting
  <2>3. TransTypeOK' /\ RetryTypeOK'
    BY <2>1, <2>2 DEF Outcomes, PoolInv, TypeOK, TransTypeOK, RetryTypeOK, cacheVars
  <2> QED BY <1>0, <2>1, <2>3, PoolMoves DEF PoolInv, TypeOK, TransTypeOK, Resting
<1>2. CASE HookDefers(t)
  <2>1. /\ pc[t] = "hook" /\ pc' = [pc EXCEPT ![t] = "open"]
        /\ UNCHANGED <<sourceVars, poolVars, item, cannot_served_times, contextVars,
                       unheard, retryVars>>
    BY <1>2 DEF HookDefers, Goto
  <2>2. TransTypeOK' /\ RetryTypeOK'
    BY <2>1 DEF PoolInv, TypeOK, TransTypeOK, RetryTypeOK, retryVars, cacheVars,
                outcomeVars
  <2> QED BY <1>0, <2>1, <2>2, PoolMoves DEF PoolInv, TypeOK, TransTypeOK, Resting
<1>3. CASE HookBounces(t)
  <2>1. /\ pc[t] = "hook" /\ pc' = [pc EXCEPT ![t] = "signal"]
        /\ Bounce(item[t])
        /\ UNCHANGED <<sourceVars, poolVars, item, cannot_served_times, unheard, files,
                       g_mess_id, writing, cacheVars>>
    BY <1>3 DEF HookBounces, Goto
  <2>2. item[t] \in Msg /\ item[t].mail \in Mail
    BY <1>0, <2>1 DEF Resting, Msg
  <2>3. Outcomes'
    BY <2>1, <2>2, OutcomeTypes DEF PoolInv
  <2>4. free' \in 0..FreeNum /\ g_queue_list' \in Seq(Msg)
    BY <2>1, <2>2, EnqueueBounce DEF Bounce
  <2>5. TransTypeOK' /\ RetryTypeOK'
    BY <2>1, <2>3, <2>4
       DEF Outcomes, PoolInv, TypeOK, TransTypeOK, RetryTypeOK, cacheVars
  <2> QED BY <1>0, <2>1, <2>2, <2>5, PoolBounce
          DEF Bounce, PoolInv, TypeOK, TransTypeOK, Resting
<1>4. CASE HookSignal(t)
  <2>1. /\ pc[t] = "signal" /\ WakeOne({t}, "put")
        /\ UNCHANGED <<sourceVars, poolVars, item, cannot_served_times, contextVars,
                       retryVars>>
    BY <1>4 DEF HookSignal
  <2>2. /\ pc' \in [Thread -> {"off", "start", "waiting", "get", "dequeue", "idle",
                               "leave", "hook", "signal", "open", "write", "put"}]
        /\ unheard' \in BOOLEAN
        /\ \A s \in Thread : \/ pc'[s] = pc[s]
                             \/ pc[s] = "waiting" /\ pc'[s] = "get"
                             \/ s = t /\ pc'[s] = "put"
    BY <2>1, WakeOneMoves DEF PoolInv
  <2>3. TransTypeOK' /\ RetryTypeOK'
    BY <2>1, <2>2 DEF PoolInv, TypeOK, TransTypeOK, RetryTypeOK, retryVars, cacheVars,
                      outcomeVars
  <2> QED BY <1>0, <2>1, <2>2, <2>3, PoolMoves DEF TypeOK, Resting
<1>5. CASE OpenFile(t)
  <2>1. /\ pc[t] = "open" /\ pc' = [pc EXCEPT ![t] = "write"]
        /\ g_mess_id < MaxMessID /\ g_mess_id' = g_mess_id + 1
        /\ files' = [files EXCEPT ![g_mess_id'] = [msg |-> item[t], times |-> 0]]
        /\ writing' = [writing EXCEPT ![t] = g_mess_id']
        /\ UNCHANGED <<sourceVars, poolVars, item, cannot_served_times, contextVars,
                       unheard, cacheVars, outcomeVars>>
    BY <1>5 DEF OpenFile, Goto
  <2>2. [msg |-> item[t], times |-> 0] \in File
    BY <1>0, <2>1, RetryQueueAssumption DEF File, Resting
  <2>3. g_mess_id' \in 0..MaxMessID
    BY <2>1, RetryQueueAssumption DEF PoolInv, TypeOK, RetryTypeOK
  <2>4. TransTypeOK'
    BY <2>1 DEF PoolInv, TypeOK, TransTypeOK
  <2>5. RetryTypeOK'
    BY <2>1, <2>2, <2>3 DEF PoolInv, TypeOK, RetryTypeOK, cacheVars, outcomeVars
  <2> QED BY <1>0, <2>1, <2>4, <2>5, PoolMoves DEF PoolInv, TypeOK, TransTypeOK, Resting
<1>6. CASE CommitFile(t)
  <2>1. /\ pc[t] = "write" /\ pc' = [pc EXCEPT ![t] = "put"]
        /\ files' = [files EXCEPT ![writing[t]].times = 1]
        /\ writing' = [writing EXCEPT ![t] = 0]
        /\ UNCHANGED <<sourceVars, poolVars, item, cannot_served_times, contextVars,
                       unheard, g_mess_id, cacheVars, outcomeVars>>
    BY <1>6 DEF CommitFile, Goto
  <2>2. writing[t] \in IDs /\ files[writing[t]] = [msg |-> item[t], times |-> 0]
    BY <2>1 DEF FileInv
  <2>3. [files[writing[t]] EXCEPT !.times = 1] \in File
    BY <1>0, <2>1, <2>2, RetryQueueAssumption DEF File, Resting
  <2>4. TransTypeOK'
    BY <2>1 DEF PoolInv, TypeOK, TransTypeOK
  <2>5. RetryTypeOK'
    BY <2>1, <2>2, <2>3, RetryQueueAssumption
       DEF PoolInv, TypeOK, RetryTypeOK, cacheVars, outcomeVars
  <2> QED BY <1>0, <2>1, <2>4, <2>5, PoolMoves DEF PoolInv, TypeOK, TransTypeOK, Resting
<1>7. CASE SaveFails(t)
  <2>1. /\ pc[t] \in {"open", "write"} /\ pc' = [pc EXCEPT ![t] = "put"]
        /\ files' \in {files,
                       [i \in IDs |-> IF i = writing[t] THEN NoFile ELSE files[i]]}
        /\ writing' = [writing EXCEPT ![t] = 0]
        /\ GiveUp(item[t])
        /\ UNCHANGED <<sourceVars, poolVars, item, cannot_served_times, contextVars,
                       unheard, g_mess_id, cacheVars>>
    BY <1>7 DEF SaveFails, Goto
  <2>2. Outcomes'
    BY <1>0, <2>1, OutcomeTypes DEF PoolInv, Resting
  <2>3. TransTypeOK'
    BY <2>1 DEF PoolInv, TypeOK, TransTypeOK
  <2>4. RetryTypeOK'
    BY <2>1, <2>2, RetryQueueAssumption
       DEF Outcomes, PoolInv, TypeOK, RetryTypeOK, cacheVars
  <2> QED BY <1>0, <2>1, <2>3, <2>4, PoolMoves DEF PoolInv, TypeOK, TransTypeOK, Resting
<1> QED BY <1>1, <1>2, <1>3, <1>4, <1>5, <1>6, <1>7 DEF Hook

LEMMA PoolCacheThread ==
  ASSUME PoolInv, FileInv, CacheThread \/ RemoveFails,
         mishaps' \in 0..MaxMishaps, dropped' \subseteq Mail
  PROVE  PoolInv'
<1> USE DEF transVars, sourceVars, poolVars, threadVars, contextVars
<1>9. 0 \in 0..MaxMessID /\ IDs \subseteq 0..MaxMessID
  BY RetryQueueAssumption DEF IDs
<1>1. CASE \/ StartPass \/ EndPass \/ (\E i \in IDs : StatFile(i)) \/ ReadFile
           \/ SkipFile
  <2>1. UNCHANGED <<transVars, files, g_mess_id, writing, outcomeVars>>
    BY <1>1 DEF StartPass, EndPass, StatFile, ReadFile, SkipFile
  <2>2. /\ cpc' \in {"rest", "next", "read", "dispatch", "remove", "bounce", "signal"}
        /\ todo' \subseteq IDs /\ cfile' \in 0..MaxMessID
        /\ cwhole' \in BOOLEAN
    <3>1. CASE StartPass \/ EndPass \/ ReadFile
      BY <3>1 DEF StartPass, EndPass, ReadFile, ReadSize, CacheGoto, FileIDs, PoolInv,
                  TypeOK, RetryTypeOK
    <3>2. CASE \E i \in IDs : StatFile(i)
      <4>1. PICK i \in IDs : StatFile(i)
        BY <3>2
      <4>2. cpc' \in {cpc, "read"} /\ cfile' \in {cfile, i} /\ todo' = todo \ {i}
        BY <4>1 DEF StatFile, CacheGoto
      <4>3. cwhole' \in BOOLEAN
        <5>1. cwhole' = cwhole \/ cwhole' = (i \in Complete)
          BY <4>1 DEF StatFile
        <5>2. (i \in Complete) \in BOOLEAN /\ cwhole \in BOOLEAN
          BY DEF PoolInv, TypeOK, RetryTypeOK
        <5> QED BY <5>1, <5>2, Zenon
      <4> QED BY <1>9, <4>2, <4>3 DEF PoolInv, TypeOK, RetryTypeOK
    <3>3. CASE SkipFile
      BY <1>9, <3>3 DEF SkipFile, Skip, CacheGoto, PoolInv, TypeOK, RetryTypeOK
    <3> QED BY <1>1, <3>1, <3>2, <3>3
  <2>3. cmsg' \in Msg \cup {NoMsg}
    <3>1. CASE ReadFile
      <4>1. cmsg' = files[cfile].msg /\ cfile \in IDs /\ files[cfile] # NoFile
        BY <3>1 DEF ReadFile, Complete, FileIDs
      <4> QED BY <4>1 DEF PoolInv, TypeOK, RetryTypeOK, File
    <3>2. CASE ~ReadFile
      BY <1>1, <3>2
         DEF StartPass, EndPass, StatFile, SkipFile, PoolInv, TypeOK, RetryTypeOK
    <3> QED BY <3>1, <3>2
  <2>4. RetryTypeOK'
    BY <2>1, <2>2, <2>3 DEF PoolInv, TypeOK, RetryTypeOK, outcomeVars
  <2> QED BY <2>1, <2>4, PoolCache
<1>2. CASE CacheDelivers \/ CacheGivesUp
  <2>1. /\ UNCHANGED <<transVars, files, g_mess_id, writing, todo>>
        /\ Deliver(cmsg) \/ Mangle(cmsg) \/ GiveUp(cmsg) \/ UNCHANGED outcomeVars
        /\ cpc' \in {"remove", "next"} /\ cmsg' \in {cmsg, NoMsg}
        /\ cfile' \in {cfile, 0} /\ cwhole' \in {cwhole, FALSE}
        /\ cpc \in {"dispatch", "bounce"}
    BY <1>2 DEF CacheDelivers, CacheGivesUp, CacheGoto, Skip
  <2>2. Outcomes'
    BY <2>1, OutcomeTypes DEF PoolInv, FileInv
  <2>3. RetryTypeOK'
    BY <1>9, <2>1, <2>2 DEF Outcomes, PoolInv, TypeOK, RetryTypeOK
  <2> QED BY <2>1, <2>3, PoolCache
<1>3. CASE CacheDefers \/ CacheRefused \/ CacheRemoves \/ RemoveFails
  <2>1. /\ UNCHANGED <<transVars, g_mess_id, writing, todo>>
        /\ Mangle(cmsg) \/ UNCHANGED outcomeVars
        /\ cmsg \in Msg
        /\ cpc' \in {"next", "bounce"} /\ cmsg' \in {cmsg, NoMsg}
        /\ cfile' \in {cfile, 0} /\ cwhole' \in {cwhole, FALSE}
        /\ cfile \in IDs /\ files[cfile] # NoFile
        /\ \/ files' = files
           \/ files' = [files EXCEPT ![cfile] = NoFile]
           \/ files' = [files EXCEPT
                          ![cfile].times = IF @ < Retries THEN @ + 1 ELSE @]
    BY <1>3
       DEF CacheDefers, CacheRefused, CacheRemoves, RemoveFails, CacheGoto, Skip,
           RemoveFile, FileInv, Complete, FileIDs
  <2>2. [files[cfile] EXCEPT !.times = IF @ < Retries THEN @ + 1 ELSE @] \in File
    BY <2>1, RetryQueueAssumption DEF PoolInv, TypeOK, RetryTypeOK, File
  <2>3. files' \in [IDs -> File \cup {NoFile}]
    BY <2>1, <2>2 DEF PoolInv, TypeOK, RetryTypeOK
  <2>4. RetryTypeOK'
    <3>1. Outcomes'
      BY <2>1, OutcomeTypes DEF PoolInv
    <3> QED BY <1>9, <2>1, <2>3, <3>1 DEF Outcomes, PoolInv, TypeOK, RetryTypeOK
  <2> QED BY <2>1, <2>4, PoolCache
<1>4. CASE CacheBounces
  <2>1. /\ Enqueue([mail |-> cmsg.mail, bounce |-> TRUE])
        /\ Bounce(cmsg) \/ UNCHANGED outcomeVars
        /\ cmsg \in Msg /\ cpc' = "signal"
        /\ UNCHANGED <<sourceVars, poolVars, threadVars, unheard, files, g_mess_id,
                       writing, todo, cfile, cwhole, cmsg>>
    BY <1>4 DEF CacheBounces, Bounce, BounceCut, CacheGoto, FileInv
  <2>2. free' \in 0..FreeNum /\ g_queue_list' \in Seq(Msg)
    BY <2>1, EnqueueBounce DEF Msg
  <2>3. Outcomes'
    BY <2>1, OutcomeTypes DEF PoolInv
  <2>4. TransTypeOK' /\ RetryTypeOK'
    BY <2>1, <2>2, <2>3 DEF Outcomes, PoolInv, TypeOK, TransTypeOK, RetryTypeOK
  <2> QED BY <2>1, <2>4, PoolBounce DEF TypeOK
<1>5. CASE CacheSignal
  <2>1. /\ WakeOne({}, "get") /\ cpc' = "next" /\ cmsg' = NoMsg /\ cfile' = 0
        /\ cwhole' = FALSE
        /\ UNCHANGED <<sourceVars, poolVars, item, cannot_served_times, contextVars,
                       files, g_mess_id, writing, todo, outcomeVars>>
    BY <1>5 DEF CacheSignal, Skip, CacheGoto
  <2>2. /\ pc' \in [Thread -> {"off", "start", "waiting", "get", "dequeue", "idle",
                               "leave", "hook", "signal", "open", "write", "put"}]
        /\ unheard' \in BOOLEAN
        /\ \A t \in Thread : pc'[t] = pc[t] \/ (pc[t] = "waiting" /\ pc'[t] = "get")
    BY <2>1, WakeOneMoves DEF PoolInv
  <2>3. TransTypeOK'
    BY <2>1, <2>2 DEF PoolInv, TypeOK, TransTypeOK
  <2>4. RetryTypeOK'
    BY <1>9, <2>1 DEF PoolInv, TypeOK, RetryTypeOK, outcomeVars
  <2> QED BY <2>1, <2>2, <2>3, <2>4, PoolMoves DEF TypeOK, Resting
<1> QED BY <1>1, <1>2, <1>3, <1>4, <1>5 DEF CacheThread

\* A start of the process: what was in memory is gone.
LEMMA PoolDie ==
  ASSUME PoolInv, FileInv, Die, mishaps' \in 0..MaxMishaps
  PROVE  PoolInv'
<1>1. dropped' \subseteq Mail
  <2>1. cpc = "bounce" => MailIn(cmsg) \subseteq Mail
    BY DEF FileInv, MailIn, Msg
  <2> QED BY <2>1 DEF Die, PoolInv, TypeOK
<1>2. /\ stored' = stored /\ loaded' = {} /\ g_used_list' = <<>> /\ loader' = "load"
      /\ started' = FALSE /\ g_threads_list' = First
      /\ g_free_threads' \in SetToSeqs(Thread \ First)
      /\ pc' = [t \in Thread |-> IF t \in First THEN "start" ELSE "off"]
      /\ item' = [t \in Thread |-> NoMsg]
      /\ cannot_served_times' = [t \in Thread |-> 0]
      /\ g_queue_list' = <<>> /\ free' = FreeNum - 1 /\ unheard' = FALSE
  BY DEF Die, TransRestart
<1>3. RetryTypeOK'
  <2>1. g_mess_id' \in FileIDs \cup {0}
    BY DEF Die, RetryRestart
  <2>2. g_mess_id' \in 0..MaxMessID
    BY <2>1, RetryQueueAssumption DEF FileIDs, IDs
  <2>3. 0 \in 0..MaxMessID
    BY RetryQueueAssumption
  <2>4. /\ writing' = [t \in Thread |-> 0]
        /\ cpc' = "rest" /\ todo' = {} /\ cfile' = 0 /\ cwhole' = FALSE /\ cmsg' = NoMsg
        /\ UNCHANGED <<files, outcomeVars>>
    BY DEF Die, RetryRestart
  <2> QED BY <2>2, <2>3, <2>4 DEF PoolInv, TypeOK, RetryTypeOK, outcomeVars
<1>4. PoolInv'
  <2>1. stored \subseteq Mail
    BY DEF PoolInv, TypeOK, TransTypeOK
  <2>2. /\ g_free_threads' \in Seq(Thread) /\ IsInjective(g_free_threads')
        /\ ToSet(g_free_threads') = Thread \ First
    BY <1>2, StartTypes
  <2>3. TransTypeOK'
    <3>1. 0 \in 0..MaxNotServed /\ FreeNum - 1 \in 0..FreeNum
      BY TransporterAssumption
    <3>2. First \subseteq Thread
      BY TransporterAssumption
    <3>3. <<>> \in Seq(Mail) /\ <<>> \in Seq(Msg)
      OBVIOUS
    <3> QED BY <1>2, <2>1, <2>2, <3>1, <3>2, <3>3 DEF TransTypeOK
  <2>4. ThreadInv'
    BY <1>2, <2>2, TransporterAssumption DEF ThreadInv, Resting
  <2>5. ContextsAccounted'
    <3>1. {t \in Thread : item'[t] # NoMsg /\ item'[t].bounce} = {}
      BY <1>2
    <3>2. Cardinality({}) = 0 /\ Len(<<>>) = 0
      BY FS_EmptySet
    <3>3. FreeNum - 1 + 0 + 1 + 0 = FreeNum
      BY TransporterAssumption
    <3> QED BY <1>2, <3>1, <3>2, <3>3 DEF ContextsAccounted
  <2> QED BY <1>1, <1>3, <2>3, <2>4, <2>5 DEF PoolInv, TypeOK
<1> QED BY <1>4

LEMMA PoolStart ==
  Init => PoolInv
<1> SUFFICES ASSUME Init
             PROVE  PoolInv
  OBVIOUS
<1>1. /\ stored = Mail /\ loaded = {} /\ g_used_list = <<>> /\ loader = "load"
      /\ started = FALSE /\ g_threads_list = First
      /\ g_free_threads \in SetToSeqs(Thread \ First)
      /\ pc = [t \in Thread |-> IF t \in First THEN "start" ELSE "off"]
      /\ item = [t \in Thread |-> NoMsg]
      /\ cannot_served_times = [t \in Thread |-> 0]
      /\ g_queue_list = <<>> /\ free = FreeNum - 1 /\ unheard = FALSE
  BY DEF Init, TransInit
<1>2. RetryTypeOK
  <2>1. 0 \in 0..MaxMessID
    BY RetryQueueAssumption
  <2> QED BY <2>1 DEF Init, RetryInit, RetryTypeOK
<1>3. /\ g_free_threads \in Seq(Thread) /\ IsInjective(g_free_threads)
      /\ ToSet(g_free_threads) = Thread \ First
  BY <1>1, StartTypes
<1>4. TransTypeOK
  <2>1. 0 \in 0..MaxNotServed /\ FreeNum - 1 \in 0..FreeNum
    BY TransporterAssumption
  <2>2. First \subseteq Thread
    BY TransporterAssumption
  <2>3. <<>> \in Seq(Mail) /\ <<>> \in Seq(Msg)
    OBVIOUS
  <2> QED BY <1>1, <1>3, <2>1, <2>2, <2>3 DEF TransTypeOK
<1>5. ThreadInv
  BY <1>1, <1>3, TransporterAssumption DEF ThreadInv, Resting
<1>6. ContextsAccounted
  <2>1. {t \in Thread : item[t] # NoMsg /\ item[t].bounce} = {}
    BY <1>1
  <2>2. Cardinality({}) = 0 /\ Len(<<>>) = 0
    BY FS_EmptySet
  <2>3. FreeNum - 1 + 0 + 1 + 0 = FreeNum
    BY TransporterAssumption
  <2> QED BY <1>1, <2>1, <2>2, <2>3 DEF ContextsAccounted
<1>7. mishaps \in 0..MaxMishaps /\ dropped \subseteq Mail
  BY DeliveryAssumption DEF Init
<1> QED BY <1>2, <1>4, <1>5, <1>6, <1>7 DEF PoolInv, TypeOK

-----------------------------------------------------------------------------
(* The files of the cache queue.                                           *)

\* Nothing that concerns a file.
LEMMA FileFrame ==
  ASSUME FileInv, UNCHANGED <<files, g_mess_id, writing, cacheVars>>,
         delivered \subseteq delivered', mangled \subseteq mangled',
         \A t \in Thread :
           /\ pc'[t] = "write" <=> pc[t] = "write"
           /\ pc[t] = "write" => item'[t] = item[t]
  PROVE  FileInv'
<1>1. FileIDs' = FileIDs /\ Complete' = Complete
  BY DEF FileIDs, Complete
<1> QED BY <1>1 DEF FileInv, cacheVars, MailIn

\* A file that a thread writes.
LEMMA WritingFile ==
  ASSUME PoolInv, FileInv, NEW t \in Thread, pc[t] = "write"
  PROVE  /\ writing[t] \in FileIDs /\ writing[t] \in IDs /\ writing[t] # 0
         /\ files[writing[t]] = [msg |-> item[t], times |-> 0]
         /\ item[t] \in Msg
         /\ writing[t] \notin Complete
<1> DEFINE x == [msg |-> item[t], times |-> 0]
<1>1. writing[t] \in IDs /\ files[writing[t]] = x
  BY DEF FileInv
<1>2. item[t] \in Msg
  BY DEF PoolInv, ThreadInv, Resting, TypeOK, TransTypeOK
<1>3. 0 \in 0..Retries /\ NoFile \notin File
  BY RetryQueueAssumption
<1>4. x \in File
  BY <1>2, <1>3 DEF File
<1>5. x # NoFile
  BY <1>3, <1>4
<1>6. ~(x.times > 0)
  OBVIOUS
<1> HIDE DEF x
<1>7. writing[t] # 0
  BY <1>1 DEF IDs
<1> QED BY <1>1, <1>2, <1>5, <1>6, <1>7 DEF FileIDs, Complete, x

LEMMA FileTransport ==
  ASSUME PoolInv, FileInv, NEW t \in Thread, Transport(t)
  PROVE  FileInv'
<1>1. UNCHANGED retryVars
  BY DEF Transport
<1>2. /\ pc[t] \in {"start", "get", "dequeue", "idle", "leave", "put"}
      /\ \E s \in Resting \cup {"hook"} : pc' = [pc EXCEPT ![t] = s]
      /\ \A s \in Thread \ {t} : item'[s] = item[s]
  BY DEF Transport, StartWait, Get, Dequeue, NotServed, Leave, Put, Goto, threadVars,
         Resting, PoolInv, TypeOK, TransTypeOK
<1>3. \A s \in Thread : /\ pc'[s] = "write" <=> pc[s] = "write"
                        /\ pc[s] = "write" => item'[s] = item[s]
  BY <1>2 DEF PoolInv, TypeOK, TransTypeOK, Resting
<1> QED BY <1>1, <1>3, FileFrame DEF retryVars, outcomeVars

LEMMA FileOthers ==
  ASSUME PoolInv, FileInv, Others
  PROVE  FileInv'
<1>1. UNCHANGED <<retryVars, item>>
  BY DEF Others, Load, LoadSignal, Broadcast, AddThread, AddFails, threadVars
<1>2. \A s \in Thread : pc'[s] = "write" <=> pc[s] = "write"
  <2>1. CASE (\E m \in Mail : Load(m)) \/ AddFails
    BY <2>1 DEF Load, AddFails, threadVars
  <2>2. CASE LoadSignal
    BY <2>2, WakeOneMoves DEF LoadSignal, PoolInv
  <2>3. CASE Broadcast
    BY <2>3 DEF Broadcast, Waiting
  <2>4. CASE AddThread
    <3>1. PICK t \in Thread : /\ t \in ToSet(g_free_threads)
                              /\ \E s \in {"start", "get"} : pc' = [pc EXCEPT ![t] = s]
      <4>1. /\ Head(g_free_threads) \in Thread
            /\ Head(g_free_threads) \in ToSet(g_free_threads)
        BY <2>4, TakeHead
           DEF AddThread, MoreNeeded, PoolInv, TypeOK, TransTypeOK, ThreadInv
      <4> QED BY <2>4, <4>1 DEF AddThread, Goto
    <3> QED BY <3>1 DEF PoolInv, ThreadInv, TypeOK, TransTypeOK
  <2> QED BY <2>1, <2>2, <2>3, <2>4 DEF Others
<1> QED BY <1>1, <1>2, FileFrame DEF retryVars, outcomeVars

LEMMA FileHook ==
  ASSUME PoolInv, FileInv, NEW t \in Thread, Hook(t)
  PROVE  FileInv'
<1> DEFINE w == writing[t]
<1>0. UNCHANGED item
  BY DEF Hook, HookDelivers, HookDefers, HookBounces, HookGivesUp, HookSignal, OpenFile,
         CommitFile, SaveFails
<1>1. CASE HookDelivers(t) \/ HookDefers(t) \/ HookBounces(t) \/ HookGivesUp(t)
  <2>1. /\ UNCHANGED <<files, g_mess_id, writing, cacheVars>>
        /\ delivered \subseteq delivered' /\ mangled' = mangled
        /\ pc[t] = "hook"
        /\ \E s \in {"put", "open", "signal"} : pc' = [pc EXCEPT ![t] = s]
    BY <1>1 DEF HookDelivers, HookDefers, HookBounces, HookGivesUp, Goto, Deliver, GiveUp,
                Bounce, retryVars, outcomeVars
  <2> QED BY <1>0, <2>1, FileFrame DEF PoolInv, TypeOK, TransTypeOK
<1>2. CASE HookSignal(t)
  <2>1. /\ UNCHANGED retryVars
        /\ \A s \in Thread : pc'[s] = "write" <=> pc[s] = "write"
    BY <1>2, WakeOneMoves DEF HookSignal, PoolInv
  <2> QED BY <1>0, <2>1, FileFrame DEF retryVars, outcomeVars
<1>3. CASE OpenFile(t)
  <2>1. /\ pc[t] = "open" /\ pc' = [pc EXCEPT ![t] = "write"]
        /\ g_mess_id < MaxMessID /\ g_mess_id' = g_mess_id + 1
        /\ files' = [files EXCEPT ![g_mess_id'] = [msg |-> item[t], times |-> 0]]
        /\ writing' = [writing EXCEPT ![t] = g_mess_id']
        /\ UNCHANGED <<cacheVars, outcomeVars>>
    BY <1>3 DEF OpenFile, Goto
  <2> DEFINE n == g_mess_id'
  <2>2. n \in IDs /\ n \notin FileIDs /\ n # 0 /\ g_mess_id \in Nat
    BY <2>1, RetryQueueAssumption DEF FileInv, PoolInv, TypeOK, RetryTypeOK, IDs
  <2>3. \A s \in Thread : writing[s] # n
    <3>1. \A s \in Thread : pc[s] = "write" => writing[s] \in FileIDs
      BY WritingFile
    <3> QED BY <2>2, <3>1 DEF FileInv
  <2>4. /\ FileIDs' \subseteq FileIDs \cup {n}
        /\ Complete \subseteq Complete'
        /\ \A i \in IDs \ {n} : files'[i] = files[i]
        /\ files'[n] = [msg |-> item[t], times |-> 0]
    BY <2>1, <2>2 DEF FileIDs, Complete, PoolInv, TypeOK, RetryTypeOK
  <2> HIDE DEF n
  <2>5. \A i \in FileIDs' : i <= g_mess_id'
    BY <2>1, <2>2, <2>4 DEF FileInv, n, FileIDs, IDs
  <2>6. \A s \in Thread :
          IF pc'[s] = "write"
          THEN writing'[s] \in IDs
               /\ files'[writing'[s]] = [msg |-> item'[s], times |-> 0]
          ELSE writing'[s] = 0
    <3>1. ASSUME NEW s \in Thread, s # t
          PROVE  pc'[s] = pc[s] /\ writing'[s] = writing[s] /\ writing[s] # n
      BY <2>1, <2>3, <3>1 DEF PoolInv, TypeOK, TransTypeOK, RetryTypeOK
    <3>2. pc'[t] = "write" /\ writing'[t] = n
      BY <2>1 DEF PoolInv, TypeOK, TransTypeOK, RetryTypeOK, n
    <3> QED BY <1>0, <2>2, <2>4, <3>1, <3>2 DEF FileInv
  <2>7. \A s, r \in Thread : writing'[s] # 0 /\ writing'[r] = writing'[s] => r = s
    BY <2>1, <2>3 DEF FileInv, PoolInv, TypeOK, RetryTypeOK, n
  <2>8. cpc \in {"dispatch", "remove"} => cfile # n
    BY <2>2 DEF FileInv, Complete
  <2> QED BY <2>1, <2>4, <2>5, <2>6, <2>7, <2>8
          DEF FileInv, cacheVars, outcomeVars, MailIn, Complete, FileIDs
<1>4. CASE CommitFile(t)
  <2>1. /\ pc[t] = "write" /\ pc' = [pc EXCEPT ![t] = "put"]
        /\ files' = [files EXCEPT ![w].times = 1]
        /\ writing' = [writing EXCEPT ![t] = 0]
        /\ UNCHANGED <<g_mess_id, cacheVars, outcomeVars>>
    BY <1>4 DEF CommitFile, Goto
  <2>2. /\ w \in IDs /\ files[w] = [msg |-> item[t], times |-> 0] /\ w # 0
        /\ files[w] # NoFile
    BY <2>1, WritingFile DEF FileIDs
  <2>3. /\ files'[w] = [msg |-> item[t], times |-> 1]
        /\ \A i \in IDs \ {w} : files'[i] = files[i]
    BY <2>1, <2>2 DEF PoolInv, TypeOK, RetryTypeOK
  <2>4. FileIDs' \subseteq FileIDs /\ Complete \subseteq Complete' /\ w \notin Complete
    BY <2>2, <2>3 DEF FileIDs, Complete
  <2> HIDE DEF w
  <2>5. \A s \in Thread \ {t} :
          pc'[s] = pc[s] /\ writing'[s] = writing[s] /\ writing[s] # w
    BY <2>1, <2>2 DEF FileInv, PoolInv, TypeOK, TransTypeOK, RetryTypeOK, w
  <2>6. pc'[t] = "put" /\ writing'[t] = 0
    BY <2>1 DEF PoolInv, TypeOK, TransTypeOK, RetryTypeOK
  <2>7. \A s \in Thread :
          IF pc'[s] = "write"
          THEN writing'[s] \in IDs
               /\ files'[writing'[s]] = [msg |-> item'[s], times |-> 0]
          ELSE writing'[s] = 0
    BY <1>0, <2>3, <2>5, <2>6 DEF FileInv
  <2>8. \A s, r \in Thread : writing'[s] # 0 /\ writing'[r] = writing'[s] => r = s
    BY <2>5, <2>6 DEF FileInv
  <2>9. cpc \in {"dispatch", "remove"} => cfile \in Complete' /\ files'[cfile] = files[cfile]
    BY <2>3, <2>4 DEF FileInv, Complete, FileIDs
  <2> QED BY <2>1, <2>4, <2>7, <2>8, <2>9 DEF FileInv, cacheVars, outcomeVars, MailIn
<1>5. CASE SaveFails(t)
  <2>1. /\ pc[t] \in {"open", "write"} /\ pc' = [pc EXCEPT ![t] = "put"]
        /\ files' \in {files, [i \in IDs |-> IF i = w THEN NoFile ELSE files[i]]}
        /\ writing' = [writing EXCEPT ![t] = 0]
        /\ delivered' = delivered /\ mangled' = mangled
        /\ UNCHANGED <<g_mess_id, cacheVars>>
    BY <1>5 DEF SaveFails, Goto, GiveUp
  <2>2. w \notin Complete /\ (w = 0 \/ pc[t] = "write")
    <3>1. CASE pc[t] = "write"
      BY <3>1, WritingFile
    <3>2. CASE pc[t] # "write"
      <4>1. w = 0
        BY <3>2 DEF FileInv
      <4> QED BY <4>1 DEF Complete, FileIDs, IDs
    <3> QED BY <3>1, <3>2
  <2>3. FileIDs' \subseteq FileIDs /\ Complete \subseteq Complete'
    BY <2>1, <2>2 DEF FileIDs, Complete
  <2>4. \A i \in IDs \ {w} : files'[i] = files[i]
    BY <2>1
  <2> HIDE DEF w
  <2>5. \A s \in Thread \ {t} :
          /\ pc'[s] = pc[s] /\ writing'[s] = writing[s]
          /\ pc[s] = "write" => writing[s] # w
    <3>1. \A s \in Thread : pc[s] = "write" => writing[s] # 0
      BY WritingFile
    <3> QED BY <2>1, <2>2, <3>1 DEF FileInv, PoolInv, TypeOK, TransTypeOK, RetryTypeOK, w
  <2>6. pc'[t] = "put" /\ writing'[t] = 0
    BY <2>1 DEF PoolInv, TypeOK, TransTypeOK, RetryTypeOK
  <2>7. \A s \in Thread :
          IF pc'[s] = "write"
          THEN writing'[s] \in IDs
               /\ files'[writing'[s]] = [msg |-> item'[s], times |-> 0]
          ELSE writing'[s] = 0
    BY <1>0, <2>4, <2>5, <2>6 DEF FileInv
  <2>8. \A s, r \in Thread : writing'[s] # 0 /\ writing'[r] = writing'[s] => r = s
    BY <2>5, <2>6 DEF FileInv
  <2>9. cpc \in {"dispatch", "remove"} => cfile \in Complete' /\ files'[cfile] = files[cfile]
    BY <2>2, <2>3, <2>4 DEF FileInv, Complete, FileIDs
  <2> QED BY <2>1, <2>3, <2>7, <2>8, <2>9 DEF FileInv, cacheVars, MailIn
<1> QED BY <1>1, <1>2, <1>3, <1>4, <1>5 DEF Hook

LEMMA FileCacheThread ==
  ASSUME PoolInv, FileInv, CacheThread \/ RemoveFails
  PROVE  FileInv'
<1>0. /\ UNCHANGED <<g_mess_id, writing, item>>
      /\ delivered \subseteq delivered' /\ mangled \subseteq mangled'
  BY DEF CacheThread, StartPass, EndPass, StatFile, ReadFile, SkipFile, CacheDelivers,
         CacheDefers, CacheRefused, CacheRemoves, RemoveFails, CacheBounces, CacheGivesUp,
         CacheSignal, Deliver, Mangle, Bounce, BounceCut, GiveUp, outcomeVars, transVars,
         threadVars
<1>1. \A t \in Thread : pc'[t] = "write" <=> pc[t] = "write"
  <2>1. CASE CacheSignal
    BY <2>1, WakeOneMoves DEF CacheSignal, PoolInv
  <2>2. CASE UNCHANGED pc
    BY <2>2
  <2>3. CacheSignal \/ UNCHANGED pc
    BY DEF CacheThread, StartPass, EndPass, StatFile, ReadFile, SkipFile, CacheDelivers,
           CacheDefers, CacheRefused, CacheRemoves, RemoveFails, CacheBounces,
           CacheGivesUp, transVars, threadVars
  <2> QED BY <2>1, <2>2, <2>3
<1>2. CASE UNCHANGED files
  <2>1. FileIDs' = FileIDs /\ Complete' = Complete
    BY <1>2 DEF FileIDs, Complete
  <2>2. /\ cpc' \in {"dispatch", "remove"}
             => cfile' \in Complete /\ files[cfile'].msg = cmsg'
        /\ cpc' \in {"dispatch", "remove", "bounce", "signal"} => cmsg' \in Msg
        /\ cpc' = "remove" => MailIn(cmsg') \subseteq delivered' \cup mangled'
    <3>1. CASE StartPass \/ EndPass \/ SkipFile \/ CacheGivesUp \/ CacheSignal
      BY <3>1 DEF StartPass, EndPass, SkipFile, CacheGivesUp, CacheSignal, Skip, CacheGoto
    <3>2. CASE \E i \in IDs : StatFile(i)
      BY <3>2 DEF StatFile, CacheGoto, FileInv
    <3>3. CASE ReadFile
      <4>1. cfile \in Complete /\ cmsg' = files[cfile].msg /\ cpc' = "dispatch"
            /\ UNCHANGED cfile
        BY <3>3 DEF ReadFile, CacheGoto
      <4>2. files[cfile] \in File
        BY <4>1 DEF Complete, FileIDs, PoolInv, TypeOK, RetryTypeOK
      <4> QED BY <4>1, <4>2 DEF File
    <3>4. CASE CacheDelivers
      BY <3>4 DEF CacheDelivers, CacheGoto, Deliver, Mangle, FileInv
    <3>5. CASE CacheBounces
      BY <3>5 DEF CacheBounces, CacheGoto, FileInv
    <3>6. CASE CacheDefers \/ CacheRefused \/ CacheRemoves \/ RemoveFails
      BY <3>6 DEF CacheDefers, CacheRefused, CacheRemoves, RemoveFails, Skip, CacheGoto,
                  FileInv
    <3> QED BY <3>1, <3>2, <3>3, <3>4, <3>5, <3>6 DEF CacheThread
  <2> QED BY <1>0, <1>1, <1>2, <2>1, <2>2 DEF FileInv
<1>3. CASE files' # files
  <2>1. /\ cfile \in Complete /\ cmsg \in Msg
        /\ cpc' \in {"next", "bounce"} /\ (cpc' = "bounce" => cmsg' = cmsg)
        /\ \/ files' = [files EXCEPT ![cfile] = NoFile]
           \/ files' = [files EXCEPT
                          ![cfile].times = IF @ < Retries THEN @ + 1 ELSE @]
    BY <1>3 DEF CacheThread, StartPass, EndPass, StatFile, ReadFile, SkipFile,
                CacheDelivers, CacheDefers, CacheRefused, CacheRemoves, RemoveFails,
                CacheBounces, CacheGivesUp, CacheSignal, RemoveFile, Skip, CacheGoto,
                FileInv, transVars
  <2>2. \A i \in IDs \ {cfile} : files'[i] = files[i]
    BY <2>1 DEF PoolInv, TypeOK, RetryTypeOK
  <2>3. FileIDs' \subseteq FileIDs
    BY <2>1, <2>2 DEF FileIDs, Complete
  <2>4. \A t \in Thread : pc[t] = "write" => writing[t] \in IDs \ {cfile}
    BY <2>1, WritingFile
  <2>5. \A t \in Thread :
          IF pc'[t] = "write"
          THEN writing'[t] \in IDs
               /\ files'[writing'[t]] = [msg |-> item'[t], times |-> 0]
          ELSE writing'[t] = 0
    BY <1>0, <1>1, <2>2, <2>4 DEF FileInv
  <2> QED BY <1>0, <2>1, <2>3, <2>5 DEF FileInv
<1> QED BY <1>2, <1>3

LEMMA FileDie ==
  ASSUME PoolInv, FileInv, Die
  PROVE  FileInv'
<1>1. /\ g_mess_id' \in {n \in FileIDs \cup {0} : \A i \in FileIDs : i <= n}
      /\ writing' = [t \in Thread |-> 0] /\ cpc' = "rest" /\ files' = files
      /\ pc' = [t \in Thread |-> IF t \in First THEN "start" ELSE "off"]
  BY DEF Die, RetryRestart, TransRestart
<1>2. FileIDs' = FileIDs
  BY <1>1 DEF FileIDs
<1> QED BY <1>1, <1>2 DEF FileInv

LEMMA FileStart ==
  Init => FileInv
BY DEF Init, TransInit, RetryInit, FileInv, FileIDs

-----------------------------------------------------------------------------
(* The first invariant.                                                    *)

CoreInv == PoolInv /\ FileInv

LEMMA CoreStep ==
  ASSUME CoreInv, [Next]_vars
  PROVE  CoreInv'
<1>1. CASE Live
  <2>1. UNCHANGED <<mishaps, dropped>>
    BY <1>1 DEF Live
  <2>2. CASE \E t \in Thread : Transport(t)
    BY <2>1, <2>2, PoolTransport, FileTransport DEF CoreInv
  <2>3. CASE \E t \in Thread : Hook(t)
    BY <2>1, <2>3, PoolHook, FileHook DEF CoreInv
  <2>4. CASE Others
    BY <2>1, <2>4, PoolOthers, FileOthers DEF CoreInv
  <2>5. CASE CacheThread
    BY <2>1, <2>5, PoolCacheThread, FileCacheThread DEF CoreInv, PoolInv, TypeOK
  <2> QED BY <1>1, <2>2, <2>3, <2>4, <2>5 DEF Live
<1>2. CASE Mishap
  <2>1. mishaps' \in 0..MaxMishaps
    BY <1>2, DeliveryAssumption DEF Mishap, CoreInv, PoolInv, TypeOK
  <2>2. CASE Die
    BY <2>1, <2>2, PoolDie, FileDie DEF CoreInv
  <2>3. CASE RemoveFails /\ UNCHANGED dropped
    BY <2>1, <2>3, PoolCacheThread, FileCacheThread DEF CoreInv, PoolInv, TypeOK
  <2> QED BY <1>2, <2>2, <2>3 DEF Mishap
<1>3. CASE UNCHANGED vars
  <2>1. UNCHANGED <<transVars, mishaps, dropped, retryVars>>
    BY <1>3 DEF vars
  <2>2. RetryTypeOK'
    BY <2>1 DEF CoreInv, PoolInv, TypeOK, RetryTypeOK, retryVars, cacheVars, outcomeVars
  <2>3. PoolInv'
    BY <2>1, <2>2, PoolCache DEF CoreInv, PoolInv, TypeOK
  <2>4. FileInv'
    BY <2>1, FileFrame DEF CoreInv, retryVars, outcomeVars, transVars, threadVars
  <2> QED BY <2>3, <2>4 DEF CoreInv
<1> QED BY <1>1, <1>2, <1>3 DEF Next

\* The threads, contexts and files of the delivery process are where they should
\* be, for any number of threads, contexts, mails, attempts and mishaps.
THEOREM CoreCorrect == Spec => []CoreInv
<1>1. Init => CoreInv
  BY PoolStart, FileStart DEF CoreInv
<1>2. CoreInv /\ [Next]_vars => CoreInv'
  BY CoreStep
<1> QED BY <1>1, <1>2, PTL DEF Spec

\* Type correctness of the delivery process.
THEOREM DeliveryTypesCorrect == Spec => []TypeOK
<1>1. CoreInv => TypeOK
  BY DEF CoreInv, PoolInv
<1> QED BY <1>1, CoreCorrect, PTL

\* transporter_get_context and transporter_put_context lose no context, whatever
\* the hooks and the cache queue bounce, and put none in two places.
THEOREM ContextsCorrect == Spec => []ContextsAccounted
<1>1. CoreInv => ContextsAccounted
  BY DEF CoreInv, PoolInv
<1> QED BY <1>1, CoreCorrect, PTL

-----------------------------------------------------------------------------
(* No mail is lost.                                                        *)

\* Where a thread goes by itself.
LEMMA TransportMoves ==
  ASSUME CoreInv, NEW t \in Thread, Transport(t)
  PROVE  /\ pc'[t] \in Resting \cup {"hook"}
         /\ \A s \in Thread \ {t} : pc'[s] = pc[s] /\ item'[s] = item[s]
BY DEF Transport, StartWait, Get, Dequeue, NotServed, Leave, Put, Goto, threadVars,
       Resting, CoreInv, PoolInv, TypeOK, TransTypeOK

\* What the others' steps do to a thread.
LEMMA OthersStay ==
  ASSUME CoreInv, [Next]_vars, NEW t \in Thread
  PROVE  \/ Hook(t) /\ UNCHANGED <<mishaps, dropped>>
         \/ Transport(t) /\ UNCHANGED <<mishaps, dropped>>
         \/ Mishap /\ Die
         \/ pc'[t] = pc[t] /\ item'[t] = item[t]
         \/ pc[t] \in Resting /\ pc'[t] \in Resting /\ item'[t] = item[t]
<1> USE DEF CoreInv, PoolInv
<1>1. Live => UNCHANGED <<mishaps, dropped>>
  BY DEF Live
<1>2. ASSUME NEW s \in Thread, Transport(s), s # t
      PROVE  pc'[t] = pc[t] /\ item'[t] = item[t]
  BY <1>2, TransportMoves
<1>3. ASSUME NEW s \in Thread, Hook(s), s # t
      PROVE  /\ item'[t] = item[t]
             /\ pc'[t] = pc[t] \/ (pc[t] = "waiting" /\ pc'[t] = "get")
  <2>1. UNCHANGED item
    BY <1>3 DEF Hook, HookDelivers, HookDefers, HookBounces, HookGivesUp, HookSignal,
                OpenFile, CommitFile, SaveFails
  <2>2. CASE HookSignal(s)
    BY <1>3, <2>1, <2>2, WakeOneMoves DEF HookSignal
  <2>3. CASE ~HookSignal(s)
    BY <1>3, <2>1, <2>3
       DEF Hook, HookDelivers, HookDefers, HookBounces, HookGivesUp, OpenFile, CommitFile,
           SaveFails, Goto, TypeOK, TransTypeOK
  <2> QED BY <2>2, <2>3
<1>4. ASSUME Others
      PROVE  /\ item'[t] = item[t]
             /\ pc'[t] = pc[t] \/ (pc[t] \in Resting /\ pc'[t] \in Resting)
  <2>1. UNCHANGED item
    BY <1>4 DEF Others, Load, LoadSignal, Broadcast, AddThread, AddFails, threadVars
  <2>2. CASE (\E m \in Mail : Load(m)) \/ AddFails
    BY <2>1, <2>2 DEF Load, AddFails, threadVars
  <2>3. CASE LoadSignal
    BY <2>1, <2>3, WakeOneMoves DEF LoadSignal, Resting
  <2>4. CASE Broadcast
    BY <2>1, <2>4 DEF Broadcast, Waiting, Resting
  <2>5. CASE AddThread
    <3>1. PICK s \in Thread : /\ s \in ToSet(g_free_threads)
                              /\ \E x \in {"start", "get"} : pc' = [pc EXCEPT ![s] = x]
      <4>1. /\ Head(g_free_threads) \in Thread
            /\ Head(g_free_threads) \in ToSet(g_free_threads)
        BY <2>5, TakeHead DEF AddThread, MoreNeeded, TypeOK, TransTypeOK, ThreadInv
      <4> QED BY <2>5, <4>1 DEF AddThread, Goto
    <3> QED BY <2>1, <3>1 DEF ThreadInv, TypeOK, TransTypeOK, Resting
  <2> QED BY <1>4, <2>2, <2>3, <2>4, <2>5 DEF Others
<1>5. ASSUME CacheThread
      PROVE  /\ item'[t] = item[t]
             /\ pc'[t] = pc[t] \/ (pc[t] = "waiting" /\ pc'[t] = "get")
  <2>1. CASE CacheSignal
    BY <2>1, WakeOneMoves DEF CacheSignal
  <2>2. CASE ~CacheSignal
    BY <1>5, <2>2
       DEF CacheThread, StartPass, EndPass, StatFile, ReadFile, SkipFile, CacheDelivers,
           CacheDefers, CacheRefused, CacheRemoves, CacheBounces, CacheGivesUp,
           transVars, threadVars
  <2> QED BY <2>1, <2>2
<1>6. UNCHANGED vars \/ RemoveFails => pc' = pc /\ item' = item
  BY DEF vars, RemoveFails, transVars, threadVars
<1> QED BY <1>1, <1>2, <1>3, <1>4, <1>5, <1>6 DEF Next, Live, Mishap, Resting

LEMMA OutcomesGrow ==
  ASSUME [Next]_vars
  PROVE  /\ delivered \subseteq delivered' /\ bounced \subseteq bounced'
         /\ given_up \subseteq given_up' /\ mangled \subseteq mangled'
         /\ dropped \subseteq dropped'
<1> USE DEF Deliver, GiveUp, Mangle, Bounce, BounceCut, outcomeVars
<1> DEFINE Grow == /\ delivered \subseteq delivered' /\ bounced \subseteq bounced'
                   /\ given_up \subseteq given_up' /\ mangled \subseteq mangled'
<1>1. ASSUME \E t \in Thread : Transport(t)
      PROVE  Grow
  BY <1>1 DEF Transport, retryVars
<1>2. ASSUME Others
      PROVE  Grow
  BY <1>2 DEF Others, retryVars
<1>3. ASSUME \E t \in Thread : Hook(t)
      PROVE  Grow
  BY <1>3 DEF Hook, HookDelivers, HookDefers, HookBounces, HookGivesUp, HookSignal,
              OpenFile, CommitFile, SaveFails, retryVars
<1>4. ASSUME CacheThread
      PROVE  Grow
  BY <1>4 DEF CacheThread, StartPass, EndPass, StatFile, ReadFile, SkipFile,
              CacheDelivers, CacheDefers, CacheRefused, CacheRemoves, CacheBounces,
              CacheGivesUp, CacheSignal
<1>5. ASSUME Mishap
      PROVE  Grow
  BY <1>5 DEF Mishap, Die, RetryRestart, RemoveFails
<1>6. ASSUME UNCHANGED vars
      PROVE  Grow
  BY <1>6 DEF vars, retryVars
<1>7. dropped \subseteq dropped'
  BY DEF Next, Live, Mishap, Die, vars
<1> QED BY <1>1, <1>2, <1>3, <1>4, <1>5, <1>6, <1>7 DEF Next, Live

\* A complete file stays until the cache thread removes it.
LEMMA CompleteStays ==
  ASSUME CoreInv, [Next]_vars, NEW i \in Complete
  PROVE  \/ i \in Complete' /\ files'[i].msg = files[i].msg
         \/ i = cfile /\ files'[i] = NoFile /\ (CacheRefused \/ CacheRemoves)
<1>1. CASE UNCHANGED files
  BY <1>1 DEF Complete, FileIDs
<1>2. CASE \E t \in Thread : OpenFile(t)
  <2>1. PICK t \in Thread : OpenFile(t)
    BY <1>2
  <2>2. g_mess_id' \notin FileIDs
    BY <2>1 DEF OpenFile, CoreInv, FileInv, PoolInv, TypeOK, RetryTypeOK
  <2>3. i # g_mess_id' /\ i \in IDs
    BY <2>2 DEF Complete, FileIDs
  <2>4. files'[i] = files[i]
    BY <2>1, <2>3 DEF OpenFile, CoreInv, PoolInv, TypeOK, RetryTypeOK
  <2> QED BY <2>4 DEF Complete, FileIDs
<1>3. CASE \E t \in Thread : CommitFile(t)
  <2>1. PICK t \in Thread : CommitFile(t)
    BY <1>3
  <2>2. i # writing[t] /\ i \in IDs
    BY <2>1, WritingFile DEF CommitFile, CoreInv, Complete, FileIDs
  <2>3. files'[i] = files[i]
    BY <2>1, <2>2 DEF CommitFile, CoreInv, PoolInv, TypeOK, RetryTypeOK
  <2> QED BY <2>3 DEF Complete, FileIDs
<1>4. CASE \E t \in Thread : SaveFails(t)
  <2>1. PICK t \in Thread : SaveFails(t)
    BY <1>4
  <2>2. i # writing[t] /\ i \in IDs
    <3>1. CASE pc[t] = "write"
      BY <3>1, WritingFile DEF CoreInv, Complete, FileIDs
    <3>2. CASE pc[t] # "write"
      <4>1. writing[t] = 0
        BY <3>2 DEF CoreInv, FileInv
      <4> QED BY <4>1 DEF Complete, FileIDs, IDs
    <3> QED BY <3>1, <3>2
  <2>3. files'[i] = files[i]
    BY <2>1, <2>2 DEF SaveFails, Complete, FileIDs
  <2> QED BY <2>3 DEF Complete, FileIDs
<1>5. CASE CacheDefers /\ files' # files
  <2>1. files' = [files EXCEPT ![cfile].times = IF @ < Retries THEN @ + 1 ELSE @]
        /\ cfile \in Complete
    BY <1>5 DEF CacheDefers, CoreInv, FileInv
  <2>2. CASE i # cfile
    BY <2>1, <2>2 DEF Complete, FileIDs, CoreInv, PoolInv, TypeOK, RetryTypeOK
  <2>3. CASE i = cfile
    <3>1. files[i] \in File /\ files[i] # NoFile /\ files[i].times > 0 /\ i \in IDs
      BY DEF Complete, FileIDs, CoreInv, PoolInv, TypeOK, RetryTypeOK
    <3>2. /\ files'[i] \in File
          /\ files'[i].msg = files[i].msg /\ files'[i].times > 0
      BY <2>1, <2>3, <3>1, RetryQueueAssumption
         DEF File, CoreInv, PoolInv, TypeOK, RetryTypeOK
    <3> QED BY <3>1, <3>2, RetryQueueAssumption DEF Complete, FileIDs
  <2> QED BY <2>2, <2>3
<1>6. CASE CacheRefused \/ CacheRemoves
  <2>1. files' = [files EXCEPT ![cfile] = NoFile] /\ i \in IDs
    BY <1>6 DEF CacheRefused, CacheRemoves, RemoveFile, Complete, FileIDs
  <2>2. CASE i # cfile
    BY <2>1, <2>2 DEF Complete, FileIDs, CoreInv, PoolInv, TypeOK, RetryTypeOK
  <2>3. CASE i = cfile
    BY <1>6, <2>1, <2>3 DEF CoreInv, PoolInv, TypeOK, RetryTypeOK
  <2> QED BY <2>2, <2>3
<1>7. \/ UNCHANGED files
      \/ \E t \in Thread : OpenFile(t) \/ CommitFile(t) \/ SaveFails(t)
      \/ CacheDefers \/ CacheRefused \/ CacheRemoves
  <2>1. CASE \E t \in Thread : Transport(t)
    BY <2>1 DEF Transport, retryVars
  <2>2. CASE Others
    BY <2>2 DEF Others, retryVars
  <2>3. CASE \E t \in Thread : Hook(t)
    BY <2>3 DEF Hook, HookDelivers, HookDefers, HookBounces, HookGivesUp, HookSignal,
                retryVars
  <2>4. CASE CacheThread
    BY <2>4 DEF CacheThread, StartPass, EndPass, StatFile, ReadFile, SkipFile,
                CacheDelivers, CacheBounces, CacheGivesUp, CacheSignal
  <2>5. CASE Mishap
    BY <2>5 DEF Mishap, Die, RetryRestart, RemoveFails
  <2> QED BY <2>1, <2>2, <2>3, <2>4, <2>5 DEF Next, Live, vars, retryVars
<1> QED BY <1>1, <1>2, <1>3, <1>4, <1>5, <1>6, <1>7

\* A bounce under way ends in a context, in the log, or with the process.
LEMMA BounceEnds ==
  ASSUME CoreInv, [Next]_vars, NEW m \in Mail, BeingBounced(m)
  PROVE  BeingBounced(m)' \/ m \in Ended' \cup dropped'
<1>1. cpc = "bounce" /\ cwhole /\ cmsg = Original(m) /\ MailIn(cmsg) = {m} /\ cmsg.mail = m
  BY DEF BeingBounced, Original, MailIn
<1>2. CASE CacheThread
  BY <1>1, <1>2 DEF CacheThread, StartPass, EndPass, StatFile, ReadFile, SkipFile,
              CacheDelivers, CacheDefers, CacheRefused, CacheRemoves, CacheBounces,
              CacheGivesUp, CacheSignal, GiveUp, Bounce, Ended
<1>3. CASE Die
  BY <1>1, <1>3 DEF Die
<1>4. CASE UNCHANGED <<cpc, cwhole, cmsg>>
  BY <1>4 DEF BeingBounced
<1>5. CacheThread \/ Die \/ UNCHANGED <<cpc, cwhole, cmsg>>
  BY <1>1 DEF Next, Live, Mishap, RemoveFails, Transport, Others, Hook, HookDelivers, HookDefers, HookBounces,
         HookGivesUp, HookSignal, OpenFile, CommitFile, SaveFails, retryVars, cacheVars,
         vars
<1> QED BY <1>2, <1>3, <1>4, <1>5

LEMMA SettledStep ==
  ASSUME CoreInv, [Next]_vars, NEW m \in Mail, Settled(m)
  PROVE  Settled(m)'
<1>1. CASE InFile(m)
  <2>1. PICK i \in Complete : files[i].msg = Original(m)
    BY <1>1 DEF InFile
  <2>2. CASE i \in Complete' /\ files'[i].msg = files[i].msg
    BY <2>1, <2>2 DEF Settled, InFile, Original
  <2>3. CASE i = cfile /\ CacheRefused
    <3>1. cmsg = Original(m) /\ MailIn(cmsg) = {m}
      BY <2>1, <2>3 DEF CacheRefused, CoreInv, FileInv, MailIn, Original
    <3>2. CASE cwhole
      BY <2>3, <3>1, <3>2 DEF CacheRefused, CacheGoto, Settled, BeingBounced, Original
    <3>3. CASE ~cwhole
      BY <2>3, <3>1, <3>3 DEF CacheRefused, Mangle, Settled, Ended
    <3> QED BY <3>2, <3>3
  <2>4. CASE i = cfile /\ CacheRemoves
    <3>1. MailIn(cmsg) \subseteq delivered \cup mangled /\ cmsg = Original(m)
      BY <2>1, <2>4 DEF CacheRemoves, CoreInv, FileInv
    <3>2. m \in delivered \cup mangled
      BY <3>1 DEF MailIn, Original
    <3> QED BY <3>2, OutcomesGrow DEF Settled, Ended
  <2> QED BY <2>2, <2>3, <2>4, CompleteStays
<1>2. CASE BeingBounced(m)
  BY <1>2, BounceEnds DEF Settled
<1>3. CASE m \in Ended \cup dropped
  BY <1>3, OutcomesGrow DEF Settled, Ended
<1> QED BY <1>1, <1>2, <1>3 DEF Settled

\* A hook that is done with a mail has settled it.
LEMMA HookSettles ==
  ASSUME CoreInv, CoreInv', KeptInv, NEW t \in Thread, Hook(t),
         UNCHANGED <<mishaps, dropped>>,
         pc'[t] \in {"signal", "put"}, ~item[t].bounce
  PROVE  (Settled(item[t].mail))'
<1> USE DEF CoreInv, PoolInv, TypeOK, TransTypeOK
<1>0. /\ UNCHANGED item /\ pc[t] \notin Resting /\ item[t] \in Msg
      /\ item[t].mail \in Mail /\ item[t] = Original(item[t].mail)
      /\ MailIn(item[t]) = {item[t].mail}
  <2>1. UNCHANGED item /\ pc[t] \in {"hook", "signal", "open", "write"}
    BY DEF Hook, HookDelivers, HookDefers, HookBounces, HookGivesUp, HookSignal, OpenFile,
           CommitFile, SaveFails
  <2>2. item[t] \in Msg /\ pc[t] \notin Resting
    BY <2>1 DEF ThreadInv, Resting
  <2> QED BY <2>1, <2>2 DEF Msg, Original, MailIn
<1>1. CASE HookDelivers(t) \/ HookGivesUp(t) \/ HookBounces(t) \/ SaveFails(t)
  BY <1>0, <1>1 DEF HookDelivers, HookGivesUp, HookBounces, SaveFails, Deliver, GiveUp,
                    Bounce, Settled, Ended
<1>2. CASE HookSignal(t)
  <2>1. Settled(item[t].mail)
    BY <1>0, <1>2 DEF HookSignal, KeptInv
  <2>2. UNCHANGED <<files, outcomeVars, cpc, cwhole, cmsg>>
    BY <1>2 DEF HookSignal, retryVars, outcomeVars, cacheVars
  <2> QED BY <1>0, <2>1, <2>2
          DEF Settled, InFile, BeingBounced, Ended, outcomeVars, Complete, FileIDs,
              Original
<1>3. CASE CommitFile(t)
  <2> DEFINE w == writing[t]
  <2>1. /\ w \in IDs /\ files[w] = [msg |-> item[t], times |-> 0]
        /\ files' = [files EXCEPT ![w].times = 1]
    BY <1>3, WritingFile DEF CommitFile
  <2>2. files'[w] = [msg |-> item[t], times |-> 1]
    BY <2>1 DEF RetryTypeOK
  <2>3. files'[w] \in File
    BY <1>0, <2>2, RetryQueueAssumption DEF File
  <2>4. w \in Complete' /\ files'[w].msg = item[t]
    <3>1. [msg |-> item[t], times |-> 1].times > 0
      OBVIOUS
    <3>2. files'[w] # NoFile
      BY <2>3, RetryQueueAssumption
    <3> QED BY <2>1, <2>2, <3>1, <3>2 DEF Complete, FileIDs
  <2> QED BY <1>0, <2>4 DEF Settled, InFile, Original
<1>4. CASE HookDefers(t) \/ OpenFile(t)
  BY <1>4 DEF HookDefers, OpenFile, Goto
<1> QED BY <1>1, <1>2, <1>3, <1>4 DEF Hook

LEMMA KeptStep ==
  ASSUME CoreInv, CoreInv', KeptInv, [Next]_vars
  PROVE  KeptInv'
<1> USE DEF CoreInv, PoolInv, TypeOK, TransTypeOK
<1>1. \A m \in Mail : Settled(m) => Settled(m)'
  BY SettledStep
<1>2. ASSUME NEW t \in Thread, pc'[t] \in {"signal", "put"}, ~item'[t].bounce
      PROVE  (Settled(item[t].mail))'
  <2>1. CASE Hook(t) /\ UNCHANGED <<mishaps, dropped>>
    BY <1>2, <2>1, HookSettles
       DEF Hook, HookDelivers, HookDefers, HookBounces, HookGivesUp, HookSignal, OpenFile,
           CommitFile, SaveFails
  <2>2. CASE pc'[t] = pc[t] /\ item'[t] = item[t]
    <3>1. Settled(item[t].mail) /\ item[t].mail \in Mail
      BY <1>2, <2>2 DEF KeptInv, ThreadInv, Resting, Msg
    <3> QED BY <1>1, <2>2, <3>1
  <2>3. \/ Hook(t) /\ UNCHANGED <<mishaps, dropped>>
        \/ pc'[t] = pc[t] /\ item'[t] = item[t]
    <3>1. Transport(t) => pc'[t] \in Resting \cup {"hook"}
      BY TransportMoves
    <3>2. Die => pc'[t] \in Resting
      BY DEF Die, TransRestart, Resting
    <3> QED BY <1>2, <3>1, <3>2, OthersStay DEF Resting
  <2> QED BY <2>1, <2>2, <2>3
<1>3. ASSUME NEW m \in Mail, m \in stored, m \notin stored'
      PROVE  Settled(m)'
  <2>1. PICK t \in Thread : Put(t)
    BY <1>3 DEF Next, Live, Mishap, Die, TransRestart, RemoveFails, Transport, Others,
          Hook, CacheThread,
          StartWait, Get, Dequeue, NotServed, Leave, Load, LoadSignal, Broadcast,
          AddThread, AddFails, HookDelivers, HookDefers, HookBounces, HookGivesUp,
          HookSignal, OpenFile, CommitFile, SaveFails, StartPass, EndPass, StatFile,
          ReadFile, SkipFile, CacheDelivers, CacheDefers, CacheRefused, CacheRemoves,
          CacheBounces, CacheGivesUp, CacheSignal, transVars, sourceVars, vars
  <2>2. pc[t] = "put" /\ ~item[t].bounce /\ item[t].mail = m
    BY <1>3, <2>1 DEF Put
  <2> QED BY <1>1, <2>2 DEF KeptInv
<1>4. \A m \in Mail : m \in stored' \/ Settled(m)'
  BY <1>1, <1>3 DEF KeptInv
<1> QED BY <1>2, <1>4 DEF KeptInv

\* What never leaves the process's hands unsettled.
THEOREM KeptCorrect == Spec => []KeptInv
<1>1. Init => KeptInv
  BY TransporterAssumption
     DEF Init, TransInit, KeptInv
<1>2. CoreInv /\ CoreInv' /\ KeptInv /\ [Next]_vars => KeptInv'
  BY KeptStep
<1> QED BY <1>1, <1>2, CoreCorrect, PTL DEF Spec

\* The transporter erases a mail from the mail queue after its hooks: until then it
\* is there, and after that delivered, bounced, given up as the code has it, or in
\* the cache queue; it is lost only by a death between the removal of its file there
\* and the bounce, or when its file was finished while the cache queue read it.
THEOREM MailIsKept == Spec => []MailKept
<1>1. KeptInv => MailKept
  BY DEF KeptInv, MailKept, Settled, InFile, BeingBounced, Ended
<1> QED BY <1>1, KeptCorrect, PTL

-----------------------------------------------------------------------------
(* Nodes.                                                                  *)

LEMMA NodeFrame ==
  ASSUME NodeInv, UNCHANGED <<g_used_list, loaded, item>>
  PROVE  NodeInv'
BY DEF NodeInv

LEMMA NodeStep ==
  ASSUME CoreInv, NodeInv, [Next]_vars
  PROVE  NodeInv'
<1> USE DEF CoreInv, PoolInv, TypeOK, TransTypeOK
<1>1. ASSUME NEW t \in Thread, Get(t)
      PROVE  NodeInv'
  <2>1. CASE g_used_list = <<>>
    BY <1>1, <2>1, NodeFrame DEF Get
  <2>2. CASE g_used_list # <<>>
    <3> DEFINE m == Head(g_used_list)
    <3>1. /\ m \in Mail /\ m \in ToSet(g_used_list)
          /\ ToSet(g_used_list') = ToSet(g_used_list) \ {m}
          /\ IsInjective(g_used_list')
      <4>1. g_used_list' = Tail(g_used_list) /\ g_used_list \in Seq(Mail)
            /\ IsInjective(g_used_list)
        BY <1>1, <2>2 DEF Get, NodeInv
      <4> QED BY <2>2, <4>1, TakeHead
    <3>2. item' = [item EXCEPT ![t] = [mail |-> m, bounce |-> FALSE]]
          /\ UNCHANGED loaded
      BY <1>1, <2>2 DEF Get
    <3>3. item'[t].mail = m /\ \A s \in Thread \ {t} : item'[s] = item[s]
      BY <3>2
    <3> HIDE DEF m
    <3>4. \A s \in Thread : item[s] # NoMsg /\ ~item[s].bounce => item[s].mail # m
      BY <3>1 DEF NodeInv
    <3> QED BY <3>1, <3>2, <3>3, <3>4 DEF NodeInv
  <2> QED BY <2>1, <2>2
<1>2. ASSUME NEW t \in Thread, Dequeue(t)
      PROVE  NodeInv'
  <2>1. CASE g_queue_list = <<>>
    BY <1>2, <2>1, NodeFrame DEF Dequeue, sourceVars
  <2>2. CASE g_queue_list # <<>>
    <3>1. PICK x \in Bouncing : x = Head(g_queue_list)
      BY <2>2 DEF ThreadInv
    <3>2. /\ item' = [item EXCEPT ![t] = x] /\ x.bounce
          /\ UNCHANGED <<g_used_list, loaded>>
      BY <1>2, <2>2, <3>1 DEF Dequeue, sourceVars, Bouncing
    <3>3. item'[t].bounce /\ \A s \in Thread \ {t} : item'[s] = item[s]
      BY <3>2
    <3> QED BY <3>2, <3>3 DEF NodeInv
  <2> QED BY <2>1, <2>2
<1>3. ASSUME NEW t \in Thread, Put(t)
      PROVE  NodeInv'
  <2>1. /\ item' = [item EXCEPT ![t] = NoMsg] /\ UNCHANGED g_used_list
        /\ loaded' = IF item[t].bounce THEN loaded ELSE loaded \ {item[t].mail}
        /\ item[t] \in Msg /\ item[t] # NoMsg
    BY <1>3 DEF Put, ThreadInv, Resting
  <2>2. item'[t] = NoMsg /\ \A s \in Thread \ {t} : item'[s] = item[s]
    BY <2>1
  <2>3. ASSUME NEW s \in Thread \ {t}, ~item[t].bounce, item[s] # NoMsg, ~item[s].bounce
        PROVE  item[s].mail # item[t].mail
    <3>1. item[s] # item[t] /\ item[s] \in Msg
      BY <2>1, <2>3 DEF NodeInv
    <3>2. \A x \in Msg : ~x.bounce => x = [mail |-> x.mail, bounce |-> FALSE]
      BY DEF Msg
    <3>3. item[s] = [mail |-> item[s].mail, bounce |-> FALSE]
      BY <2>3, <3>1, <3>2
    <3>4. item[t] = [mail |-> item[t].mail, bounce |-> FALSE]
      BY <2>1, <2>3, <3>2
    <3> QED BY <3>1, <3>3, <3>4
  <2> QED BY <2>1, <2>2, <2>3 DEF NodeInv
<1>4. ASSUME NEW m \in Mail, Load(m)
      PROVE  NodeInv'
  <2>1. /\ m \notin loaded /\ loaded' = loaded \cup {m} /\ UNCHANGED item
        /\ g_used_list' = Append(g_used_list, m)
    BY <1>4 DEF Load, threadVars
  <2>2. /\ ToSet(g_used_list') = ToSet(g_used_list) \cup {m}
        /\ IsInjective(g_used_list')
    BY <2>1, AppendOne DEF NodeInv
  <2> QED BY <2>1, <2>2 DEF NodeInv
<1>5. CASE Die
  <2>1. /\ g_used_list' = <<>> /\ loaded' = {} /\ item' = [t \in Thread |-> NoMsg]
    BY <1>5 DEF Die, TransRestart
  <2>2. ToSet(<<>>) = {} /\ IsInjective(<<>>)
    BY DEF ToSet, IsInjective
  <2> QED BY <2>1, <2>2 DEF NodeInv
<1>6. \/ \E t \in Thread : Get(t) \/ Dequeue(t) \/ Put(t)
      \/ \E m \in Mail : Load(m)
      \/ Die
      \/ UNCHANGED <<g_used_list, loaded, item>>
  BY DEF Next, Live, Mishap, RemoveFails, Transport, Others, Hook, CacheThread,
         StartWait, NotServed, Leave, LoadSignal, Broadcast,
         AddThread, AddFails, HookDelivers, HookDefers, HookBounces, HookGivesUp,
         HookSignal, OpenFile, CommitFile, SaveFails, StartPass, EndPass, StatFile,
         ReadFile, SkipFile, CacheDelivers, CacheDefers, CacheRefused, CacheRemoves,
         CacheBounces, CacheGivesUp, CacheSignal, transVars, sourceVars, threadVars, vars
<1> QED BY <1>1, <1>2, <1>3, <1>4, <1>5, <1>6, NodeFrame

\* The node of a mail in the mail queue is in one place.
THEOREM NodesCorrect == Spec => []NodeInv
<1>1. Init => NodeInv
  <2>1. ToSet(<<>>) = {} /\ IsInjective(<<>>)
    BY DEF ToSet, IsInjective
  <2> QED BY <2>1 DEF Init, TransInit, NodeInv
<1>2. CoreInv /\ NodeInv /\ [Next]_vars => NodeInv'
  BY NodeStep
<1> QED BY <1>1, <1>2, CoreCorrect, PTL DEF Spec

-----------------------------------------------------------------------------
(* One end.                                                                *)

FateCore == CoreInv /\ NodeInv /\ Fate

\* Nothing makes a mail fresh again but a mishap.
LEMMA FreshBack ==
  ASSUME CoreInv, NodeInv, [Next]_vars, ~Mishap, NEW m \in Mail, Fresh(m)'
  PROVE  Fresh(m)
<1> USE DEF CoreInv, PoolInv, TypeOK, TransTypeOK
<1>1. m \in stored
  <2>1. stored' \subseteq stored
    BY DEF Next, Live, Transport, Others, Hook, CacheThread,
          StartWait, Get, Dequeue, NotServed, Leave, Put, Load, LoadSignal, Broadcast,
          AddThread, AddFails, HookDelivers, HookDefers, HookBounces, HookGivesUp,
          HookSignal, OpenFile, CommitFile, SaveFails, StartPass, EndPass, StatFile,
          ReadFile, SkipFile, CacheDelivers, CacheDefers, CacheRefused, CacheRemoves,
          CacheBounces, CacheGivesUp, CacheSignal, transVars, sourceVars, vars
  <2> QED BY <2>1 DEF Fresh
<1>2. ASSUME NEW t \in Thread, item[t] = Original(m)
      PROVE  pc[t] \in {"hook", "open", "write"}
  <2>1. item[t] # NoMsg /\ ~item[t].bounce /\ item[t].mail = m
    <3>1. Original(m) \in Msg
      BY DEF Original, Msg
    <3>2. Original(m) # NoMsg
      BY <3>1, TransporterAssumption
    <3>3. ~Original(m).bounce /\ Original(m).mail = m
      BY DEF Original
    <3> QED BY <1>2, <3>2, <3>3
  <2>2. pc[t] \in {"hook", "open", "write", "signal", "put"}
    BY <2>1 DEF ThreadInv, Resting
  <2>3. CASE pc'[t] = pc[t] /\ item'[t] = item[t]
    BY <1>2, <2>3 DEF Fresh, Original
  <2>4. CASE Hook(t)
    BY <1>2, <2>2, <2>4
       DEF Fresh, Original, Hook, HookDelivers, HookDefers, HookBounces, HookGivesUp,
           HookSignal, OpenFile, CommitFile, SaveFails, WakeOne, Waiting
  <2>5. CASE Transport(t)
    <3>1. pc[t] = "put" => m \notin stored'
      BY <2>1, <2>5 DEF Transport, StartWait, Get, Dequeue, NotServed, Leave, Put
    <3>2. pc[t] # "signal"
      BY <2>5 DEF Transport, StartWait, Get, Dequeue, NotServed, Leave, Put
    <3> QED BY <2>2, <3>1, <3>2 DEF Fresh
  <2>6. pc[t] \notin Resting
    BY <2>2 DEF Resting
  <2> QED BY <2>3, <2>4, <2>5, <2>6, OthersStay
<1> QED BY <1>1, <1>2 DEF Fresh

\* The mail of a thread whose hook has not finished is fresh, and in no complete
\* file.
LEMMA FreshMail ==
  ASSUME FateCore, NEW t \in Thread, pc[t] \in {"hook", "open", "write"},
         ~item[t].bounce
  PROVE  /\ item[t] \in Msg /\ item[t].mail \in Mail
         /\ item[t] = Original(item[t].mail)
         /\ Fresh(item[t].mail)
<1> USE DEF FateCore, CoreInv, PoolInv, TypeOK, TransTypeOK
<1>1. item[t] \in Msg /\ item[t] # NoMsg
  BY TransporterAssumption DEF ThreadInv, Resting
<1>2. item[t] = Original(item[t].mail) /\ item[t].mail \in Mail
  BY <1>1 DEF Msg, Original
<1>3. item[t].mail \in stored
  BY <1>1 DEF NodeInv
<1>4. \A s \in Thread : item[s] = item[t] => s = t
  BY <1>1 DEF NodeInv
<1> QED BY <1>1, <1>2, <1>3, <1>4 DEF Fresh

\* The mail of a complete file is not fresh.
LEMMA CompleteIsStale ==
  ASSUME FateCore, NEW i \in Complete, NEW m \in Mail, files[i].msg = Original(m)
  PROVE  ~Fresh(m)
<1>1. SUFFICES ASSUME Fresh(m)
               PROVE  FALSE
  OBVIOUS
<1>2. PICK t \in Thread : writing[t] = i
  BY <1>1 DEF FateCore, Fate, FreshIsOpen, Complete
<1>3. i # 0
  BY DEF Complete, FileIDs, IDs
<1>4. pc[t] = "write"
  BY <1>2, <1>3 DEF FateCore, CoreInv, FileInv
<1> QED BY <1>2, <1>4, WritingFile DEF FateCore, CoreInv

\* No file is made or completed, and those of fresh mails are written by the same
\* threads.
NoNewFile ==
  \A i \in FileIDs' :
    /\ i \in FileIDs /\ files'[i].msg = files[i].msg
    /\ i \in Complete' => i \in Complete
    /\ \A m \in Mail : \A t \in Thread :
         writing[t] = i /\ files[i].msg = Original(m) /\ Fresh(m)' => writing'[t] = i

\* A step after which all that was open is open still.
LEMMA FateStays ==
  ASSUME Fate, UNCHANGED outcomeVars, NoNewFile,
         \A m \in Mail : Fresh(m)' => Fresh(m),
         \A m \in Mail : BeingBounced(m)' => BeingBounced(m),
         \A i \in Complete' :
           cpc = "remove" /\ cfile = i => cpc' = "remove" /\ cfile' = i
  PROVE  Fate'
<1>1. Ended' = Ended
  BY DEF Ended, outcomeVars
<1>2. FreshIsOpen'
  <2>1. ASSUME NEW m \in Mail, Fresh(m)', NEW i \in FileIDs', files'[i].msg = Original(m)
        PROVE  \E t \in Thread : writing'[t] = i
    BY <2>1 DEF Fate, FreshIsOpen, NoNewFile
  <2>2. ASSUME NEW m \in Mail, Fresh(m)'
        PROVE  m \notin Ended' /\ ~BeingBounced(m)'
    BY <1>1, <2>2 DEF Fate, FreshIsOpen
  <2>3. \A m \in Mail : Original(m)' = Original(m)
    BY DEF Original
  <2> QED BY <2>1, <2>2, <2>3 DEF FreshIsOpen
<1>3. CachedIsOpen'
  <2>1. Complete' \subseteq FileIDs'
    BY DEF Complete
  <2> QED BY <1>1, <2>1 DEF Fate, CachedIsOpen, NoNewFile
<1>4. BouncedIsOpen'
  BY <1>1 DEF Fate, BouncedIsOpen, NoNewFile, Original
<1>5. OneEnd'
  BY DEF Fate, OneEnd, outcomeVars
<1> QED BY <1>2, <1>3, <1>4, <1>5 DEF Fate

EndOf(e) ==
  \/ delivered' = delivered \cup {e} /\ UNCHANGED <<bounced, given_up, mangled>>
  \/ bounced' = bounced \cup {e} /\ UNCHANGED <<delivered, given_up, mangled>>
  \/ given_up' = given_up \cup {e} /\ UNCHANGED <<delivered, bounced, mangled>>
  \/ mangled' = mangled \cup {e} /\ UNCHANGED <<delivered, bounced, given_up>>

\* The step that ends a mail.
LEMMA FateEnds ==
  ASSUME Fate, NoNewFile, NEW e \in Mail, e \notin Ended,
         EndOf(e),
         ~Fresh(e)', \A m \in Mail : Fresh(m)' => Fresh(m),
         \A m \in Mail : BeingBounced(m)' => BeingBounced(m) /\ m # e,
         \A i \in Complete' :
           (cpc = "remove" /\ cfile = i) \/ files[i].msg = Original(e)
             => cpc' = "remove" /\ cfile' = i,
         \A i \in FileIDs : files[i].msg \in Msg
  PROVE  Fate'
<1>1. Ended' = Ended \cup {e}
  BY DEF Ended, EndOf
<1>2. FreshIsOpen'
  <2>1. ASSUME NEW m \in Mail, Fresh(m)', NEW i \in FileIDs', files'[i].msg = Original(m)
        PROVE  \E t \in Thread : writing'[t] = i
    BY <2>1 DEF Fate, FreshIsOpen, NoNewFile
  <2>2. ASSUME NEW m \in Mail, Fresh(m)'
        PROVE  m \notin Ended' /\ ~BeingBounced(m)'
    BY <1>1, <2>2 DEF Fate, FreshIsOpen
  <2>3. \A m \in Mail : Original(m)' = Original(m)
    BY DEF Original
  <2> QED BY <2>1, <2>2, <2>3 DEF FreshIsOpen
<1>3. CachedIsOpen'
  <2>1. Complete' \subseteq FileIDs'
    BY DEF Complete
  <2>2. ASSUME NEW i \in Complete', ~files'[i].msg.bounce, ~(cpc' = "remove" /\ cfile' = i)
        PROVE  files'[i].msg.mail \notin Ended'
    <3>1. /\ i \in Complete /\ files'[i].msg = files[i].msg
          /\ files[i].msg \in Msg
      BY <2>1 DEF NoNewFile
    <3>2. files[i].msg.mail \notin Ended
      BY <2>2, <3>1 DEF Fate, CachedIsOpen
    <3>3. files[i].msg.mail # e
      BY <2>2, <3>1 DEF Original, Msg
    <3> QED BY <1>1, <3>1, <3>2, <3>3
  <2>3. \A i, j \in FileIDs' :
          ~files'[i].msg.bounce /\ files'[j].msg = files'[i].msg => i = j
    BY DEF Fate, CachedIsOpen, NoNewFile
  <2> QED BY <2>2, <2>3 DEF CachedIsOpen
<1>4. BouncedIsOpen'
  BY <1>1 DEF Fate, BouncedIsOpen, NoNewFile, Original
<1>5. OneEnd'
  BY DEF Fate, OneEnd, Ended, EndOf
<1> QED BY <1>2, <1>3, <1>4, <1>5 DEF Fate

\* Steps that leave files, outcomes and the cache thread's place alone.
LEMMA FateQuiet ==
  ASSUME FateCore, [Next]_vars, ~Mishap,
         UNCHANGED <<files, writing, outcomeVars, cfile, cpc, cwhole, cmsg>>
  PROVE  Fate'
<1>1. NoNewFile
  BY DEF NoNewFile, FileIDs, Complete
<1>2. \A m \in Mail : Fresh(m)' => Fresh(m)
  BY FreshBack DEF FateCore
<1>3. \A m \in Mail : BeingBounced(m)' => BeingBounced(m)
  BY DEF BeingBounced, Original
<1>4. \A i \in Complete' : cpc = "remove" /\ cfile = i => cpc' = "remove" /\ cfile' = i
  OBVIOUS
<1> QED BY <1>1, <1>2, <1>3, <1>4, FateStays DEF FateCore

LEMMA FileMessages ==
  ASSUME CoreInv
  PROVE  \A i \in FileIDs : files[i] \in File /\ files[i].msg \in Msg
<1>1. \A i \in FileIDs : files[i] \in File
  BY DEF CoreInv, PoolInv, TypeOK, RetryTypeOK, FileIDs
<1> QED BY <1>1 DEF File

\* A hook decides what becomes of a message, or fails to save it.
LEMMA FateHookEnds ==
  ASSUME FateCore, [Next]_vars, ~Mishap, NEW t \in Thread,
         HookDelivers(t) \/ HookGivesUp(t) \/ HookBounces(t) \/ SaveFails(t)
  PROVE  Fate'
<1> DEFINE e == item[t].mail
<1>1. /\ pc[t] \in {"hook", "open", "write"} /\ pc'[t] \in {"put", "signal"}
      /\ UNCHANGED <<item, stored, cpc, cfile, cwhole, cmsg>>
  BY DEF HookDelivers, HookGivesUp, HookBounces, SaveFails, Goto, sourceVars, cacheVars,
         FateCore, CoreInv, PoolInv, TypeOK, TransTypeOK
<1>2. NoNewFile
  <2>1. CASE SaveFails(t)
    <3>1. /\ \/ UNCHANGED files
             \/ files' = [i \in IDs |-> IF i = writing[t] THEN NoFile ELSE files[i]]
          /\ writing' = [writing EXCEPT ![t] = 0]
      BY <2>1 DEF SaveFails
    <3>2. ASSUME NEW i \in FileIDs'
          PROVE  i \in IDs /\ files'[i] = files[i] /\ files[i] # NoFile
      BY <3>1 DEF FileIDs
    <3>3. ASSUME NEW i \in FileIDs', NEW m \in Mail, NEW s \in Thread, writing[s] = i,
                 files[i].msg = Original(m), Fresh(m)'
          PROVE  writing'[s] = i
      <4>1. CASE s # t
        BY <3>1, <3>3, <4>1 DEF FateCore, CoreInv, PoolInv, TypeOK, RetryTypeOK
      <4>2. CASE s = t
        <5>1. i # 0
          BY <3>2 DEF IDs
        <5>2. files[i] = [msg |-> item[t], times |-> 0]
          BY <3>3, <4>2, <5>1 DEF FateCore, CoreInv, FileInv
        <5>3. item[t] = Original(m)
          BY <3>3, <5>2
        <5>4. item'[t] = Original(m)'
          BY <1>1, <5>3 DEF Original
        <5>5. pc'[t] \in {"hook", "open", "write"}
          BY <3>3, <5>4 DEF Fresh
        <5> QED BY <1>1, <5>5
      <4> QED BY <4>1, <4>2
    <3> QED BY <3>2, <3>3 DEF NoNewFile, FileIDs, Complete
  <2>2. CASE UNCHANGED <<files, writing>>
    BY <2>2 DEF NoNewFile, FileIDs, Complete
  <2> QED BY <2>1, <2>2 DEF HookDelivers, HookGivesUp, HookBounces
<1>3. \A m \in Mail : Fresh(m)' => Fresh(m)
  BY FreshBack DEF FateCore
<1>4. \A m \in Mail : BeingBounced(m)' => BeingBounced(m)
  BY <1>1 DEF BeingBounced, Original
<1>5. CASE item[t].bounce
  <2>1. UNCHANGED outcomeVars
    BY <1>5 DEF HookDelivers, HookGivesUp, HookBounces, SaveFails, Deliver, GiveUp, Bounce,
                MailIn, outcomeVars
  <2> QED BY <1>1, <1>2, <1>3, <1>4, <2>1, FateStays DEF FateCore
<1>6. CASE ~item[t].bounce
  <2>1. e \in Mail /\ item[t] = Original(e) /\ Fresh(e)
    BY <1>1, <1>6, FreshMail
  <2>2. e \notin Ended /\ ~BeingBounced(e)
    BY <2>1 DEF FateCore, Fate, FreshIsOpen
  <2>3. EndOf(e)
    BY <1>6 DEF HookDelivers, HookGivesUp, HookBounces, SaveFails, Deliver, GiveUp, Bounce,
                MailIn, EndOf
  <2>4. ~Fresh(e)'
    <3>1. Original(e)' = Original(e)
      BY <1>1 DEF Original
    <3> QED BY <1>1, <2>1, <3>1 DEF Fresh
  <2>5. \A i \in Complete' : i \in Complete
    BY <1>2 DEF NoNewFile, Complete
  <2>6. \A i \in Complete : files[i].msg # Original(e)
    BY <2>1, CompleteIsStale
  <2> QED BY <1>2, <1>3, <1>4, <2>1, <2>2, <2>3, <1>1, <2>4, <2>5, <2>6, FateEnds,
             FileMessages DEF FateCore
<1> QED BY <1>5, <1>6

\* Steps of the cache thread between messages.
LEMMA FateMoves ==
  ASSUME FateCore, [Next]_vars, ~Mishap, UNCHANGED <<files, writing, outcomeVars>>,
         cpc \notin {"remove", "bounce"}, cpc' # "bounce"
  PROVE  Fate'
<1>1. NoNewFile
  BY DEF NoNewFile, FileIDs, Complete
<1>2. \A m \in Mail : Fresh(m)' => Fresh(m)
  BY FreshBack DEF FateCore
<1>3. \A m \in Mail : ~BeingBounced(m)'
  BY DEF BeingBounced
<1> QED BY <1>1, <1>2, <1>3, FateStays DEF FateCore

\* A new file: its mail has no other.
LEMMA FateOpens ==
  ASSUME FateCore, [Next]_vars, ~Mishap, NEW t \in Thread, OpenFile(t)
  PROVE  Fate'
<1> DEFINE n == g_mess_id + 1
           x == [msg |-> item[t], times |-> 0]
<1>1. /\ n \in IDs /\ n \notin FileIDs
      /\ files' = [files EXCEPT ![n] = x] /\ writing' = [writing EXCEPT ![t] = n]
      /\ pc[t] = "open" /\ UNCHANGED <<cpc, cfile, cwhole, cmsg, item, outcomeVars>>
  <2>1. g_mess_id \in Nat /\ MaxMessID \in Nat /\ g_mess_id < MaxMessID
    BY RetryQueueAssumption
       DEF OpenFile, FateCore, CoreInv, PoolInv, TypeOK, RetryTypeOK
  <2>2. n \in IDs /\ \A i \in FileIDs : i # n
    BY <2>1 DEF IDs, FileIDs, FateCore, CoreInv, FileInv
  <2>3. g_mess_id' = n
    BY DEF OpenFile
  <2>4. /\ files' = [files EXCEPT ![n] = x] /\ writing' = [writing EXCEPT ![t] = n]
        /\ pc[t] = "open" /\ UNCHANGED <<cpc, cfile, cwhole, cmsg, item, outcomeVars>>
    BY <2>3 DEF OpenFile, cacheVars
  <2> QED BY <2>2, <2>4
<1>2. writing[t] = 0 /\ \A i \in FileIDs : i # 0
  BY <1>1 DEF FateCore, CoreInv, FileInv, FileIDs, IDs
<1>3. files'[n] = x /\ x.msg = item[t] /\ ~(x.times > 0)
  BY <1>1 DEF FateCore, CoreInv, PoolInv, TypeOK, RetryTypeOK
<1> HIDE DEF n, x
<1>4. \A i \in FileIDs' : i # n => i \in FileIDs /\ files'[i] = files[i]
  BY <1>1 DEF FileIDs, FateCore, CoreInv, PoolInv, TypeOK, RetryTypeOK
<1>5. \A i \in Complete' : i # n /\ i \in Complete
  BY <1>3, <1>4 DEF Complete
<1>6. \A m \in Mail : Fresh(m)' => Fresh(m)
  BY FreshBack DEF FateCore
<1>7. Ended' = Ended /\ \A m \in Mail : BeingBounced(m)' <=> BeingBounced(m)
  BY <1>1 DEF Ended, outcomeVars, BeingBounced, Original
<1>8. \A m \in Mail : item[t] = Original(m) => Fresh(m)
  <2>1. ASSUME NEW m \in Mail, item[t] = Original(m)
        PROVE  Fresh(m)
    <3>1. ~item[t].bounce /\ item[t].mail = m
      BY <2>1 DEF Original
    <3> QED BY <1>1, <3>1, FreshMail
  <2> QED BY <2>1
<1>9. ASSUME NEW i \in FileIDs, files[i].msg = item[t], ~item[t].bounce
      PROVE  FALSE
  <2>1. item[t].mail \in Mail /\ item[t] = Original(item[t].mail) /\ item[t] \in Msg
        /\ Fresh(item[t].mail)
    BY <1>1, <1>9, FreshMail
  <2>2. PICK s \in Thread : writing[s] = i
    BY <1>9, <2>1 DEF FateCore, Fate, FreshIsOpen
  <2>3. pc[s] = "write" /\ files[i] = [msg |-> item[s], times |-> 0]
    BY <1>2, <2>2 DEF FateCore, CoreInv, FileInv
  <2>4. item[s] = item[t]
    BY <1>9, <2>3
  <2>5. s = t
    BY <1>9, <2>1, <2>4, TransporterAssumption DEF FateCore, NodeInv
  <2> QED BY <1>2, <2>2, <2>5
<1>10. FreshIsOpen'
  <2>1. ASSUME NEW m \in Mail, Fresh(m)', NEW i \in FileIDs', files'[i].msg = Original(m)
        PROVE  \E s \in Thread : writing'[s] = i
    <3>1. CASE i = n
      BY <1>1, <3>1 DEF FateCore, CoreInv, PoolInv, TypeOK, RetryTypeOK
    <3>2. CASE i # n
      <4>1. PICK s \in Thread : writing[s] = i
        BY <1>4, <1>6, <2>1, <3>2 DEF FateCore, Fate, FreshIsOpen
      <4>2. s # t
        BY <1>2, <1>4, <3>2, <4>1
      <4> QED BY <1>1, <4>1, <4>2 DEF FateCore, CoreInv, PoolInv, TypeOK, RetryTypeOK
    <3> QED BY <3>1, <3>2
  <2>2. ASSUME NEW m \in Mail, Fresh(m)'
        PROVE  m \notin Ended' /\ ~BeingBounced(m)'
    BY <1>6, <1>7, <2>2 DEF FateCore, Fate, FreshIsOpen
  <2>3. \A m \in Mail : Original(m)' = Original(m)
    BY DEF Original
  <2> QED BY <2>1, <2>2, <2>3 DEF FreshIsOpen
<1>11. CachedIsOpen'
  <2>1. ASSUME NEW i \in FileIDs', NEW j \in FileIDs', ~files'[i].msg.bounce,
               files'[j].msg = files'[i].msg
        PROVE  i = j
    BY <1>3, <1>4, <1>9, <2>1 DEF FateCore, Fate, CachedIsOpen
  <2>2. ASSUME NEW i \in Complete', ~files'[i].msg.bounce
        PROVE  (cpc' = "remove" /\ cfile' = i) \/ files'[i].msg.mail \notin Ended'
    <3>1. i \in Complete /\ files'[i] = files[i]
      BY <1>4, <1>5 DEF Complete
    <3> QED BY <1>1, <1>7, <2>2, <3>1 DEF FateCore, Fate, CachedIsOpen
  <2> QED BY <2>1, <2>2 DEF CachedIsOpen
<1>12. BouncedIsOpen'
  <2>1. ASSUME NEW m \in Mail, BeingBounced(m)', NEW i \in FileIDs', files'[i].msg = Original(m)
        PROVE  FALSE
    <3>1. i = n
      BY <1>4, <1>7, <2>1 DEF FateCore, Fate, BouncedIsOpen
    <3>2. Fresh(m)
      BY <1>3, <1>8, <2>1, <3>1
    <3> QED BY <1>7, <2>1, <3>2 DEF FateCore, Fate, FreshIsOpen
  <2>2. \A m \in Mail : Original(m)' = Original(m)
    BY DEF Original
  <2> QED BY <1>7, <2>1, <2>2 DEF FateCore, Fate, BouncedIsOpen
<1>13. OneEnd'
  BY <1>1 DEF FateCore, Fate, OneEnd, outcomeVars
<1> QED BY <1>10, <1>11, <1>12, <1>13 DEF Fate

\* The file is complete: its mail is no longer fresh, and still open.
LEMMA FateCommits ==
  ASSUME FateCore, [Next]_vars, ~Mishap, NEW t \in Thread, CommitFile(t)
  PROVE  Fate'
<1> DEFINE w == writing[t]
<1>1. /\ w \in FileIDs /\ w \in IDs /\ w # 0 /\ files[w].msg = item[t]
      /\ files' = [files EXCEPT ![w].times = 1] /\ writing' = [writing EXCEPT ![t] = 0]
      /\ pc[t] = "write" /\ pc'[t] = "put"
      /\ UNCHANGED <<cpc, cfile, cwhole, cmsg, item, outcomeVars>>
  <2>1. pc[t] = "write"
    BY DEF CommitFile
  <2>2. w \in FileIDs /\ w \in IDs /\ w # 0 /\ files[w] = [msg |-> item[t], times |-> 0]
    BY <2>1, WritingFile DEF FateCore, CoreInv
  <2>3. pc'[t] = "put"
    BY DEF CommitFile, Goto, FateCore, CoreInv, PoolInv, TypeOK, TransTypeOK
  <2> QED BY <2>1, <2>2, <2>3 DEF CommitFile, cacheVars
<1>2. \A i \in IDs : i # w => files'[i] = files[i]
  BY <1>1 DEF FateCore, CoreInv, PoolInv, TypeOK, RetryTypeOK
<1>3. files'[w].msg = item[t]
  BY <1>1, FileMessages DEF FateCore, CoreInv, PoolInv, TypeOK, RetryTypeOK, File
<1> HIDE DEF w
<1>4. /\ \A i \in FileIDs' : i \in FileIDs /\ files'[i].msg = files[i].msg
      /\ \A i \in Complete' : i = w \/ (i \in Complete /\ files'[i] = files[i])
  BY <1>1, <1>2, <1>3 DEF Complete, FileIDs
<1>5. \A m \in Mail : Fresh(m)' => Fresh(m)
  BY FreshBack DEF FateCore
<1>6. Ended' = Ended /\ \A m \in Mail : BeingBounced(m)' <=> BeingBounced(m)
  BY <1>1 DEF Ended, outcomeVars, BeingBounced, Original
<1>7. \A m \in Mail : Original(m)' = Original(m)
  BY DEF Original
<1>8. \A m \in Mail : item[t] = Original(m) => ~Fresh(m)'
  BY <1>1, <1>7 DEF Fresh
<1>9. FreshIsOpen'
  <2>1. ASSUME NEW m \in Mail, Fresh(m)', NEW i \in FileIDs', files'[i].msg = Original(m)
        PROVE  \E s \in Thread : writing'[s] = i
    <3>1. i # w
      BY <1>3, <1>8, <2>1
    <3>2. PICK s \in Thread : writing[s] = i
      BY <1>4, <1>5, <2>1 DEF FateCore, Fate, FreshIsOpen
    <3>3. s # t
      BY <3>1, <3>2 DEF w
    <3> QED BY <1>1, <3>2, <3>3 DEF FateCore, CoreInv, PoolInv, TypeOK, RetryTypeOK
  <2>2. ASSUME NEW m \in Mail, Fresh(m)'
        PROVE  m \notin Ended' /\ ~BeingBounced(m)'
    BY <1>5, <1>6, <2>2 DEF FateCore, Fate, FreshIsOpen
  <2> QED BY <1>7, <2>1, <2>2 DEF FreshIsOpen
<1>10. CachedIsOpen'
  <2>1. ASSUME NEW i \in Complete', ~files'[i].msg.bounce
        PROVE  (cpc' = "remove" /\ cfile' = i) \/ files'[i].msg.mail \notin Ended'
    <3>1. CASE i = w
      <4>1. item[t].mail \in Mail /\ Fresh(item[t].mail)
        BY <1>1, <1>3, <2>1, <3>1, FreshMail
      <4> QED BY <1>3, <1>6, <3>1, <4>1 DEF FateCore, Fate, FreshIsOpen
    <3>2. CASE i # w
      BY <1>1, <1>4, <1>6, <2>1, <3>2 DEF FateCore, Fate, CachedIsOpen
    <3> QED BY <3>1, <3>2
  <2>2. \A i, j \in FileIDs' :
          ~files'[i].msg.bounce /\ files'[j].msg = files'[i].msg => i = j
    BY <1>4 DEF FateCore, Fate, CachedIsOpen
  <2> QED BY <2>1, <2>2 DEF CachedIsOpen
<1>11. BouncedIsOpen'
  BY <1>4, <1>6, <1>7 DEF FateCore, Fate, BouncedIsOpen
<1>12. OneEnd'
  BY <1>1 DEF FateCore, Fate, OneEnd, outcomeVars
<1> QED BY <1>9, <1>10, <1>11, <1>12 DEF Fate

\* The cache thread removes a file, or counts an attempt in it.
LEMMA CacheFiles ==
  ASSUME CoreInv, CacheDefers \/ CacheRefused \/ CacheRemoves
  PROVE  /\ cfile \in Complete /\ files[cfile].msg = cmsg
         /\ NoNewFile
         /\ CacheRefused \/ CacheRemoves => cfile \notin FileIDs'
         /\ UNCHANGED writing
         /\ (CacheRefused /\ ~cwhole) \/ UNCHANGED outcomeVars
<1>1. /\ cpc \in {"dispatch", "remove"} /\ cfile \in Complete /\ files[cfile].msg = cmsg
      /\ cfile \in FileIDs /\ cfile \in IDs
  BY DEF CacheDefers, CacheRefused, CacheRemoves, CoreInv, FileInv, Complete, FileIDs
<1>2. \A i \in IDs : i # cfile => files'[i] = files[i]
  BY <1>1 DEF CacheDefers, CacheRefused, CacheRemoves, RemoveFile, CoreInv, PoolInv, TypeOK,
              RetryTypeOK
<1>3. CacheDefers => files'[cfile].msg = files[cfile].msg
  BY <1>1, FileMessages DEF CacheDefers, CoreInv, PoolInv, TypeOK, RetryTypeOK, File
<1>4. CacheRefused \/ CacheRemoves => files'[cfile] = NoFile
  BY <1>1 DEF CacheRefused, CacheRemoves, RemoveFile, CoreInv, PoolInv, TypeOK, RetryTypeOK
<1>5. UNCHANGED writing /\ ((CacheRefused /\ ~cwhole) \/ UNCHANGED outcomeVars)
  BY DEF CacheDefers, CacheRefused, CacheRemoves
<1>6. NoNewFile
  BY <1>1, <1>2, <1>3, <1>4, <1>5 DEF NoNewFile, FileIDs, Complete
<1> QED BY <1>1, <1>4, <1>5, <1>6 DEF FileIDs

\* An attempt more, or the end of a delivery from the cache queue.
LEMMA FateCacheFile ==
  ASSUME FateCore, [Next]_vars, ~Mishap, CacheDefers \/ CacheRemoves
  PROVE  Fate'
<1>1. /\ NoNewFile /\ UNCHANGED outcomeVars
      /\ cpc = "remove" => cfile \notin FileIDs'
  BY CacheFiles DEF FateCore, CacheDefers, CacheRemoves
<1>2. \A m \in Mail : Fresh(m)' => Fresh(m)
  BY FreshBack DEF FateCore
<1>3. \A m \in Mail : BeingBounced(m)' => BeingBounced(m)
  BY DEF BeingBounced, CacheDefers, CacheRemoves, Skip, CacheGoto
<1>4. \A i \in Complete' : ~(cpc = "remove" /\ cfile = i)
  BY <1>1 DEF Complete
<1> QED BY <1>1, <1>2, <1>3, <1>4, FateStays DEF FateCore

\* The file of a message that is refused goes: it had no other, and no end yet,
\* and has one now if it was read cut.
LEMMA FateRefused ==
  ASSUME FateCore, [Next]_vars, ~Mishap, CacheRefused
  PROVE  Fate'
<1>1. /\ NoNewFile /\ UNCHANGED writing
      /\ cfile \in Complete /\ files[cfile].msg = cmsg /\ cfile \notin FileIDs'
  BY CacheFiles DEF FateCore
<1>2. cpc = "dispatch" /\ cpc' = "bounce" /\ UNCHANGED <<cmsg, cfile, cwhole>>
  BY DEF CacheRefused, CacheGoto
<1>3. \A m \in Mail : Fresh(m)' => Fresh(m)
  BY FreshBack DEF FateCore
<1>4. CASE cwhole
  <2>1. Ended' = Ended /\ UNCHANGED outcomeVars
    BY <1>4 DEF Ended, outcomeVars, CacheRefused
  <2>2. \A m \in Mail : Original(m)' = Original(m) /\ Original(m).mail = m
                        /\ ~Original(m).bounce
    BY DEF Original
  <2>3. \A m \in Mail : BeingBounced(m)' => cmsg = Original(m)
    BY <1>2, <2>2 DEF BeingBounced
  <2>4. FreshIsOpen'
    <3>1. ASSUME NEW m \in Mail, Fresh(m)', NEW i \in FileIDs', files'[i].msg = Original(m)
          PROVE  \E s \in Thread : writing'[s] = i
      BY <1>1, <1>3, <3>1 DEF FateCore, Fate, FreshIsOpen, NoNewFile
    <3>2. ASSUME NEW m \in Mail, Fresh(m)'
          PROVE  m \notin Ended' /\ ~BeingBounced(m)'
      BY <1>1, <1>3, <2>1, <2>3, <3>2, CompleteIsStale DEF FateCore, Fate, FreshIsOpen
    <3> QED BY <2>2, <3>1, <3>2 DEF FreshIsOpen
  <2>5. CachedIsOpen'
    <3>1. Complete' \subseteq FileIDs'
      BY DEF Complete
    <3> QED BY <1>1, <1>2, <2>1, <3>1 DEF FateCore, Fate, CachedIsOpen, NoNewFile
  <2>6. BouncedIsOpen'
    <3>1. ASSUME NEW m \in Mail, BeingBounced(m)'
          PROVE  m \notin Ended' /\ \A i \in FileIDs' : files'[i].msg # Original(m)
      <4>1. cmsg = Original(m)
        BY <2>3, <3>1
      <4>2. m \notin Ended
        BY <1>1, <1>2, <2>2, <4>1 DEF FateCore, Fate, CachedIsOpen
      <4>3. \A i \in FileIDs : files[i].msg = Original(m) => i = cfile
        BY <1>1, <2>2, <4>1 DEF FateCore, Fate, CachedIsOpen, Complete
      <4> QED BY <1>1, <2>1, <4>2, <4>3 DEF NoNewFile
    <3> QED BY <2>2, <3>1 DEF BouncedIsOpen
  <2>7. OneEnd'
    BY <2>1 DEF FateCore, Fate, OneEnd, outcomeVars
  <2> QED BY <2>4, <2>5, <2>6, <2>7 DEF Fate
<1>5. \A m \in Mail : ~BeingBounced(m)' \/ cwhole
  BY <1>2 DEF BeingBounced
<1>6. CASE ~cwhole /\ cmsg.bounce
  <2>1. UNCHANGED outcomeVars
    BY <1>6 DEF CacheRefused, Mangle, MailIn, outcomeVars
  <2> QED BY <1>1, <1>2, <1>3, <1>5, <1>6, <2>1, FateStays DEF FateCore
<1>7. CASE ~cwhole /\ ~cmsg.bounce
  <2>1. cmsg \in Msg
    BY <1>1, FileMessages DEF FateCore, Complete
  <2>2. PICK e \in Mail : cmsg = Original(e)
    BY <1>7, <2>1 DEF Msg, Original
  <2>3. ~Original(e).bounce /\ Original(e).mail = e
    BY DEF Original
  <2>4. e \notin Ended /\ ~Fresh(e)
    BY <1>1, <1>2, <2>2, <2>3, CompleteIsStale DEF FateCore, Fate, CachedIsOpen
  <2>5. EndOf(e)
    BY <1>7, <2>2, <2>3 DEF CacheRefused, Mangle, MailIn, EndOf
  <2>6. \A i \in Complete : files[i].msg = Original(e) => i = cfile
    BY <1>1, <2>2, <2>3 DEF FateCore, Fate, CachedIsOpen, Complete
  <2>7. \A i \in Complete' :
          (cpc = "remove" /\ cfile = i) \/ files[i].msg = Original(e)
            => cpc' = "remove" /\ cfile' = i
    BY <1>1, <1>2, <2>6 DEF NoNewFile, Complete
  <2>8. ~Fresh(e)' /\ \A i \in FileIDs : files[i].msg \in Msg
    BY <1>3, <2>4, FileMessages DEF FateCore
  <2> QED BY <1>1, <1>3, <1>5, <1>7, <2>4, <2>5, <2>7, <2>8, FateEnds DEF FateCore
<1> QED BY <1>4, <1>6, <1>7

\* The cache thread delivers or bounces a message, or gives it up; to one that was
\* read cut nothing more happens once its file has been removed.
LEMMA FateCacheEnds ==
  ASSUME FateCore, [Next]_vars, ~Mishap, CacheDelivers \/ CacheBounces \/ CacheGivesUp
  PROVE  Fate'
<1>1. /\ cpc \in {"dispatch", "bounce"} /\ cpc' # "bounce" /\ cmsg \in Msg
      /\ cpc = "dispatch" => /\ cpc' = "remove" /\ cfile' = cfile
                             /\ cfile \in Complete /\ files[cfile].msg = cmsg
      /\ UNCHANGED <<files, writing>>
  BY DEF CacheDelivers, CacheBounces, CacheGivesUp, CacheGoto, Skip, FateCore, CoreInv,
         FileInv
<1>2. NoNewFile
  BY <1>1 DEF NoNewFile, FileIDs, Complete
<1>3. \A m \in Mail : Fresh(m)' => Fresh(m)
  BY FreshBack DEF FateCore
<1>4. \A m \in Mail : ~BeingBounced(m)'
  BY <1>1 DEF BeingBounced
<1>5. CASE cmsg.bounce \/ (cpc = "bounce" /\ ~cwhole)
  <2>1. UNCHANGED outcomeVars
    BY <1>5 DEF CacheDelivers, CacheBounces, CacheGivesUp, Deliver, Mangle, GiveUp, Bounce,
                BounceCut, MailIn, outcomeVars
  <2> QED BY <1>1, <1>2, <1>3, <1>4, <2>1, FateStays DEF FateCore
<1>6. CASE ~cmsg.bounce /\ ~(cpc = "bounce" /\ ~cwhole)
  <2>1. PICK e \in Mail : cmsg = Original(e)
    BY <1>1, <1>6 DEF Msg, Original
  <2>2. ~Original(e).bounce /\ Original(e).mail = e
    BY DEF Original
  <2>3. /\ e \notin Ended /\ ~Fresh(e)
        /\ \A i \in Complete : files[i].msg = Original(e) => cpc = "dispatch" /\ cfile = i
    <3>1. CASE cpc = "bounce"
      <4>1. BeingBounced(e)
        BY <1>6, <2>1, <3>1 DEF BeingBounced
      <4> QED BY <4>1 DEF FateCore, Fate, BouncedIsOpen, FreshIsOpen, Complete
    <3>2. CASE cpc = "dispatch"
      <4>1. cfile \in Complete /\ files[cfile].msg = Original(e)
        BY <1>1, <2>1, <3>2
      <4>2. ~Fresh(e)
        BY <4>1, CompleteIsStale
      <4>3. e \notin Ended
        BY <2>2, <3>2, <4>1 DEF FateCore, Fate, CachedIsOpen
      <4>4. \A i \in Complete : files[i].msg = Original(e) => i = cfile
        BY <2>2, <4>1 DEF FateCore, Fate, CachedIsOpen, Complete
      <4> QED BY <3>2, <4>2, <4>3, <4>4
    <3> QED BY <1>1, <3>1, <3>2
  <2>4. EndOf(e)
    BY <1>6, <2>1, <2>2
       DEF CacheDelivers, CacheBounces, CacheGivesUp, Deliver, Mangle, GiveUp, Bounce,
           MailIn, EndOf
  <2>5. \A i \in Complete' :
          (cpc = "remove" /\ cfile = i) \/ files[i].msg = Original(e)
            => cpc' = "remove" /\ cfile' = i
    BY <1>1, <1>2, <2>3 DEF NoNewFile, Complete
  <2>6. ~Fresh(e)' /\ \A i \in FileIDs : files[i].msg \in Msg
    BY <1>3, <2>3, FileMessages DEF FateCore
  <2> QED BY <1>2, <1>3, <1>4, <2>3, <2>4, <2>5, <2>6, FateEnds DEF FateCore
<1> QED BY <1>5, <1>6

LEMMA FateStep ==
  ASSUME FateCore, [Next]_vars, ~Mishap
  PROVE  Fate'
<1>1. CASE \E t \in Thread : Transport(t)
  <2>1. UNCHANGED <<files, writing, outcomeVars, cfile, cpc, cwhole, cmsg>>
    BY <1>1 DEF Transport, retryVars, cacheVars
  <2> QED BY <2>1, FateQuiet
<1>2. CASE Others
  <2>1. UNCHANGED <<files, writing, outcomeVars, cfile, cpc, cwhole, cmsg>>
    BY <1>2 DEF Others, retryVars, cacheVars
  <2> QED BY <2>1, FateQuiet
<1>3. CASE \E t \in Thread : HookDefers(t) \/ HookSignal(t)
  <2>1. UNCHANGED <<files, writing, outcomeVars, cfile, cpc, cwhole, cmsg>>
    BY <1>3 DEF HookDefers, HookSignal, retryVars, cacheVars
  <2> QED BY <2>1, FateQuiet
<1>4. CASE \E t \in Thread :
             HookDelivers(t) \/ HookGivesUp(t) \/ HookBounces(t) \/ SaveFails(t)
  BY <1>4, FateHookEnds
<1>5. CASE \E t \in Thread : OpenFile(t)
  BY <1>5, FateOpens
<1>6. CASE \E t \in Thread : CommitFile(t)
  BY <1>6, FateCommits
<1>7. CASE StartPass \/ EndPass \/ ReadFile \/ CacheSignal
  <2>1. /\ UNCHANGED <<files, writing, outcomeVars>>
        /\ cpc \notin {"remove", "bounce"} /\ cpc' # "bounce"
    BY <1>7 DEF StartPass, EndPass, ReadFile, CacheSignal, CacheGoto, Skip
  <2> QED BY <2>1, FateMoves
<1>8. CASE SkipFile \/ \E i \in IDs : StatFile(i)
  <2>1. /\ UNCHANGED <<files, writing, outcomeVars>>
        /\ cpc \notin {"remove", "bounce"} /\ cpc' # "bounce"
    BY <1>8 DEF SkipFile, StatFile, CacheGoto, Skip
  <2> QED BY <2>1, FateMoves
<1>9. CASE CacheDefers \/ CacheRemoves
  BY <1>9, FateCacheFile
<1>10. CASE CacheRefused
  BY <1>10, FateRefused
<1>11. CASE CacheDelivers \/ CacheBounces \/ CacheGivesUp
  BY <1>11, FateCacheEnds
<1>12. CASE UNCHANGED vars
  <2>1. UNCHANGED <<files, writing, outcomeVars, cfile, cpc, cwhole, cmsg>>
    BY <1>12 DEF vars, retryVars, cacheVars
  <2> QED BY <2>1, FateQuiet
<1> QED BY <1>1, <1>2, <1>3, <1>4, <1>5, <1>6, <1>7, <1>8, <1>9, <1>10, <1>11, <1>12
        DEF Next, Live, Hook, CacheThread

\* What becomes of a mail is open until one step decides it, before the first
\* mishap.
THEOREM FateCorrect == Spec => [](mishaps = 0 => Fate)
<1>1. Init => Fate
  <2>1. ASSUME Init
        PROVE  /\ FileIDs = {} /\ Complete = {} /\ Ended = {}
               /\ \A m \in Mail : ~BeingBounced(m)
    BY <2>1 DEF Init, RetryInit, FileIDs, Complete, Ended, BeingBounced
  <2> QED BY <2>1 DEF Init, RetryInit, Fate, FreshIsOpen, CachedIsOpen, BouncedIsOpen, OneEnd
<1>2. CoreInv /\ NodeInv /\ (mishaps = 0 => Fate) /\ [Next]_vars => (mishaps = 0 => Fate)'
  <2>1. SUFFICES ASSUME CoreInv, NodeInv, mishaps = 0 => Fate, [Next]_vars, mishaps' = 0
                 PROVE  Fate'
    OBVIOUS
  <2>2. ~Mishap
    BY <2>1, DeliveryAssumption DEF Mishap, CoreInv, PoolInv, TypeOK
  <2>3. mishaps = 0
    BY <2>1, <2>2 DEF Next, Live, vars
  <2> QED BY <2>1, <2>2, <2>3, FateStep DEF FateCore
<1> QED BY <1>1, <1>2, CoreCorrect, NodesCorrect, PTL DEF Spec

\* However threads, hook and cache queue interleave, a mail is delivered, or
\* bounced, given up, or read cut, once.
THEOREM OneOutcomeHolds == Spec => []OneOutcome
<1>1. (mishaps = 0 => Fate) => OneOutcome
  BY DEF Fate, OneEnd, OneOutcome
<1> QED BY <1>1, FateCorrect, PTL

-----------------------------------------------------------------------------
(* The refinement.                                                         *)

\* What the refinement mapping makes of the cache queue.
Cached == {m \in Mail : InFile(m) \/ BeingBounced(m)}

\* All that is needed of a state to follow a step from it.
CustodyCore == CoreInv /\ NodeInv /\ KeptInv /\ (mishaps = 0 => Fate)

\* The steps that neither complete nor remove a file leave the cache queue as it
\* is, but for a bounce that begins or ends.
LEMMA SameFiles ==
  ASSUME \A i \in Complete' : i \in Complete /\ files'[i].msg = files[i].msg,
         \A i \in Complete : i \in Complete' /\ files'[i].msg = files[i].msg
  PROVE  \A m : InFile(m)' <=> InFile(m)
BY DEF InFile, Original

LEMMA CachedStays ==
  ASSUME \A m : InFile(m)' <=> InFile(m),
         \/ UNCHANGED <<cpc, cwhole, cmsg>>
         \/ cpc # "bounce" /\ cpc' # "bounce"
  PROVE  Cached' = Cached
BY DEF Cached, BeingBounced, Original

\* A message and the mail it counts for.
LEMMA MailOfMsg ==
  ASSUME NEW x \in Msg
  PROVE  \/ x.bounce /\ MailIn(x) = {} /\ \A m : x # Original(m)
         \/ /\ ~x.bounce /\ x.mail \in Mail /\ MailIn(x) = {x.mail}
            /\ x = Original(x.mail) /\ \A m : x = Original(m) => m = x.mail
BY DEF Msg, MailIn, Original

\* A thread's mail is in the mail queue, and until the first mishap it is fresh.
LEMMA HookMail ==
  ASSUME CustodyCore, NEW t \in Thread, pc[t] \in {"hook", "open", "write"},
         ~item[t].bounce
  PROVE  /\ item[t].mail \in stored /\ item[t].mail \in Mail
         /\ MailIn(item[t]) = {item[t].mail} /\ item[t] = Original(item[t].mail)
         /\ mishaps = 0 => /\ item[t].mail \notin Ended
                          /\ item[t].mail \notin Cached
<1> USE DEF CustodyCore, CoreInv, PoolInv, TypeOK, TransTypeOK
<1>1. item[t] \in Msg /\ item[t] # NoMsg
  BY TransporterAssumption DEF ThreadInv, Resting
<1>2. item[t].mail \in stored
  BY <1>1 DEF NodeInv
<1>3. /\ item[t] = Original(item[t].mail) /\ item[t].mail \in Mail
      /\ MailIn(item[t]) = {item[t].mail}
  BY <1>1, MailOfMsg
<1>4. ASSUME mishaps = 0
      PROVE  item[t].mail \notin Ended /\ item[t].mail \notin Cached
  <2>1. FateCore
    BY <1>4 DEF FateCore
  <2>2. Fresh(item[t].mail)
    BY <2>1, FreshMail
  <2>3. ~InFile(item[t].mail)
    BY <1>3, <2>1, <2>2, CompleteIsStale DEF InFile
  <2> QED BY <1>3, <1>4, <2>2, <2>3 DEF Fate, FreshIsOpen, Cached
<1> QED BY <1>2, <1>3, <1>4

\* The transporter's own steps: only Put concerns a mail.
LEMMA CustodyTransport ==
  ASSUME CustodyCore, NEW t \in Thread, Transport(t), UNCHANGED <<mishaps, dropped>>
  PROVE  Custody!Next \/ UNCHANGED Custody!vars
<1> USE DEF CustodyCore, CoreInv, PoolInv, TypeOK, TransTypeOK
<1>1. /\ UNCHANGED <<files, cpc, cwhole, cmsg, delivered, bounced, given_up, mangled>>
      /\ UNCHANGED Cached
  <2>1. UNCHANGED <<files, cpc, cwhole, cmsg, delivered, bounced, given_up, mangled>>
    BY DEF Transport, retryVars, cacheVars, outcomeVars
  <2> QED BY <2>1 DEF Cached, InFile, BeingBounced, Complete, FileIDs, Original
<1>2. CASE Put(t) /\ ~item[t].bounce
  <2>1. /\ pc[t] = "put" /\ stored' = stored \ {item[t].mail}
        /\ item[t] \in Msg /\ item[t] # NoMsg
    BY <1>2, TransporterAssumption DEF Put, ThreadInv, Resting
  <2>2. item[t].mail \in stored /\ item[t].mail \in Mail
    BY <1>2, <2>1 DEF NodeInv
  <2>3. item[t].mail \in Cached \cup Ended \cup dropped
    BY <1>2, <2>1, <2>2 DEF KeptInv, Settled, Cached
  <2>4. Custody!Erase(item[t].mail)
    BY <1>1, <2>1, <2>2, <2>3
       DEF Custody!Erase, Custody!Ended, Custody!outcomes, Cached, Ended
  <2> QED BY <2>2, <2>4 DEF Custody!Next
<1>3. CASE ~(Put(t) /\ ~item[t].bounce)
  <2>1. UNCHANGED stored
    BY <1>3 DEF Transport, StartWait, Get, Dequeue, NotServed, Leave, Put, sourceVars
  <2> QED BY <1>1, <2>1 DEF Custody!vars, Custody!outcomes, Cached
<1> QED BY <1>2, <1>3

\* A step of the hook: an end, a file completed, or nothing that can be seen.
LEMMA CustodyHook ==
  ASSUME CustodyCore, NEW t \in Thread, Hook(t), [Next]_vars, UNCHANGED <<mishaps, dropped>>
  PROVE  Custody!Next \/ UNCHANGED Custody!vars
<1> USE DEF CustodyCore, CoreInv, PoolInv, TypeOK, TransTypeOK
<1> USE DEF Custody!vars, Custody!outcomes, Custody!Ended, Ended
<1>1. UNCHANGED <<stored, cpc, cwhole, cmsg>>
  BY DEF Hook, HookDelivers, HookDefers, HookBounces, HookGivesUp, HookSignal, OpenFile,
         CommitFile, SaveFails, sourceVars, retryVars, cacheVars
<1>2. CASE HookDelivers(t) \/ HookGivesUp(t) \/ HookBounces(t) \/ SaveFails(t)
  <2>1. pc[t] \in {"hook", "open", "write"} /\ item[t] \in Msg
    BY <1>2, TransporterAssumption
       DEF HookDelivers, HookGivesUp, HookBounces, SaveFails, ThreadInv, Resting
  <2>2. UNCHANGED Cached
    <3>1. CASE UNCHANGED files
      BY <1>1, <3>1 DEF Cached, InFile, BeingBounced, Complete, FileIDs, Original
    <3>2. CASE SaveFails(t) /\ files' # files
      <4>1. \A i \in IDs : i # writing[t] => files'[i] = files[i]
        BY <3>2 DEF SaveFails
      <4>2. \A i \in IDs : i = writing[t] => i \notin Complete /\ i \notin Complete'
        <5>1. \A i \in IDs : i = writing[t] => i \notin Complete
          <6>1. CASE pc[t] = "write"
            BY <6>1, WritingFile
          <6>2. CASE pc[t] # "write"
            <7>1. writing[t] = 0
              BY <6>2 DEF FileInv
            <7> QED BY <7>1 DEF IDs
          <6> QED BY <6>1, <6>2
        <5>2. \A i \in IDs : i = writing[t] => files'[i] = NoFile
          BY <3>2 DEF SaveFails
        <5> QED BY <5>1, <5>2 DEF Complete, FileIDs
      <4>3. \A i \in Complete : i \in Complete' /\ files'[i].msg = files[i].msg
        BY <4>1, <4>2 DEF Complete, FileIDs
      <4>4. \A i \in Complete' : i \in Complete /\ files'[i].msg = files[i].msg
        BY <4>1, <4>2 DEF Complete, FileIDs
      <4> QED BY <1>1, <4>3, <4>4, SameFiles, CachedStays
    <3> QED BY <1>2, <3>1, <3>2 DEF HookDelivers, HookGivesUp, HookBounces
  <2>3. CASE item[t].bounce
    <3>1. MailIn(item[t]) = {}
      BY <2>3 DEF MailIn
    <3> QED BY <1>1, <1>2, <2>2, <2>3, <3>1
            DEF HookDelivers, HookGivesUp, HookBounces, SaveFails, Deliver, GiveUp, Bounce,
                Cached
  <2>4. CASE ~item[t].bounce
    <3> DEFINE m == item[t].mail
    <3>1. /\ m \in stored /\ m \in Mail /\ MailIn(item[t]) = {m}
          /\ mishaps = 0 => m \notin Ended
      BY <2>1, <2>4, HookMail
    <3>2. /\ \/ delivered' = delivered \cup {m} /\ UNCHANGED <<bounced, given_up>>
             \/ bounced' = bounced \cup {m} /\ UNCHANGED <<delivered, given_up>>
             \/ given_up' = given_up \cup {m} /\ UNCHANGED <<delivered, bounced>>
          /\ UNCHANGED mangled
      BY <1>2, <3>1 DEF HookDelivers, HookGivesUp, HookBounces, SaveFails, Deliver, GiveUp,
                        Bounce
    <3> HIDE DEF m
    <3>3. Custody!Open(m)
      BY <3>1 DEF Custody!Open
    <3>4. Custody!Deliver(m) \/ Custody!Refuse(m)
      BY <1>1, <2>2, <3>2, <3>3 DEF Custody!Deliver, Custody!Refuse, Cached
    <3> QED BY <3>1, <3>4 DEF Custody!Next
  <2> QED BY <2>3, <2>4
<1>3. CASE HookDefers(t) \/ HookSignal(t)
  <2>1. UNCHANGED <<files, delivered, bounced, given_up, mangled>>
    BY <1>3 DEF HookDefers, HookSignal, retryVars, outcomeVars
  <2> QED BY <1>1, <2>1 DEF InFile, BeingBounced, Complete, FileIDs, Original
<1>4. CASE OpenFile(t)
  <2>1. /\ g_mess_id' \in IDs /\ g_mess_id' \notin FileIDs
        /\ files' = [files EXCEPT ![g_mess_id'] = [msg |-> item[t], times |-> 0]]
    <3>1. g_mess_id' \notin FileIDs
      BY <1>4 DEF OpenFile, FileInv, RetryTypeOK
    <3>2. g_mess_id' \in IDs
      BY <1>4, RetryQueueAssumption DEF OpenFile, RetryTypeOK, IDs
    <3> QED BY <1>4, <3>1, <3>2 DEF OpenFile
  <2>2. \A i \in IDs : i # g_mess_id' => files'[i] = files[i]
    BY <2>1 DEF RetryTypeOK
  <2>3. files'[g_mess_id'].times = 0
    BY <2>1 DEF RetryTypeOK
  <2>4. /\ \A i \in Complete' : i \in Complete /\ files'[i].msg = files[i].msg
        /\ \A i \in Complete : i \in Complete' /\ files'[i].msg = files[i].msg
    BY <2>1, <2>2, <2>3 DEF Complete, FileIDs
  <2>5. UNCHANGED Cached
    BY <1>1, <2>4, SameFiles, CachedStays
  <2>6. UNCHANGED <<delivered, bounced, given_up, mangled>>
    BY <1>4 DEF OpenFile, outcomeVars
  <2> QED BY <1>1, <2>5, <2>6 DEF Cached
<1>5. CASE CommitFile(t)
  <2> DEFINE w == writing[t]
  <2>1. /\ pc[t] = "write" /\ w \in IDs /\ files[w] = [msg |-> item[t], times |-> 0]
        /\ files' = [files EXCEPT ![w].times = 1]
        /\ UNCHANGED <<delivered, bounced, given_up, mangled>>
    BY <1>5, WritingFile DEF CommitFile, outcomeVars
  <2>2. files'[w] = [msg |-> item[t], times |-> 1]
    BY <2>1 DEF RetryTypeOK
  <2>3. item[t] \in Msg
    BY <2>1, TransporterAssumption DEF ThreadInv, Resting
  <2>4. files'[w] # NoFile /\ files'[w].times > 0 /\ files'[w].msg = item[t]
    <3>1. files'[w] \in File
      BY <2>2, <2>3, RetryQueueAssumption DEF File
    <3> QED BY <2>2, <3>1, RetryQueueAssumption
  <2>5. \A i \in IDs : i # w => files'[i] = files[i]
    BY <2>1 DEF RetryTypeOK
  <2>6. w \notin Complete
    BY <2>1 DEF Complete
  <2> HIDE DEF w
  <2>7. /\ w \in Complete' /\ files'[w].msg = item[t]
        /\ \A i : i # w => (i \in Complete' <=> i \in Complete)
        /\ \A i \in Complete : files'[i].msg = files[i].msg
    BY <2>1, <2>4, <2>5, <2>6 DEF Complete, FileIDs
  <2>8. \A m : InFile(m)' <=> InFile(m) \/ item[t] = Original(m)
    BY <2>6, <2>7 DEF InFile, Original
  <2>9. \A m : BeingBounced(m)' <=> BeingBounced(m)
    BY <1>1 DEF BeingBounced, Original
  <2>10. CASE item[t].bounce
    <3>1. Cached' = Cached
      BY <2>3, <2>8, <2>9, <2>10, MailOfMsg DEF Cached
    <3> QED BY <1>1, <2>1, <3>1 DEF Cached
  <2>11. CASE ~item[t].bounce
    <3> DEFINE m == item[t].mail
    <3>1. /\ m \in stored /\ m \in Mail /\ item[t] = Original(m)
          /\ mishaps = 0 => m \notin Ended /\ m \notin Cached
      BY <2>1, <2>11, HookMail
    <3>2. \A k : item[t] = Original(k) <=> k = m
      BY <2>3, <2>11, MailOfMsg
    <3> HIDE DEF m
    <3>3. Cached' = Cached \cup {m}
      BY <2>8, <2>9, <3>1, <3>2 DEF Cached
    <3>4. Custody!Cache(m)
      BY <1>1, <2>1, <3>1, <3>3 DEF Custody!Cache, Cached
    <3> QED BY <3>1, <3>4 DEF Custody!Next
  <2> QED BY <2>10, <2>11
<1> QED BY <1>2, <1>3, <1>4, <1>5 DEF Hook

\* A death: what the cache thread was about to bounce is dropped.
LEMMA CustodyDie ==
  ASSUME CustodyCore, Die, mishaps' = mishaps + 1
  PROVE  Custody!Next
<1> USE DEF CustodyCore, CoreInv, PoolInv, TypeOK, TransTypeOK
<1>1. /\ UNCHANGED <<stored, files, delivered, bounced, given_up, mangled>>
      /\ cpc' = "rest"
  BY DEF Die, TransRestart, RetryRestart, outcomeVars
<1>2. \A m : /\ InFile(m)' <=> InFile(m)
            /\ ~BeingBounced(m)'
  BY <1>1 DEF InFile, Complete, FileIDs, BeingBounced, Original
<1>3. CASE cpc = "bounce" /\ cwhole /\ ~cmsg.bounce
  <2>1. cmsg \in Msg
    BY <1>3 DEF FileInv
  <2> DEFINE m == cmsg.mail
  <2>2. /\ m \in Mail /\ MailIn(cmsg) = {m}
        /\ \A k : BeingBounced(k) <=> k = m
    BY <1>3, <2>1, MailOfMsg DEF BeingBounced
  <2>3. dropped' = dropped \cup {m}
    BY <1>3, <2>2 DEF Die
  <2> HIDE DEF m
  <2>4. m \in Cached /\ Cached' \in {Cached, Cached \ {m}}
    BY <1>2, <2>2 DEF Cached
  <2>5. Custody!Mishap
    BY <1>1, <2>3, <2>4 DEF Custody!Mishap, Custody!outcomes, Cached
  <2> QED BY <2>5 DEF Custody!Next
<1>4. CASE ~(cpc = "bounce" /\ cwhole /\ ~cmsg.bounce)
  <2>1. \A k : ~BeingBounced(k)
    BY <1>4 DEF BeingBounced, Original
  <2>2. dropped' = dropped
    BY <1>4 DEF Die, MailIn
  <2>3. Cached' = Cached
    BY <1>2, <2>1 DEF Cached
  <2>4. Custody!Mishap
    BY <1>1, <2>2, <2>3 DEF Custody!Mishap, Custody!outcomes, Cached
  <2> QED BY <2>4 DEF Custody!Next
<1> QED BY <1>3, <1>4

\* A mishap: a death, or a file that stays, and its mail in the cache queue.
LEMMA CustodyMishap ==
  ASSUME CustodyCore, Mishap
  PROVE  Custody!Next
<1>1. mishaps' = mishaps + 1 /\ (Die \/ (RemoveFails /\ UNCHANGED dropped))
  BY DEF Mishap
<1>2. CASE Die
  BY <1>1, <1>2, CustodyDie
<1>3. CASE RemoveFails /\ UNCHANGED dropped
  <2>1. UNCHANGED <<stored, files, delivered, bounced, given_up, mangled>>
    BY <1>3 DEF RemoveFails, transVars, sourceVars, outcomeVars
  <2>2. \A m : InFile(m)' <=> InFile(m)
    BY <2>1 DEF InFile, Complete, FileIDs, Original
  <2>3. CASE cpc # "bounce" /\ cpc' # "bounce"
    <3>1. Cached' = Cached
      BY <2>2, <2>3, CachedStays
    <3>2. Custody!Mishap
      BY <1>1, <1>3, <2>1, <3>1 DEF Custody!Mishap, Custody!outcomes, Cached
    <3> QED BY <3>2 DEF Custody!Next
  <2>4. CASE cpc = "dispatch" /\ cpc' = "bounce" /\ UNCHANGED <<cwhole, cmsg>>
    <3>1. cfile \in Complete /\ files[cfile].msg = cmsg
      BY <2>4 DEF CustodyCore, CoreInv, FileInv
    <3>2. \A m : BeingBounced(m)' => InFile(m) /\ ~BeingBounced(m)
      BY <2>4, <3>1 DEF BeingBounced, InFile, Original
    <3>3. \A m : ~BeingBounced(m)
      BY <2>4 DEF BeingBounced
    <3>4. Cached' = Cached
      BY <2>2, <3>2, <3>3 DEF Cached
    <3>5. Custody!Mishap
      BY <1>1, <1>3, <2>1, <3>4 DEF Custody!Mishap, Custody!outcomes, Cached
    <3> QED BY <3>5 DEF Custody!Next
  <2> QED BY <1>3, <2>3, <2>4 DEF RemoveFails, CacheGoto, Skip
<1> QED BY <1>1, <1>2, <1>3

\* message_dequeue and the scan thread touch no mail and no file.
LEMMA CustodyOthers ==
  ASSUME Others, UNCHANGED <<mishaps, dropped>>
  PROVE  UNCHANGED Custody!vars
<1>1. UNCHANGED <<stored, files, cpc, cwhole, cmsg, delivered, bounced, given_up, mangled>>
  BY DEF Others, Load, LoadSignal, Broadcast, AddThread, AddFails, sourceVars, retryVars,
         cacheVars, outcomeVars
<1>2. UNCHANGED Cached
  BY <1>1 DEF Cached, InFile, BeingBounced, Complete, FileIDs, Original
<1> QED BY <1>1, <1>2 DEF Custody!vars, Custody!outcomes, Cached

\* What the cache thread does to the file it looks at.
LEMMA CacheFileOnly ==
  ASSUME CoreInv, CacheDefers \/ CacheRefused \/ CacheRemoves
  PROVE  /\ \A i \in Complete' : i \in Complete /\ files'[i].msg = files[i].msg
         /\ \A i \in Complete : i # cfile => i \in Complete' /\ files'[i].msg = files[i].msg
         /\ CacheDefers => cfile \in Complete'
<1> USE DEF CoreInv, PoolInv, TypeOK, RetryTypeOK
<1>1. /\ cfile \in Complete /\ cfile \in IDs /\ files[cfile] \in File
  BY CacheFiles DEF Complete, FileIDs
<1>2. \A i \in IDs : i # cfile => files'[i] = files[i]
  BY DEF CacheDefers, CacheRefused, CacheRemoves, RemoveFile
<1>3. CASE CacheDefers /\ files' # files
  <2>1. files[cfile].times \in 1..Retries
    BY <1>1, RetryQueueAssumption DEF Complete, File
  <2> DEFINE n == IF files[cfile].times < Retries THEN files[cfile].times + 1
                  ELSE files[cfile].times
  <2>2. n \in 1..Retries
    BY <2>1, RetryQueueAssumption
  <2>3. files' = [files EXCEPT ![cfile].times = n]
    BY <1>1, <1>3 DEF CacheDefers
  <2> HIDE DEF n
  <2>4. files'[cfile] = [msg |-> files[cfile].msg, times |-> n]
    BY <1>1, <2>3 DEF File
  <2>5. files'[cfile] \in File /\ files'[cfile].times > 0
    BY <1>1, <2>2, <2>4, RetryQueueAssumption DEF File
  <2>6. cfile \in Complete' /\ files'[cfile].msg = files[cfile].msg
    BY <1>1, <2>4, <2>5, RetryQueueAssumption DEF Complete, FileIDs
  <2> QED BY <1>1, <1>2, <2>6 DEF Complete, FileIDs
<1>4. CASE CacheRefused \/ CacheRemoves
  <2>1. files'[cfile] = NoFile
    BY <1>1, <1>4 DEF CacheRefused, CacheRemoves, RemoveFile
  <2>2. ~CacheDefers
    BY <1>1, <2>1, CacheFiles, <1>4 DEF CacheDefers, CacheRefused, CacheRemoves, Skip,
       CacheGoto
  <2> QED BY <1>1, <1>2, <2>1, <2>2 DEF Complete, FileIDs
<1>5. CASE CacheDefers /\ files' = files
  <2>1. Complete' = Complete
    BY <1>5 DEF Complete, FileIDs
  <2> QED BY <1>1, <1>5, <2>1
<1> QED BY <1>3, <1>4, <1>5

\* A step of the cache thread: an end, a file removed of a mail that has one, or
\* nothing that can be seen.
LEMMA CustodyCacheThread ==
  ASSUME CustodyCore, CacheThread, UNCHANGED <<mishaps, dropped>>
  PROVE  Custody!Next \/ UNCHANGED Custody!vars
<1> USE DEF CustodyCore, CoreInv
<1> USE DEF Custody!vars, Custody!outcomes, Custody!Ended, Ended
<1>1. UNCHANGED stored
  BY DEF CacheThread, StartPass, EndPass, StatFile, ReadFile, SkipFile, CacheDelivers,
         CacheDefers, CacheRefused, CacheRemoves, CacheBounces, CacheGivesUp, CacheSignal,
         transVars, sourceVars
<1>2. CASE UNCHANGED files /\ cpc # "bounce" /\ cpc' # "bounce"
  <2>1. UNCHANGED Cached
    BY <1>2 DEF Cached, InFile, BeingBounced, Complete, FileIDs, Original
  <2>2. CASE CacheDelivers
    <3>1. /\ cpc = "dispatch" /\ cfile \in Complete /\ files[cfile].msg = cmsg
          /\ cmsg \in Msg /\ UNCHANGED <<bounced, given_up>>
          /\ \/ delivered' = delivered \cup MailIn(cmsg) /\ UNCHANGED mangled
             \/ mangled' = mangled \cup MailIn(cmsg) /\ UNCHANGED delivered
      BY <2>2 DEF CacheDelivers, Deliver, Mangle, FileInv
    <3>2. CASE cmsg.bounce
      BY <1>1, <2>1, <3>1, <3>2 DEF MailIn, Cached
    <3>3. CASE ~cmsg.bounce
      <4> DEFINE m == cmsg.mail
      <4>1. m \in Mail /\ MailIn(cmsg) = {m} /\ cmsg = Original(m)
        BY <3>1, <3>3, MailOfMsg
      <4>2. mishaps = 0 => m \notin Ended
        BY <3>1, <3>3 DEF Fate, CachedIsOpen
      <4> HIDE DEF m
      <4>3. m \in Cached
        BY <3>1, <4>1 DEF Cached, InFile
      <4>4. Custody!Open(m)
        BY <4>2, <4>3 DEF Custody!Open, Cached
      <4>5. Custody!Deliver(m) \/ Custody!Mangle(m)
        BY <1>1, <2>1, <3>1, <4>1, <4>3, <4>4
           DEF Custody!Deliver, Custody!Mangle, Cached
      <4> QED BY <4>1, <4>5 DEF Custody!Next
    <3> QED BY <3>2, <3>3
  <2>3. CASE ~CacheDelivers
    <3>1. UNCHANGED <<delivered, bounced, given_up, mangled>>
      BY <1>2, <2>3 DEF CacheThread, StartPass, EndPass, StatFile, ReadFile, SkipFile,
              CacheDefers, CacheRefused, CacheRemoves, CacheBounces, CacheGivesUp,
              CacheSignal, CacheGoto, outcomeVars
    <3> QED BY <1>1, <2>1, <3>1 DEF Cached
  <2> QED BY <2>2, <2>3
<1>3. CASE CacheDefers
  <2>1. /\ cpc # "bounce" /\ cpc' # "bounce"
        /\ UNCHANGED <<delivered, bounced, given_up, mangled>>
    BY <1>3 DEF CacheDefers, Skip, CacheGoto, outcomeVars
  <2>2. \A i \in Complete : i \in Complete' /\ files'[i].msg = files[i].msg
    BY <1>3, CacheFileOnly
  <2>3. UNCHANGED Cached
    BY <1>3, <2>1, <2>2, CacheFileOnly, SameFiles, CachedStays
  <2> QED BY <1>1, <2>1, <2>3 DEF Cached
<1>4. CASE CacheRefused \/ CacheRemoves
  <2>1. /\ cpc \in {"dispatch", "remove"} /\ cfile \in Complete
        /\ files[cfile].msg = cmsg /\ cmsg \in Msg /\ cfile \notin Complete'
        /\ UNCHANGED <<delivered, bounced, given_up>>
    <3>1. cpc \in {"dispatch", "remove"}
      BY <1>4 DEF CacheRefused, CacheRemoves
    <3>2. UNCHANGED <<delivered, bounced, given_up>>
      BY <1>4 DEF CacheRefused, CacheRemoves, Mangle, outcomeVars
    <3> QED BY <1>4, <3>1, <3>2, CacheFiles DEF FileInv, Complete
  <2>2. \A k : ~BeingBounced(k)
    BY <2>1 DEF BeingBounced
  <2>3. \A k : cmsg # Original(k) => (InFile(k)' <=> InFile(k))
    BY <1>4, <2>1, CacheFileOnly DEF InFile, Original
  <2>4. \A k : cmsg # Original(k) => ~BeingBounced(k)'
    BY <1>4 DEF CacheRefused, CacheRemoves, Skip, CacheGoto, BeingBounced, Original
  <2>5. CASE cmsg.bounce
    <3>1. Cached' = Cached
      BY <2>1, <2>2, <2>3, <2>4, <2>5, MailOfMsg DEF Cached
    <3>2. UNCHANGED mangled
      BY <1>4, <2>5 DEF CacheRefused, CacheRemoves, Mangle, MailIn, outcomeVars
    <3> QED BY <1>1, <2>1, <3>1, <3>2 DEF Cached
  <2>6. CASE ~cmsg.bounce
    <3>1. PICK m \in Mail : /\ MailIn(cmsg) = {m} /\ cmsg = Original(m)
                            /\ \A k : k # m => cmsg # Original(k)
      BY <2>1, <2>6, MailOfMsg
    <3>2. m \in Cached
      BY <2>1, <3>1 DEF Cached, InFile
    <3>3. Cached' \in {Cached, Cached \ {m}}
      BY <2>2, <2>3, <2>4, <3>1, <3>2 DEF Cached
    <3>4. CASE CacheRefused /\ cwhole
      <4>1. BeingBounced(m)' /\ UNCHANGED mangled
        BY <3>1, <3>4 DEF CacheRefused, CacheGoto, BeingBounced, Original, outcomeVars
      <4>2. Cached' = Cached
        BY <2>2, <2>3, <2>4, <3>1, <3>2, <4>1 DEF Cached
      <4> QED BY <1>1, <2>1, <4>1, <4>2 DEF Cached
    <3>5. CASE CacheRefused /\ ~cwhole
      <4>1. mangled' = mangled \cup {m} /\ cpc = "dispatch"
        BY <3>1, <3>5 DEF CacheRefused, Mangle
      <4>2. mishaps = 0 => m \notin Ended
        <5>1. ~Original(m).bounce /\ Original(m).mail = m
          BY DEF Original
        <5> QED BY <2>1, <3>1, <4>1, <5>1 DEF Fate, CachedIsOpen
      <4>3. Custody!Mangle(m)
        BY <1>1, <2>1, <3>2, <3>3, <4>1, <4>2 DEF Custody!Mangle, Custody!Open, Cached
      <4> QED BY <3>1, <4>3 DEF Custody!Next
    <3>6. CASE CacheRemoves
      <4>1. m \in delivered \cup mangled /\ UNCHANGED mangled
        BY <3>1, <3>6 DEF CacheRemoves, FileInv, outcomeVars
      <4>2. CASE Cached' = Cached
        BY <1>1, <2>1, <4>1, <4>2 DEF Cached
      <4>3. CASE Cached' = Cached \ {m}
        <5>1. Custody!Uncache(m)
          BY <1>1, <2>1, <3>2, <4>1, <4>3 DEF Custody!Uncache, Cached
        <5> QED BY <3>1, <5>1 DEF Custody!Next
      <4> QED BY <3>3, <4>2, <4>3
    <3> QED BY <1>4, <3>4, <3>5, <3>6
  <2> QED BY <2>5, <2>6
<1>5. CASE CacheBounces \/ CacheGivesUp
  <2>1. /\ cpc = "bounce" /\ cpc' # "bounce" /\ cmsg \in Msg /\ UNCHANGED files
    BY <1>5 DEF CacheBounces, CacheGivesUp, Skip, CacheGoto, FileInv
  <2>2. \A k : (InFile(k)' <=> InFile(k)) /\ ~BeingBounced(k)'
    BY <2>1 DEF InFile, BeingBounced, Complete, FileIDs, Original
  <2>3. \A k : cmsg # Original(k) => ~BeingBounced(k)
    BY DEF BeingBounced
  <2>4. CASE cmsg.bounce \/ ~cwhole
    <3>1. UNCHANGED <<delivered, bounced, given_up, mangled>>
      BY <1>5, <2>4 DEF CacheBounces, CacheGivesUp, Bounce, BounceCut, GiveUp, MailIn,
                        outcomeVars
    <3>2. \A k : ~BeingBounced(k)
      BY <2>4 DEF BeingBounced, Original
    <3>3. Cached' = Cached
      BY <2>2, <3>2 DEF Cached
    <3> QED BY <1>1, <3>1, <3>3 DEF Cached
  <2>5. CASE ~cmsg.bounce /\ cwhole
    <3> DEFINE m == cmsg.mail
    <3>1. /\ m \in Mail /\ MailIn(cmsg) = {m} /\ cmsg = Original(m)
          /\ \A k : k # m => cmsg # Original(k)
      BY <2>1, <2>5, MailOfMsg
    <3>2. /\ \/ bounced' = bounced \cup {m} /\ UNCHANGED <<delivered, given_up>>
             \/ given_up' = given_up \cup {m} /\ UNCHANGED <<delivered, bounced>>
          /\ UNCHANGED mangled
      BY <1>5, <2>5, <3>1 DEF CacheBounces, CacheGivesUp, Bounce, GiveUp
    <3> HIDE DEF m
    <3>3. BeingBounced(m)
      BY <2>1, <2>5, <3>1 DEF BeingBounced
    <3>4. m \in Cached /\ (mishaps = 0 => m \notin Ended)
      BY <3>1, <3>3 DEF Cached, Fate, BouncedIsOpen
    <3>5. Cached' \in {Cached, Cached \ {m}}
      BY <2>2, <2>3, <3>1, <3>4 DEF Cached
    <3>6. Custody!Refuse(m)
      BY <1>1, <3>2, <3>4, <3>5 DEF Custody!Refuse, Custody!Open, Cached
    <3> QED BY <3>1, <3>6 DEF Custody!Next
  <2> QED BY <2>4, <2>5
<1>6. \/ UNCHANGED files /\ cpc # "bounce" /\ cpc' # "bounce"
      \/ CacheDefers \/ CacheRefused \/ CacheRemoves \/ CacheBounces \/ CacheGivesUp
  BY DEF CacheThread, StartPass, EndPass, StatFile, ReadFile, SkipFile, CacheDelivers,
         CacheSignal, CacheGoto, Skip
<1> QED BY <1>2, <1>3, <1>4, <1>5, <1>6

\* Whatever its threads do, and whatever mishaps there are, the delivery process keeps a
\* mail as MailCustody promises.
THEOREM DeliveryKeepsCustody == Spec => KeepsCustody
<1>1. Init => Custody!Init
  BY DEF Init, TransInit, RetryInit, Custody!Init, InFile, BeingBounced, Complete, FileIDs
<1>2. CustodyCore /\ [Next]_vars => [Custody!Next]_Custody!vars
  <2>1. SUFFICES ASSUME CustodyCore, [Next]_vars
                 PROVE  Custody!Next \/ UNCHANGED Custody!vars
    OBVIOUS
  <2>2. CASE Mishap
    BY <2>1, <2>2, CustodyMishap
  <2>3. CASE Live
    BY <2>1, <2>3, CustodyTransport, CustodyHook, CustodyOthers, CustodyCacheThread
       DEF Live
  <2>4. CASE UNCHANGED vars
    BY <2>4 DEF vars, transVars, sourceVars, retryVars, cacheVars, outcomeVars, InFile,
                BeingBounced, Complete, FileIDs, Original, Custody!vars, Custody!outcomes
  <2> QED BY <2>1, <2>2, <2>3, <2>4 DEF Next
<1> QED BY <1>1, <1>2, CoreCorrect, NodesCorrect, KeptCorrect, FateCorrect, PTL
        DEF Spec, KeepsCustody, Custody!Spec, CustodyCore
=============================================================================
