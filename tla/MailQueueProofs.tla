--------------------------- MODULE MailQueueProofs ---------------------------
(***************************************************************************)
(* Proofs about the mail queue, for any number of mails, blocks, nodes,    *)
(* workers and restarts.  Every layer is an invariant that the next ones   *)
(* assume:                                                                 *)
(*   TypeInv         types, and what the flushing thread's counter implies *)
(*   NodesAccounted  where the nodes are                                   *)
(*   FilesInv        who may write which mess file                         *)
(*   SlotInv         which node stands for which slot                      *)
(* and AcceptedIsStored follows from all of them.  The last three parts    *)
(* are about the hypothesis HashRoom of the later layers, about            *)
(* MailsReadWhole, which holds while the smtp process is not restarted,    *)
(* and about FlushGoesOn, the progress of the flushing thread.             *)
(***************************************************************************)
EXTENDS MailQueue, FiniteSetTheorems, TLAPS

-----------------------------------------------------------------------------
(* Lemmas about sequences used as queues.                                  *)

Elems(s) == {s[i] : i \in 1 .. Len(s)}
Injective(s) == \A i, j \in 1 .. Len(s) : s[i] = s[j] => i = j

\* Appending adds one element.
LEMMA AppendElems ==
  ASSUME NEW S, NEW s \in Seq(S), NEW x \in S
  PROVE  /\ Append(s, x) \in Seq(S)
         /\ Elems(Append(s, x)) = Elems(s) \cup {x}
         /\ Injective(s) /\ x \notin Elems(s) => Injective(Append(s, x))
<1>1. /\ Append(s, x) \in Seq(S)
      /\ Len(Append(s, x)) = Len(s) + 1
      /\ Append(s, x)[Len(s) + 1] = x
      /\ \A i \in 1 .. Len(s) : Append(s, x)[i] = s[i]
      /\ Len(s) \in Nat
  OBVIOUS
<1>2. Elems(Append(s, x)) = Elems(s) \cup {x}
  BY <1>1 DEF Elems
<1>3. Injective(s) /\ x \notin Elems(s) => Injective(Append(s, x))
  BY <1>1 DEF Elems, Injective
<1> QED BY <1>1, <1>2, <1>3

\* Taking the head removes one element, and all of it when there are no
\* repetitions.
LEMMA HeadElems ==
  ASSUME NEW S, NEW s \in Seq(S), s # <<>>
  PROVE  /\ Head(s) \in S
         /\ Tail(s) \in Seq(S)
         /\ Head(s) \in Elems(s)
         /\ Elems(s) = Elems(Tail(s)) \cup {Head(s)}
         /\ Injective(s) => Injective(Tail(s)) /\ Head(s) \notin Elems(Tail(s))
<1>1. /\ Head(s) = s[1]
      /\ Head(s) \in S
      /\ Tail(s) \in Seq(S)
      /\ Len(s) \in Nat \ {0}
      /\ Len(Tail(s)) = Len(s) - 1
      /\ \A i \in 1 .. Len(s) - 1 : Tail(s)[i] = s[i + 1]
  OBVIOUS
<1>2. Head(s) \in Elems(s)
  BY <1>1 DEF Elems
<1>3. Elems(s) = Elems(Tail(s)) \cup {Head(s)}
  <2>1. ASSUME NEW i \in 1 .. Len(s), i # 1
        PROVE  s[i] \in Elems(Tail(s))
    <3>1. i - 1 \in 1 .. Len(Tail(s)) /\ Tail(s)[i - 1] = s[i]
      BY <1>1, <2>1
    <3> QED BY <3>1 DEF Elems
  <2>2. ASSUME NEW i \in 1 .. Len(Tail(s))
        PROVE  Tail(s)[i] \in Elems(s)
    <3>1. i + 1 \in 1 .. Len(s) /\ s[i + 1] = Tail(s)[i]
      BY <1>1
    <3> QED BY <3>1 DEF Elems
  <2> QED BY <1>1, <1>2, <2>1, <2>2 DEF Elems
<1>4. Injective(s) => Injective(Tail(s)) /\ Head(s) \notin Elems(Tail(s))
  BY <1>1 DEF Elems, Injective
<1> QED BY <1>1, <1>2, <1>3, <1>4

\* A queue is empty exactly when it has no elements.
LEMMA EmptyElems == Elems(<<>>) = {} /\ Injective(<<>>)
BY DEF Elems, Injective

-----------------------------------------------------------------------------
(* Layer 1: types.                                                         *)

\* What the flushing thread's program counter says of the mail it has, and
\* what is true of the mails in its queue.
FlushInv ==
  /\ fpc = "idle" => fmail = NoMail
  /\ fpc # "idle" => /\ fmail \in Mail
                     /\ client[fmail] = "flushing"
                     /\ flush_ID[fmail] \in ID
                     /\ flush_action[fmail] \in {"part", "whole"}
  /\ fpc \in {"find", "tape", "notify"} => flush_action[fmail] = "whole"
  /\ fpc \in {"find", "tape"} => fslot \in Slot /\ fslot.type = "tape"
  /\ fpc = "notify" => fslot \in Slot
  /\ Injective(flush_queue)
  /\ \A m \in Elems(flush_queue) : /\ client[m] = "flushing"
                                   /\ flush_ID[m] \in ID
                                   /\ flush_action[m] \in {"part", "whole"}
                                   /\ m # fmail

\* What the loader's and the workers' program counters say of what they hold.
HolderInv ==
  /\ lpc \in {"query", "test", "mem", "pop", "read", "put_used", "hash"}
       => lslot \in Slot
  /\ lpc \in {"read", "put_used"} => lnode \in Node
  /\ \A w \in Worker : wpc[w] # "get" => wnode[w] \in Node

TypeInv == TypeOK /\ FlushInv /\ HolderInv

\* The slots, taken apart.
LEMMA SlotCases ==
  ASSUME NEW s \in Slot, StoreTypeOK
  PROVE  /\ \/ s.type = "tape" /\ s.at \in Pos /\ s = Block(s.at)
            \/ s.type = "mess" /\ s.at \in ID /\ s = File(s.at)
         /\ Content(s) \in Mail \cup {NoMail, Incomplete}
<1>1. CASE s \in [type : {"tape"}, at : Pos]
  BY <1>1 DEF StoreTypeOK, Content, Block
<1>2. CASE s \in [type : {"mess"}, at : ID]
  BY <1>2 DEF StoreTypeOK, Content, File
<1> QED BY <1>1, <1>2 DEF Slot

\* The initial states are typed.
LEMMA TypeInit == Init => TypeInv
<1> SUFFICES ASSUME Init PROVE TypeInv
  OBVIOUS
<1> USE StoreAssumption, EnqueueAssumption, DequeueAssumption
<1> USE DEF Init, StoreInit, EnqInit, DeqInit
<1>1. StoreTypeOK
  BY DEF StoreTypeOK
<1>2. EnqTypeOK
  BY DEF EnqTypeOK
<1>3. DeqTypeOK
  BY DEF DeqTypeOK, FreshNode
<1>4. FlushInv /\ HolderInv
  BY EmptyElems DEF FlushInv, HolderInv
<1> QED BY <1>1, <1>2, <1>3, <1>4 DEF TypeInv, TypeOK

\* A step of the smtp process keeps the types.
LEMMA EnqTypeStep ==
  TypeInv /\ EnqNext => StoreTypeOK' /\ EnqTypeOK' /\ FlushInv'
<1> SUFFICES ASSUME TypeInv, EnqNext
             PROVE  StoreTypeOK' /\ EnqTypeOK' /\ FlushInv'
  OBVIOUS
<1> USE StoreAssumption, EnqueueAssumption
<1>0. StoreTypeOK /\ EnqTypeOK /\ FlushInv
  BY DEF TypeInv, TypeOK
<1>1. ASSUME NEW m \in Mail, NEW action \in {"part", "whole"},
             PutToQueue(m, action)
      PROVE  StoreTypeOK' /\ EnqTypeOK' /\ FlushInv'
  <2>1. flush_ID' \in [Mail -> 0 .. MaxID] /\ flush_ID'[m] \in ID
    BY <1>0, <1>1 DEF PutToQueue, ID, EnqTypeOK
  <2>2. m \notin Elems(flush_queue) /\ m # fmail
    BY <1>0, <1>1 DEF PutToQueue, FlushInv
  <2>3. /\ flush_queue' \in Seq(Mail)
        /\ Elems(flush_queue') = Elems(flush_queue) \cup {m}
        /\ Injective(flush_queue')
    BY <1>0, <1>1, <2>2, AppendElems DEF PutToQueue, EnqTypeOK, FlushInv
  <2>4. StoreTypeOK'
    BY <1>0, <1>1 DEF PutToQueue, StoreTypeOK, storeVars
  <2>5. EnqTypeOK'
    <3>1. /\ flush_action' \in [Mail -> {"none", "part", "whole"}]
          /\ client' \in [Mail -> {"composing", "flushing", "accepted",
                                  "refused", "dropped"}]
          /\ current_ID' \in 0 .. MaxID
      BY <1>0, <1>1 DEF PutToQueue, EnqTypeOK
    <3> QED BY <1>0, <1>1, <2>1, <2>3, <3>1 DEF PutToQueue, EnqTypeOK
  <2>6. \A k \in Mail \ {m} : /\ client'[k] = client[k]
                              /\ flush_ID'[k] = flush_ID[k]
                              /\ flush_action'[k] = flush_action[k]
    BY <1>0, <1>1 DEF PutToQueue, EnqTypeOK
  <2>7. client'[m] = "flushing" /\ flush_action'[m] \in {"part", "whole"}
    BY <1>0, <1>1 DEF PutToQueue, EnqTypeOK
  <2>8. fpc' = fpc /\ fmail' = fmail /\ fslot' = fslot
    BY <1>1 DEF PutToQueue
  <2>9. Elems(flush_queue) \subseteq Mail
    BY <1>0 DEF EnqTypeOK, Elems
  <2>10. FlushInv'
    BY <1>0, <2>1, <2>2, <2>3, <2>6, <2>7, <2>8, <2>9 DEF FlushInv
  <2> QED BY <2>4, <2>5, <2>10
<1>2. ASSUME NEW m \in Mail, Cancel(m)
      PROVE  StoreTypeOK' /\ EnqTypeOK' /\ FlushInv'
  <2>1. m \notin Elems(flush_queue) /\ m # fmail
    BY <1>0, <1>2 DEF Cancel, FlushInv
  <2>2. StoreTypeOK'
    BY <1>0, <1>2 DEF Cancel, StoreTypeOK
  <2>3. EnqTypeOK'
    BY <1>0, <1>2 DEF Cancel, EnqTypeOK
  <2>4. \A k \in Mail \ {m} : /\ client'[k] = client[k]
                              /\ flush_ID'[k] = flush_ID[k]
    BY <1>0, <1>2 DEF Cancel, EnqTypeOK
  <2>5. /\ fpc' = fpc /\ fmail' = fmail /\ fslot' = fslot
        /\ flush_queue' = flush_queue /\ flush_action' = flush_action
    BY <1>2 DEF Cancel
  <2>6. Elems(flush_queue) \subseteq Mail
    BY <1>0 DEF EnqTypeOK, Elems
  <2>7. FlushInv'
    BY <1>0, <2>1, <2>4, <2>5, <2>6 DEF FlushInv
  <2> QED BY <2>2, <2>3, <2>7
<1>3. CASE Take
  <2>1. /\ Head(flush_queue) \in Mail
        /\ flush_queue' \in Seq(Mail)
        /\ Head(flush_queue) \in Elems(flush_queue)
        /\ Elems(flush_queue) = Elems(flush_queue') \cup {Head(flush_queue)}
        /\ Injective(flush_queue')
        /\ Head(flush_queue) \notin Elems(flush_queue')
    BY <1>0, <1>3, HeadElems DEF Take, EnqTypeOK, FlushInv
  <2>2. /\ fslot' \in Slot \cup {NoSlot}
        /\ fpc' \in {"find", "tape"} => fslot' \in Slot /\ fslot'.type = "tape"
    <3>1. Pos # {} => 0 \in Pos
      BY StoreAssumption DEF Pos
    <3>2. CASE fslot' = Block(0) /\ Pos # {}
      BY <3>1, <3>2 DEF Block, Slot
    <3>3. CASE fslot' = fslot /\ fpc' \in {"body", "open"}
      BY <1>0, <3>3 DEF EnqTypeOK
    <3> QED BY <1>3, <3>2, <3>3 DEF Take
  <2>3. StoreTypeOK' /\ EnqTypeOK'
    <3>1. fpc' \in {"find", "body", "open"}
      BY <1>3 DEF Take
    <3> QED BY <1>0, <1>3, <2>1, <2>2, <3>1 DEF Take, StoreTypeOK, EnqTypeOK, storeVars
  <2>4. FlushInv'
    <3>1. fpc' \in {"find", "body", "open"}
      BY <1>3 DEF Take
    <3>2. /\ flush_action[Head(flush_queue)] = "whole" \/ fpc' # "find"
          /\ fmail' = Head(flush_queue)
          /\ UNCHANGED <<flush_ID, flush_action, client>>
      BY <1>3 DEF Take
    <3> QED BY <1>0, <2>1, <2>2, <3>1, <3>2 DEF FlushInv
  <2> QED BY <2>3, <2>4
<1>4. CASE FindBlock
  <2>1. StoreTypeOK'
    BY <1>0, <1>4 DEF FindBlock, StoreTypeOK, FlushInv, storeVars, FreeBlocks, Block, Slot
  <2>2. EnqTypeOK'
    BY <1>0, <1>4 DEF FindBlock, EnqTypeOK, FlushInv, FreeBlocks, Block, Slot
  <2>3. FlushInv'
    BY <1>0, <1>4 DEF FindBlock, FlushInv, FreeBlocks, Block, Slot
  <2> QED BY <2>1, <2>2, <2>3
<1>5. CASE WriteBlock
  <2>1. StoreTypeOK'
    BY <1>0, <1>5 DEF WriteBlock, StoreTypeOK, FlushInv, storeVars
  <2>2. EnqTypeOK'
    BY <1>0, <1>5 DEF WriteBlock, EnqTypeOK, FlushInv
  <2>3. FlushInv'
    BY <1>0, <1>5 DEF WriteBlock, FlushInv
  <2> QED BY <2>1, <2>2, <2>3
<1>6. CASE OpenFile
  <2>1. StoreTypeOK'
    BY <1>0, <1>6 DEF OpenFile, StoreTypeOK, FlushInv, storeVars
  <2>2. EnqTypeOK'
    BY <1>0, <1>6 DEF OpenFile, EnqTypeOK, FlushInv
  <2>3. FlushInv'
    BY <1>0, <1>6 DEF OpenFile, FlushInv
  <2> QED BY <2>1, <2>2, <2>3
<1>7. CASE OpenFails
  <2>1. StoreTypeOK'
    BY <1>0, <1>7 DEF OpenFails, StoreTypeOK, FlushInv, storeVars
  <2>2. EnqTypeOK'
    BY <1>0, <1>7 DEF OpenFails, EnqTypeOK, FlushInv
  <2>3. FlushInv'
    BY <1>0, <1>7 DEF OpenFails, FlushInv
  <2> QED BY <2>1, <2>2, <2>3
<1>8. CASE WritePart
  <2>1. StoreTypeOK'
    BY <1>0, <1>8 DEF WritePart, StoreTypeOK, FlushInv, storeVars
  <2>2. EnqTypeOK'
    BY <1>0, <1>8 DEF WritePart, EnqTypeOK, FlushInv
  <2>3. FlushInv'
    BY <1>0, <1>8 DEF WritePart, FlushInv
  <2> QED BY <2>1, <2>2, <2>3
<1>9. CASE WriteWhole
  <2>1. StoreTypeOK'
    BY <1>0, <1>9 DEF WriteWhole, StoreTypeOK, FlushInv, storeVars, File, Slot
  <2>2. EnqTypeOK'
    BY <1>0, <1>9 DEF WriteWhole, EnqTypeOK, FlushInv, File, Slot
  <2>3. FlushInv'
    BY <1>0, <1>9 DEF WriteWhole, FlushInv, File, Slot
  <2> QED BY <2>1, <2>2, <2>3
<1>10. CASE WriteFails
  <2>1. StoreTypeOK'
    BY <1>0, <1>10 DEF WriteFails, StoreTypeOK, FlushInv, storeVars
  <2>2. EnqTypeOK'
    BY <1>0, <1>10 DEF WriteFails, EnqTypeOK, FlushInv
  <2>3. FlushInv'
    BY <1>0, <1>10 DEF WriteFails, FlushInv
  <2> QED BY <2>1, <2>2, <2>3
<1>11. CASE Notify
  <2>1. StoreTypeOK'
    BY <1>0, <1>11 DEF Notify, StoreTypeOK, FlushInv, storeVars, SendNotice
  <2>2. EnqTypeOK'
    BY <1>0, <1>11 DEF Notify, EnqTypeOK, FlushInv, SendNotice
  <2>3. FlushInv'
    BY <1>0, <1>11 DEF Notify, FlushInv, SendNotice
  <2> QED BY <2>1, <2>2, <2>3
<1>12. CASE Feedback
  <2>1. StoreTypeOK' /\ EnqTypeOK'
    <3>1. /\ flush_action' \in [Mail -> {"none", "part", "whole"}]
          /\ client' \in [Mail -> {"composing", "flushing", "accepted",
                                  "refused", "dropped"}]
          /\ flush_ID' \in [Mail -> 0 .. MaxID]
      <4>1. CASE /\ flush_action[fmail] = "part"
                 /\ client' = [client EXCEPT ![fmail] = "composing"]
                 /\ UNCHANGED <<flush_ID, flush_action>>
        BY <1>0, <4>1 DEF EnqTypeOK
      <4>2. CASE /\ client' = [client EXCEPT ![fmail] =
                        IF fresult = "ok" THEN "accepted" ELSE "refused"]
                 /\ flush_ID' = [flush_ID EXCEPT ![fmail] = 0]
                 /\ flush_action' = [flush_action EXCEPT ![fmail] = "none"]
        <5>1. (IF fresult = "ok" THEN "accepted" ELSE "refused")
                \in {"accepted", "refused"}
          OBVIOUS
        <5>2. client' \in [Mail -> {"composing", "flushing", "accepted",
                                   "refused", "dropped"}]
          BY <1>0, <4>2, <5>1 DEF EnqTypeOK
        <5>3. flush_ID' \in [Mail -> 0 .. MaxID]
          <6>1. flush_ID' = [flush_ID EXCEPT ![fmail] = 0]
            BY <4>2
          <6>2. flush_ID \in [Mail -> 0 .. MaxID] /\ 0 \in 0 .. MaxID
            BY <1>0 DEF EnqTypeOK
          <6> QED BY <6>1, <6>2
        <5> QED BY <1>0, <4>2, <5>2, <5>3 DEF EnqTypeOK
      <4> QED BY <1>12, <4>1, <4>2 DEF Feedback
    <3>2. EnqTypeOK'
      BY <1>0, <1>12, <3>1 DEF Feedback, EnqTypeOK
    <3>3. StoreTypeOK'
      BY <1>0, <1>12 DEF Feedback, StoreTypeOK, storeVars
    <3> QED BY <3>2, <3>3
  <2>2. \A k \in Mail \ {fmail} : /\ client'[k] = client[k]
                                  /\ flush_ID'[k] = flush_ID[k]
                                  /\ flush_action'[k] = flush_action[k]
    BY <1>0, <1>12 DEF Feedback, EnqTypeOK
  <2>3. /\ fpc' = "idle" /\ fmail' = NoMail
        /\ flush_queue' = flush_queue
    BY <1>12 DEF Feedback
  <2>4. Elems(flush_queue) \subseteq Mail
    BY <1>0 DEF EnqTypeOK, Elems
  <2>5. FlushInv'
    BY <1>0, <2>2, <2>3, <2>4 DEF FlushInv
  <2> QED BY <2>1, <2>5
<1>13. CASE EnqRestart
  <2>1. current_ID' \in 0 .. MaxID
    BY <1>0, <1>13 DEF EnqRestart, CompleteIDs, TapeMax, ID
  <2>2. StoreTypeOK'
    BY <1>0, <1>13 DEF EnqRestart, StoreTypeOK
  <2>3. EnqTypeOK'
    BY <1>0, <1>13, <2>1 DEF EnqRestart, EnqTypeOK
  <2>4. FlushInv'
    BY <1>13, EmptyElems DEF EnqRestart, FlushInv
  <2> QED BY <2>2, <2>3, <2>4
<1> QED
  BY <1>1, <1>2, <1>3, <1>4, <1>5, <1>6, <1>7, <1>8, <1>9, <1>10, <1>11,
     <1>12, <1>13 DEF EnqNext, Clients, FlushThread

\* What a step of the delivery process does to the loader's registers when a
\* load returns.
LEMMA LoadReturnsTypes ==
  ASSUME DeqTypeOK, LoadReturns
  PROVE  /\ lpc' \in {"recv", "scan_tape", "scan_mess"}
         /\ lret' = "recv" /\ lslot' = NoSlot /\ lsize' = 0 /\ lnode' = NoNode
         /\ lseen' = "whole"
BY DEF LoadReturns, DeqTypeOK

\* A step of the loader keeps the types.
LEMMA LoaderTypeStep ==
  TypeInv /\ Loader => StoreTypeOK' /\ DeqTypeOK' /\ HolderInv'
<1> SUFFICES ASSUME TypeInv, Loader
             PROVE  StoreTypeOK' /\ DeqTypeOK' /\ HolderInv'
  OBVIOUS
<1> USE StoreAssumption, DequeueAssumption
<1>0. StoreTypeOK /\ DeqTypeOK /\ HolderInv
  BY DEF TypeInv, TypeOK
<1> USE DEF listVars, workerVars, storeVars
<1>1. CASE Receive
  <2>1. msgq # <<>> => Head(msgq) \in Slot /\ Tail(msgq) \in Seq(Slot)
                       /\ Len(Tail(msgq)) <= MsgCap
    BY <1>0 DEF StoreTypeOK
  <2>2. StoreTypeOK'
    BY <1>0, <1>1, <2>1 DEF Receive, StoreTypeOK
  <2>3. DeqTypeOK'
    BY <1>0, <1>1, <2>1 DEF Receive, DeqTypeOK
  <2>4. HolderInv'
    BY <1>0, <1>1, <2>1 DEF Receive, HolderInv
  <2> QED BY <2>2, <2>3, <2>4
<1>2. CASE Idle
  <2>1. StoreTypeOK'
    BY <1>0, <1>2 DEF Idle, StoreTypeOK
  <2>2. DeqTypeOK'
    BY <1>0, <1>2 DEF Idle, DeqTypeOK, HolderInv
  <2>3. HolderInv'
    BY <1>0, <1>2 DEF Idle, HolderInv
  <2> QED BY <2>1, <2>2, <2>3
<1>3. CASE ScanTape
  <2>1. StoreTypeOK'
    BY <1>0, <1>3 DEF ScanTape, StoreTypeOK
  <2>2. DeqTypeOK'
    BY <1>0, <1>3 DEF ScanTape, DeqTypeOK, HolderInv, Block, Slot, Pos
  <2>3. HolderInv'
    BY <1>0, <1>3 DEF ScanTape, HolderInv, DeqTypeOK, Block, Slot, Pos
  <2> QED BY <2>1, <2>2, <2>3
<1>4. CASE OpenScanMess
  <2>1. StoreTypeOK'
    BY <1>0, <1>4 DEF OpenScanMess, StoreTypeOK
  <2>2. DeqTypeOK'
    BY <1>0, <1>4 DEF OpenScanMess, DeqTypeOK, HolderInv
  <2>3. HolderInv'
    BY <1>0, <1>4 DEF OpenScanMess, HolderInv
  <2> QED BY <2>1, <2>2, <2>3
<1>5. CASE ScanMess
  <2>1. StoreTypeOK'
    BY <1>0, <1>5 DEF ScanMess, StoreTypeOK
  <2>2. DeqTypeOK'
    BY <1>0, <1>5 DEF ScanMess, DeqTypeOK, HolderInv, File, Slot
  <2>3. HolderInv'
    BY <1>0, <1>5 DEF ScanMess, HolderInv, DeqTypeOK, File, Slot
  <2> QED BY <2>1, <2>2, <2>3
<1>6. CASE Query
  <2>1. StoreTypeOK'
    BY <1>0, <1>6 DEF Query, StoreTypeOK
  <2>2. DeqTypeOK'
    BY <1>0, <1>6, LoadReturnsTypes DEF Query, DeqTypeOK, HolderInv
  <2>3. HolderInv'
    BY <1>0, <1>6, LoadReturnsTypes DEF Query, HolderInv
  <2> QED BY <2>1, <2>2, <2>3
<1>7. CASE Test
  <2>1. StoreTypeOK'
    BY <1>0, <1>7 DEF Test, StoreTypeOK
  <2>2. DeqTypeOK'
    BY <1>0, <1>7, SlotCases, LoadReturnsTypes DEF Test, DeqTypeOK, HolderInv
  <2>3. HolderInv'
    BY <1>0, <1>7, SlotCases, LoadReturnsTypes DEF Test, HolderInv
  <2> QED BY <2>1, <2>2, <2>3
<1>8. CASE TakeMem
  <2>1. StoreTypeOK'
    BY <1>0, <1>8 DEF TakeMem, StoreTypeOK
  <2>2. DeqTypeOK'
    BY <1>0, <1>8, LoadReturnsTypes DEF TakeMem, DeqTypeOK, HolderInv
  <2>3. HolderInv'
    BY <1>0, <1>8, LoadReturnsTypes DEF TakeMem, HolderInv
  <2> QED BY <2>1, <2>2, <2>3
<1>9. CASE Pop
  <2>1. StoreTypeOK'
    BY <1>0, <1>9 DEF Pop, StoreTypeOK
  <2>2. ASSUME LoadReturns, UNCHANGED <<free, node>>
        PROVE  DeqTypeOK' /\ HolderInv'
    <3>1. DeqTypeOK'
      BY <1>0, <1>9, <2>2, LoadReturnsTypes DEF Pop, DeqTypeOK
    <3>2. HolderInv'
      BY <1>0, <1>9, <2>2, LoadReturnsTypes DEF Pop, HolderInv
    <3> QED BY <3>1, <3>2
  <2>3. ASSUME NEW n \in free,
               /\ free' = free \ {n}
               /\ node' = [node EXCEPT ![n] =
                    [slot |-> lslot, mail |-> NoMail, size |-> lsize]]
               /\ lnode' = n
               /\ lpc' = "read"
               /\ UNCHANGED <<lslot, lsize, lseen, lret>>
        PROVE  DeqTypeOK' /\ HolderInv'
    <3>1. [slot |-> lslot, mail |-> NoMail, size |-> lsize]
            \in [slot : Slot \cup {NoSlot},
                mail : Mail \cup {NoMail, Incomplete}, size : Nat]
      BY <1>0 DEF DeqTypeOK
    <3>2. node' \in [Node -> [slot : Slot \cup {NoSlot},
                mail : Mail \cup {NoMail, Incomplete}, size : Nat]]
      BY <1>0, <2>3, <3>1 DEF DeqTypeOK
    <3>3. DeqTypeOK'
      BY <1>0, <1>9, <2>3, <3>2 DEF Pop, DeqTypeOK
    <3>4. HolderInv'
      BY <1>0, <1>9, <2>3 DEF Pop, DeqTypeOK, HolderInv
    <3> QED BY <3>3, <3>4
  <2> QED BY <1>9, <2>1, <2>2, <2>3 DEF Pop
<1>10. CASE Read
  <2>1. StoreTypeOK'
    BY <1>0, <1>10 DEF Read, StoreTypeOK
  <2>2. DeqTypeOK'
    <3>1. /\ lslot \in Slot /\ lnode \in Node
          /\ Content(lslot) \in Mail \cup {NoMail, Incomplete}
      BY <1>0, <1>10, SlotCases DEF Read, HolderInv
    <3>2. FreshNode \in [slot : Slot \cup {NoSlot},
                mail : Mail \cup {NoMail, Incomplete}, size : Nat]
      BY DEF FreshNode
    <3>3. UNCHANGED <<used, hashed, scan_pos, scan_mess, wpc, wnode, handled,
                      deq_restarts>>
      BY <1>10 DEF Read
    <3>4. CASE /\ node' = [node EXCEPT ![lnode].mail = Content(lslot)]
               /\ lpc' = "put_used"
               /\ cut' = cut \cup {m \in Mail : lseen = "part" /\ Content(lslot) = m}
               /\ UNCHANGED <<free, current_mem, lslot, lsize, lseen, lnode,
                              lret>>
      <4>1. node' \in [Node -> [slot : Slot \cup {NoSlot},
                  mail : Mail \cup {NoMail, Incomplete}, size : Nat]]
        <5> DEFINE R == [slot : Slot \cup {NoSlot},
                         mail : Mail \cup {NoMail, Incomplete}, size : Nat]
                   r == [node[lnode] EXCEPT !.mail = Content(lslot)]
        <5>1. node \in [Node -> R] /\ node[lnode] \in R
          BY <1>0, <3>1 DEF DeqTypeOK
        <5>2. r \in R
          BY <3>1, <5>1
        <5>3. node' = [node EXCEPT ![lnode] = r]
          BY <3>4
        <5> HIDE DEF R, r
        <5>4. node' \in [Node -> R]
          BY <5>1, <5>2, <5>3
        <5> QED BY <5>4 DEF R
      <4> QED BY <1>0, <3>3, <3>4, <4>1 DEF DeqTypeOK
    <3>5. CASE /\ current_mem' = current_mem - lsize
               /\ free' = free \cup {lnode}
               /\ node' = [node EXCEPT ![lnode] = FreshNode]
               /\ LoadReturns
               /\ UNCHANGED cut
      <4>1. node' \in [Node -> [slot : Slot \cup {NoSlot},
                  mail : Mail \cup {NoMail, Incomplete}, size : Nat]]
        BY <1>0, <3>2, <3>5 DEF DeqTypeOK
      <4>2. free' \subseteq Node /\ current_mem' \in Int
        BY <1>0, <3>1, <3>5 DEF DeqTypeOK
      <4> QED BY <1>0, <3>3, <3>5, <4>1, <4>2, LoadReturnsTypes DEF DeqTypeOK
    <3> QED BY <1>10, <3>4, <3>5 DEF Read
  <2>3. HolderInv'
    BY <1>0, <1>10, SlotCases, LoadReturnsTypes DEF Read, HolderInv, FreshNode
  <2> QED BY <2>1, <2>2, <2>3
<1>11. CASE PutToUsed
  <2>1. StoreTypeOK'
    BY <1>0, <1>11 DEF PutToUsed, StoreTypeOK
  <2>2. DeqTypeOK'
    BY <1>0, <1>11, AppendElems DEF PutToUsed, DeqTypeOK, HolderInv
  <2>3. HolderInv'
    BY <1>0, <1>11, AppendElems DEF PutToUsed, HolderInv
  <2> QED BY <2>1, <2>2, <2>3
<1>12. CASE AddToHash
  <2>1. StoreTypeOK'
    BY <1>0, <1>12 DEF AddToHash, StoreTypeOK
  <2>2. DeqTypeOK'
    BY <1>0, <1>12, LoadReturnsTypes DEF AddToHash, DeqTypeOK, HolderInv
  <2>3. HolderInv'
    BY <1>0, <1>12, LoadReturnsTypes DEF AddToHash, HolderInv
  <2> QED BY <2>1, <2>2, <2>3
<1> QED
  BY <1>1, <1>2, <1>3, <1>4, <1>5, <1>6, <1>7, <1>8, <1>9, <1>10, <1>11,
     <1>12 DEF Loader

\* A step of a worker, or a restart of the delivery process, keeps the types.
LEMMA WorkTypeStep ==
  ASSUME TypeInv, (\E w \in Worker : Work(w)) \/ DeqRestart
  PROVE  StoreTypeOK' /\ DeqTypeOK' /\ HolderInv'
<1> USE StoreAssumption, DequeueAssumption
<1>0. StoreTypeOK /\ DeqTypeOK /\ HolderInv
  BY DEF TypeInv, TypeOK
<1> USE DEF listVars, loaderVars, storeVars
<1>1. ASSUME NEW w \in Worker, Get(w)
      PROVE  StoreTypeOK' /\ DeqTypeOK' /\ HolderInv'
  <2>1. StoreTypeOK'
    BY <1>0, <1>1 DEF Get, StoreTypeOK
  <2>2. DeqTypeOK'
    BY <1>0, <1>1, HeadElems DEF Get, DeqTypeOK, HolderInv
  <2>3. HolderInv'
    BY <1>0, <1>1, HeadElems DEF Get, HolderInv, DeqTypeOK
  <2> QED BY <2>1, <2>2, <2>3
<1>2. ASSUME NEW w \in Worker, Serve(w)
      PROVE  StoreTypeOK' /\ DeqTypeOK' /\ HolderInv'
  <2>1. StoreTypeOK'
    BY <1>0, <1>2 DEF Serve, StoreTypeOK
  <2>2. DeqTypeOK'
    BY <1>0, <1>2 DEF Serve, DeqTypeOK, HolderInv
  <2>3. HolderInv'
    BY <1>0, <1>2 DEF Serve, HolderInv, DeqTypeOK
  <2> QED BY <2>1, <2>2, <2>3
<1>3. ASSUME NEW w \in Worker, Erase(w)
      PROVE  StoreTypeOK' /\ DeqTypeOK' /\ HolderInv'
  <2>1. StoreTypeOK'
    BY <1>0, <1>3 DEF Erase, StoreTypeOK, EraseSlot
  <2>2. DeqTypeOK'
    BY <1>0, <1>3 DEF Erase, DeqTypeOK, HolderInv, EraseSlot
  <2>3. HolderInv'
    BY <1>0, <1>3 DEF Erase, HolderInv, DeqTypeOK, EraseSlot
  <2> QED BY <2>1, <2>2, <2>3
<1>4. ASSUME NEW w \in Worker, Unhash(w)
      PROVE  StoreTypeOK' /\ DeqTypeOK' /\ HolderInv'
  <2>1. StoreTypeOK'
    BY <1>0, <1>4 DEF Unhash, StoreTypeOK
  <2>2. DeqTypeOK'
    BY <1>0, <1>4 DEF Unhash, DeqTypeOK, HolderInv
  <2>3. HolderInv'
    BY <1>0, <1>4 DEF Unhash, HolderInv, DeqTypeOK
  <2> QED BY <2>1, <2>2, <2>3
<1>5. ASSUME NEW w \in Worker, ReturnMem(w)
      PROVE  StoreTypeOK' /\ DeqTypeOK' /\ HolderInv'
  <2>1. StoreTypeOK'
    BY <1>0, <1>5 DEF ReturnMem, StoreTypeOK
  <2>2. DeqTypeOK'
    BY <1>0, <1>5 DEF ReturnMem, DeqTypeOK, HolderInv
  <2>3. HolderInv'
    BY <1>0, <1>5 DEF ReturnMem, HolderInv, DeqTypeOK
  <2> QED BY <2>1, <2>2, <2>3
<1>6. ASSUME NEW w \in Worker, AppendFree(w)
      PROVE  StoreTypeOK' /\ DeqTypeOK' /\ HolderInv'
  <2>1. StoreTypeOK'
    BY <1>0, <1>6 DEF AppendFree, StoreTypeOK, FreshNode
  <2>2. DeqTypeOK'
    BY <1>0, <1>6 DEF AppendFree, DeqTypeOK, HolderInv, FreshNode
  <2>3. HolderInv'
    BY <1>0, <1>6 DEF AppendFree, HolderInv, DeqTypeOK, FreshNode
  <2> QED BY <2>1, <2>2, <2>3
<1>7. CASE DeqRestart
  <2>1. StoreTypeOK'
    BY <1>0, <1>7 DEF DeqRestart, StoreTypeOK
  <2>2. DeqTypeOK'
    BY <1>0, <1>7 DEF DeqRestart, DeqTypeOK, FreshNode
  <2>3. HolderInv'
    BY <1>7 DEF DeqRestart, HolderInv
  <2> QED BY <2>1, <2>2, <2>3
<1> QED BY <1>1, <1>2, <1>3, <1>4, <1>5, <1>6, <1>7 DEF Work

\* Stuttering keeps the types.
LEMMA TypeStutter == TypeInv /\ UNCHANGED vars => TypeInv'
BY DEF TypeInv, TypeOK, StoreTypeOK, EnqTypeOK, DeqTypeOK, FlushInv, HolderInv,
   vars, storeVars, enqVars, deqVars, listVars, loaderVars, workerVars

\* A step of the composition keeps the types.
LEMMA TypeStep == TypeInv /\ [Next]_vars => TypeInv'
<1> SUFFICES ASSUME TypeInv, [Next]_vars PROVE TypeInv'
  OBVIOUS
<1>1. CASE Enqueue
  <2>1. StoreTypeOK' /\ EnqTypeOK' /\ FlushInv'
    BY <1>1, EnqTypeStep DEF Enqueue
  <2>2. DeqTypeOK' /\ HolderInv'
    BY <1>1 DEF Enqueue, TypeInv, TypeOK, DeqTypeOK, HolderInv,
                deqVars, listVars, loaderVars, workerVars
  <2> QED BY <2>1, <2>2 DEF TypeInv, TypeOK
<1>2. CASE Dequeue
  <2>1. StoreTypeOK' /\ DeqTypeOK' /\ HolderInv'
    BY <1>2, LoaderTypeStep, WorkTypeStep DEF Dequeue, DeqNext
  <2>2. EnqTypeOK' /\ FlushInv'
    BY <1>2 DEF Dequeue, TypeInv, TypeOK, EnqTypeOK, FlushInv, enqVars
  <2> QED BY <2>1, <2>2 DEF TypeInv, TypeOK
<1>3. CASE UNCHANGED vars
  BY <1>3, TypeStutter
<1> QED BY <1>1, <1>2, <1>3 DEF Next

\* Every variable of both processes keeps its type, the thread that has a
\* mail always has one with a flush ID, and a thread that is past taking a
\* node always has a node.
THEOREM TypeCorrect == Spec => []TypeInv
<1>1. Init => TypeInv
  BY TypeInit
<1>2. TypeInv /\ [Next]_vars => TypeInv'
  BY TypeStep
<1> QED BY <1>1, <1>2, PTL DEF Spec

\* The type invariant the runs check.
THEOREM TypeOKCorrect == Spec => []TypeOK
<1>1. TypeInv => TypeOK
  BY DEF TypeInv
<1> QED BY <1>1, TypeCorrect, PTL

-----------------------------------------------------------------------------
(* Layer 2: where the nodes are.                                           *)

\* Membership in the sets of nodes, as the steps below use it.
LEMMA HolderSets ==
  ASSUME DeqTypeOK
  PROVE  /\ \A n : n \in Held <=> \E w \in Worker : wpc[w] # "get" /\ wnode[w] = n
         /\ OnUsedList = Elems(used)
BY DEF DeqTypeOK, Held, HeldAt, OnUsedList, Elems

\* Steps that move no node: the threads' registers keep what the invariant
\* reads of them.
LEMMA NodesUnmoved ==
  ASSUME NodesAccounted, UNCHANGED <<free, used, Loading, Held, wnode>>,
         \A w \in Worker : wpc'[w] = "get" <=> wpc[w] = "get"
  PROVE  NodesAccounted'
BY DEF NodesAccounted, OnUsedList

LEMMA NodesInit == Init => NodesAccounted
BY DEF Init, DeqInit, NodesAccounted, Loading, OnUsedList, Held, HeldAt

\* A step of the loader loses no node and takes none twice.
LEMMA LoaderNodesStep ==
  ASSUME TypeInv, TypeInv', NodesAccounted, Loader
  PROVE  NodesAccounted'
<1>0. DeqTypeOK /\ HolderInv /\ DeqTypeOK'
  BY DEF TypeInv, TypeOK
<1>1. UNCHANGED <<wpc, wnode>> /\ Held' = Held
  BY DEF Loader, Receive, Idle, ScanTape, OpenScanMess, ScanMess, Query, Test,
         TakeMem, Pop, Read, PutToUsed, AddToHash, workerVars, Held, HeldAt
<1>2. CASE /\ lpc \notin {"read", "put_used"} /\ lpc' \notin {"read", "put_used"}
           /\ UNCHANGED <<free, used>>
  BY <1>1, <1>2, NodesUnmoved DEF Loading
<1>3. CASE Pop
  <2>1. CASE LoadReturns /\ UNCHANGED free
    BY <1>0, <1>2, <1>3, <2>1, LoadReturnsTypes DEF Pop
  <2>2. ASSUME NEW n \in free, free' = free \ {n}, lnode' = n, lpc' = "read"
        PROVE  NodesAccounted'
    <3>1. Loading = {} /\ Loading' = {n} /\ UNCHANGED used
      BY <1>3, <2>2 DEF Pop, Loading
    <3> QED BY <1>1, <2>2, <3>1 DEF NodesAccounted, OnUsedList
  <2> QED BY <1>3, <2>1, <2>2 DEF Pop
<1>4. CASE Read
  <2>1. CASE lpc' = "put_used" /\ UNCHANGED <<free, lnode>>
    BY <1>1, <1>4, <2>1, NodesUnmoved DEF Read, Loading
  <2>2. CASE free' = free \cup {lnode} /\ LoadReturns
    <3>1. Loading = {lnode} /\ Loading' = {} /\ UNCHANGED used
      BY <1>0, <1>4, <2>2, LoadReturnsTypes DEF Read, Loading
    <3> QED BY <1>1, <2>2, <3>1 DEF NodesAccounted, OnUsedList
  <2> QED BY <1>4, <2>1, <2>2 DEF Read
<1>5. CASE PutToUsed
  <2>1. /\ Loading = {lnode} /\ Loading' = {} /\ UNCHANGED free
        /\ used' = Append(used, lnode) /\ lnode \in Node
    BY <1>0, <1>5 DEF PutToUsed, Loading, HolderInv
  <2>2. lnode \notin Elems(used) /\ Injective(used) /\ used \in Seq(Node)
    BY <1>0, <2>1, HolderSets DEF NodesAccounted, Injective, DeqTypeOK
  <2>3. Elems(used') = Elems(used) \cup {lnode} /\ Injective(used')
    BY <2>1, <2>2, AppendElems
  <2>4. OnUsedList = Elems(used) /\ OnUsedList' = Elems(used')
    BY <1>0, HolderSets DEF OnUsedList, Elems
  <2>5. Injective(used') <=>
          \A i, j \in 1 .. Len(used') : used'[i] = used'[j] => i = j
    BY DEF Injective
  <2> QED BY <1>1, <2>1, <2>3, <2>4, <2>5 DEF NodesAccounted
<1>6. CASE Receive \/ Idle \/ ScanTape \/ OpenScanMess \/ ScanMess
  BY <1>0, <1>2, <1>6 DEF Receive, Idle, ScanTape, OpenScanMess, ScanMess,
                          listVars
<1>7. CASE Query \/ Test \/ TakeMem \/ AddToHash
  BY <1>0, <1>2, <1>7, LoadReturnsTypes DEF Query, Test, TakeMem, AddToHash,
                                            listVars
<1> QED BY <1>3, <1>4, <1>5, <1>6, <1>7 DEF Loader

\* A worker's step passes its node on, and a restart collects them all.
LEMMA WorkNodesStep ==
  ASSUME TypeInv, TypeInv', NodesAccounted,
         (\E w \in Worker : Work(w)) \/ DeqRestart
  PROVE  NodesAccounted'
<1>0. DeqTypeOK /\ HolderInv /\ DeqTypeOK'
  BY DEF TypeInv, TypeOK
<1>1. ASSUME NEW w \in Worker, Get(w)
      PROVE  NodesAccounted'
  <2>1. /\ Head(used) \in Elems(used)
        /\ Elems(used) = Elems(used') \cup {Head(used)}
        /\ Injective(used') /\ Head(used) \notin Elems(used')
    <3>1. used \in Seq(Node) /\ used # <<>> /\ Injective(used)
      BY <1>0, <1>1 DEF Get, DeqTypeOK, NodesAccounted, Injective
    <3>2. used' = Tail(used)
      BY <1>1 DEF Get
    <3> QED BY <3>1, <3>2, HeadElems
  <2>2. OnUsedList = Elems(used) /\ OnUsedList' = Elems(used')
    BY <1>0, HolderSets DEF OnUsedList, Elems
  <2>3. /\ wpc[w] = "get" /\ wpc'[w] = "serve" /\ wnode'[w] = Head(used)
        /\ \A v \in Worker \ {w} : wpc'[v] = wpc[v] /\ wnode'[v] = wnode[v]
    BY <1>0, <1>1 DEF Get, DeqTypeOK
  <2>4. Held' = Held \cup {Head(used)}
    <3>1. \A n : n \in Held' <=>
            \E v \in Worker : wpc'[v] # "get" /\ wnode'[v] = n
      BY <1>0 DEF DeqTypeOK, Held, HeldAt
    <3>2. \A n : n \in Held <=> \E v \in Worker : wpc[v] # "get" /\ wnode[v] = n
      BY <1>0, HolderSets
    <3> QED BY <2>3, <3>1, <3>2
  <2>5. UNCHANGED <<free, Loading>>
    BY <1>1 DEF Get, loaderVars, Loading
  <2>6. \A v \in Worker : wpc[v] # "get" => wnode[v] \in Held
    BY <1>0, HolderSets
  <2>7. \A u, v \in Worker :
          u # v /\ wpc'[u] # "get" /\ wpc'[v] # "get" => wnode'[u] # wnode'[v]
    BY <2>1, <2>2, <2>3, <2>6 DEF NodesAccounted
  <2>8. \A i, j \in 1 .. Len(used') : used'[i] = used'[j] => i = j
    BY <2>1 DEF Injective
  <2> QED BY <2>1, <2>2, <2>4, <2>5, <2>7, <2>8 DEF NodesAccounted
<1>2. ASSUME NEW w \in Worker, Serve(w) \/ Erase(w) \/ Unhash(w) \/ ReturnMem(w)
      PROVE  NodesAccounted'
  <2>1. /\ UNCHANGED <<free, used, wnode, lpc, lnode>>
        /\ \A v \in Worker : wpc'[v] = "get" <=> wpc[v] = "get"
    BY <1>0, <1>2 DEF Serve, Erase, Unhash, ReturnMem, DeqTypeOK, listVars,
                      loaderVars
  <2>2. UNCHANGED <<Loading, Held>>
    BY <1>0, <2>1 DEF Loading, Held, HeldAt, DeqTypeOK
  <2> QED BY <2>1, <2>2, NodesUnmoved
<1>3. ASSUME NEW w \in Worker, AppendFree(w)
      PROVE  NodesAccounted'
  <2>1. /\ wpc[w] = "append" /\ wpc'[w] = "get"
        /\ \A v \in Worker \ {w} : wpc'[v] = wpc[v] /\ wnode'[v] = wnode[v]
        /\ free' = free \cup {wnode[w]}
    BY <1>0, <1>3 DEF AppendFree, DeqTypeOK
  <2>2. UNCHANGED <<used, Loading, OnUsedList>>
    BY <1>3 DEF AppendFree, loaderVars, Loading, OnUsedList
  <2>3. wnode[w] \in Held
    BY <1>0, <2>1, HolderSets
  <2>4. Held' = Held \ {wnode[w]}
    <3>1. \A n : n \in Held' <=>
            \E v \in Worker : wpc'[v] # "get" /\ wnode'[v] = n
      BY <1>0 DEF DeqTypeOK, Held, HeldAt
    <3> QED BY <1>0, <2>1, <3>1, HolderSets DEF NodesAccounted
  <2>5. \A u, v \in Worker :
          u # v /\ wpc'[u] # "get" /\ wpc'[v] # "get" => wnode'[u] # wnode'[v]
    BY <2>1 DEF NodesAccounted
  <2> QED BY <2>1, <2>2, <2>3, <2>4, <2>5 DEF NodesAccounted
<1>4. CASE DeqRestart
  BY <1>4 DEF DeqRestart, NodesAccounted, Loading, OnUsedList, Held, HeldAt
<1> QED BY <1>1, <1>2, <1>3, <1>4 DEF Work

\* The steps of the composition.
LEMMA NodesStep ==
  TypeInv /\ TypeInv' /\ NodesAccounted /\ [Next]_vars => NodesAccounted'
<1> SUFFICES ASSUME TypeInv, TypeInv', NodesAccounted, [Next]_vars
             PROVE  NodesAccounted'
  OBVIOUS
<1>1. CASE Dequeue
  BY <1>1, LoaderNodesStep, WorkNodesStep DEF Dequeue, DeqNext
<1>2. CASE UNCHANGED deqVars
  BY <1>2 DEF NodesAccounted, Loading, OnUsedList, Held, HeldAt, deqVars,
              listVars, loaderVars, workerVars
<1>3. CASE UNCHANGED vars
  BY <1>2, <1>3 DEF vars
<1> QED BY <1>1, <1>2, <1>3 DEF Next, Enqueue

\* Every MESSAGE node is on the free list, in the loader's hands, on the used
\* list or in exactly one worker's hands: none is lost, none is shared.
THEOREM NodesNeverLost == Spec => []NodesAccounted
<1>1. Init => NodesAccounted
  BY NodesInit
<1>2. TypeInv /\ TypeInv' /\ NodesAccounted /\ [Next]_vars => NodesAccounted'
  BY NodesStep
<1> QED BY <1>1, <1>2, TypeCorrect, PTL DEF Spec

-----------------------------------------------------------------------------
(* Layer 3: who may write which mess file, and which block.                *)

\* The flushing thread has saved m and not fed it back yet.
Saving(m) ==
  /\ fmail = m
  /\ flush_action[m] = "whole"
  /\ \/ fpc = "notify"
     \/ fpc = "feedback" /\ fresult = "ok"

\* No two contexts share a flush ID, every complete file has an ID that has
\* been given out, and a context's own file is complete only once its mail is
\* saved: so opening, cancelling and giving up never touch a complete file.
FilesInv ==
  /\ \A m, k \in Mail : m # k /\ flush_ID[m] # 0 => flush_ID[m] # flush_ID[k]
  /\ \A m \in Mail : flush_ID[m] <= current_ID
  /\ \A i \in ID : mess[i] \in Mail => i <= current_ID
  /\ \A m \in Mail :
       flush_ID[m] # 0 /\ mess[flush_ID[m]] \in Mail => Saving(m)
  /\ fpc = "tape" => tape[fslot.at] = NoMail

LEMMA FilesInit == Init => FilesInv
BY StoreAssumption DEF Init, StoreInit, EnqInit, FilesInv, ID

\* A step of the delivery process only empties blocks and files.
LEMMA DeqOnlyErases ==
  ASSUME TypeInv, DeqNext
  PROVE  /\ \A p \in Pos : tape'[p] \in {tape[p], NoMail}
         /\ \A i \in ID : mess'[i] \in {mess[i], NoMail}
<1>0. StoreTypeOK
  BY DEF TypeInv, TypeOK
<1>1. CASE Loader \/ DeqRestart
  BY <1>1 DEF Loader, Receive, Idle, ScanTape, OpenScanMess, ScanMess, Query,
       Test, TakeMem, Pop, Read, PutToUsed, AddToHash, DeqRestart, storeVars
<1>2. ASSUME NEW w \in Worker, Work(w)
      PROVE  /\ \A p \in Pos : tape'[p] \in {tape[p], NoMail}
             /\ \A i \in ID : mess'[i] \in {mess[i], NoMail}
  <2>1. CASE Erase(w)
    BY <1>0, <2>1 DEF Erase, EraseSlot, StoreTypeOK
  <2>2. CASE Get(w) \/ Serve(w) \/ Unhash(w) \/ ReturnMem(w) \/ AppendFree(w)
    BY <2>2 DEF Get, Serve, Unhash, ReturnMem, AppendFree, storeVars
  <2> QED BY <1>2, <2>1, <2>2 DEF Work
<1> QED BY <1>1, <1>2 DEF DeqNext

LEMMA EnqFilesStep ==
  ASSUME TypeInv, TypeInv', FilesInv, EnqNext
  PROVE  FilesInv'
<1> USE StoreAssumption
<1>0. /\ StoreTypeOK /\ EnqTypeOK /\ FlushInv
      /\ StoreTypeOK' /\ EnqTypeOK' /\ FlushInv'
  BY DEF TypeInv, TypeOK
<1>1. ASSUME NEW m \in Mail, NEW action \in {"part", "whole"},
             PutToQueue(m, action)
      PROVE  FilesInv'
  <2>1. UNCHANGED <<mess, tape, fpc, fmail, fslot, fresult>>
    BY <1>1 DEF PutToQueue, storeVars
  <2>2. m # fmail
    BY <1>0, <1>1 DEF PutToQueue, FlushInv
  <2>3. \A k \in Mail : k # m => flush_action'[k] = flush_action[k]
    BY <1>0, <1>1 DEF PutToQueue, EnqTypeOK
  <2>4. \A k \in Mail : Saving(k) => Saving(k)'
    BY <2>1, <2>2, <2>3 DEF Saving
  <2>5. CASE flush_ID[m] # 0 /\ UNCHANGED <<current_ID, flush_ID>>
    BY <2>1, <2>4, <2>5 DEF FilesInv
  <2>6. CASE /\ flush_ID[m] = 0
             /\ current_ID' = current_ID + 1
             /\ flush_ID' = [flush_ID EXCEPT ![m] = current_ID + 1]
    <3>1. /\ flush_ID'[m] = current_ID + 1
          /\ \A k \in Mail : k # m => flush_ID'[k] = flush_ID[k]
          /\ \A k \in Mail : flush_ID[k] <= current_ID /\ flush_ID[k] \in Nat
          /\ current_ID \in Nat /\ current_ID + 1 \in ID
      BY <1>0, <1>1, <2>6 DEF EnqTypeOK, FilesInv, PutToQueue, ID
    <3>2. mess[current_ID + 1] \notin Mail
      BY <3>1 DEF FilesInv
    <3>3. \A i \in ID : i \in Nat
      BY DEF ID
    <3> QED BY <2>1, <2>4, <2>6, <3>1, <3>2, <3>3 DEF FilesInv
  <2> QED BY <1>1, <2>5, <2>6 DEF PutToQueue
<1>2. ASSUME NEW m \in Mail, Cancel(m)
      PROVE  FilesInv'
  <2>1. /\ \A k \in Mail : k # m => flush_ID'[k] = flush_ID[k]
        /\ flush_ID'[m] = 0 /\ flush_ID[m] \in ID /\ m # fmail
        /\ \A i \in ID : i # flush_ID[m] => mess'[i] = mess[i]
        /\ mess'[flush_ID[m]] = NoMail
        /\ UNCHANGED <<current_ID, flush_action, fpc, fmail, fslot, fresult, tape>>
    BY <1>0, <1>2 DEF Cancel, EnqTypeOK, StoreTypeOK, FlushInv, ID
  <2>2. \A k \in Mail : flush_ID[k] # 0 => flush_ID[k] \in ID
    BY <1>0 DEF EnqTypeOK, ID
  <2>3. current_ID \in Nat
    BY <1>0 DEF EnqTypeOK
  <2> QED BY <2>1, <2>2, <2>3 DEF FilesInv, Saving
<1>3. CASE Take
  BY <1>0, <1>3 DEF Take, FilesInv, Saving, storeVars, FlushInv
<1>4. CASE FindBlock
  BY <1>0, <1>4 DEF FindBlock, FilesInv, Saving, storeVars, FreeBlocks, Block
<1>5. CASE WriteBlock
  BY <1>0, <1>5 DEF WriteBlock, FilesInv, Saving
<1>6. CASE OpenFile
  <2>1. /\ fmail \in Mail /\ flush_ID[fmail] \in ID
        /\ \A i \in ID : i # flush_ID[fmail] => mess'[i] = mess[i]
        /\ mess'[flush_ID[fmail]] = Incomplete
        /\ UNCHANGED <<current_ID, flush_ID, flush_action, fmail, tape>>
        /\ fpc = "open" /\ fpc' = "body"
    BY <1>0, <1>6 DEF OpenFile, StoreTypeOK, FlushInv
  <2>2. \A k \in Mail : flush_ID[k] # 0 => flush_ID[k] \in ID
    BY <1>0 DEF EnqTypeOK, ID
  <2> QED BY <2>1, <2>2 DEF FilesInv, Saving
<1>7. CASE OpenFails
  BY <1>7 DEF OpenFails, FilesInv, Saving, storeVars
<1>8. CASE WritePart
  BY <1>8 DEF WritePart, FilesInv, Saving, storeVars
<1>9. CASE WriteWhole
  <2>1. /\ fmail \in Mail /\ flush_ID[fmail] \in ID /\ flush_ID[fmail] # 0
        /\ \A i \in ID : i # flush_ID[fmail] => mess'[i] = mess[i]
        /\ flush_action'[fmail] = "whole"
        /\ UNCHANGED <<current_ID, flush_ID, fmail, tape>>
        /\ fpc = "body" /\ fpc' = "notify"
    BY <1>0, <1>9 DEF WriteWhole, StoreTypeOK, FlushInv, ID
  <2>2. \A k \in Mail : flush_ID[k] # 0 => flush_ID[k] \in ID
    BY <1>0 DEF EnqTypeOK, ID
  <2>3. \A m, k \in Mail : m # k /\ flush_ID[m] # 0 => flush_ID[m] # flush_ID[k]
    BY DEF FilesInv
  <2>4. \A m \in Mail : m = fmail => Saving(m)'
    BY <2>1 DEF Saving
  <2>5. ASSUME NEW m \in Mail, m # fmail, flush_ID'[m] # 0
        PROVE  mess'[flush_ID'[m]] \notin Mail
    <3>1. flush_ID[m] \in ID /\ flush_ID[m] # flush_ID[fmail]
      BY <2>1, <2>2, <2>3, <2>5
    <3>2. mess'[flush_ID'[m]] = mess[flush_ID[m]]
      BY <2>1, <3>1
    <3>3. ~ Saving(m)
      BY <2>1 DEF Saving
    <3> QED BY <2>1, <2>5, <3>2, <3>3 DEF FilesInv
  <2>6. \A m \in Mail :
          flush_ID'[m] # 0 /\ mess'[flush_ID'[m]] \in Mail => Saving(m)'
    BY <2>4, <2>5
  <2>7. \A i \in ID : mess'[i] \in Mail => i <= current_ID'
    BY <2>1 DEF FilesInv
  <2> QED BY <2>1, <2>6, <2>7 DEF FilesInv
<1>10. CASE WriteFails
  <2>1. /\ fmail \in Mail /\ flush_ID[fmail] \in ID
        /\ \A i \in ID : i # flush_ID[fmail] => mess'[i] = mess[i]
        /\ mess'[flush_ID[fmail]] = NoMail
        /\ UNCHANGED <<current_ID, flush_ID, flush_action, fmail, tape>>
        /\ fpc = "body" /\ fpc' = "feedback"
    BY <1>0, <1>10 DEF WriteFails, StoreTypeOK, FlushInv
  <2>2. \A k \in Mail : flush_ID[k] # 0 => flush_ID[k] \in ID
    BY <1>0 DEF EnqTypeOK, ID
  <2> QED BY <2>1, <2>2 DEF FilesInv, Saving
<1>11. CASE Notify
  BY <1>11 DEF Notify, FilesInv, Saving
<1>12. CASE Feedback
  <2>1. /\ \A k \in Mail : k # fmail => /\ flush_ID'[k] = flush_ID[k]
                                       /\ flush_action'[k] = flush_action[k]
        /\ UNCHANGED <<current_ID, mess, tape>>
        /\ fmail \in Mail /\ fpc = "feedback" /\ fpc' = "idle"
    BY <1>0, <1>12 DEF Feedback, EnqTypeOK, FlushInv, storeVars
  <2>2. CASE flush_ID' = [flush_ID EXCEPT ![fmail] = 0]
    <3>1. 0 <= current_ID /\ flush_ID'[fmail] = 0
      BY <1>0, <2>1, <2>2 DEF EnqTypeOK
    <3> QED BY <2>1, <3>1 DEF FilesInv, Saving
  <2>3. CASE /\ flush_ID' = flush_ID /\ flush_action' = flush_action
             /\ flush_action[fmail] = "part"
    BY <2>1, <2>3 DEF FilesInv, Saving
  <2> QED BY <1>12, <2>2, <2>3 DEF Feedback
<1>13. CASE EnqRestart
  <2>1. /\ \A m \in Mail : flush_ID'[m] = 0
        /\ \A i \in CompleteIDs : i <= current_ID'
        /\ \A i \in ID : mess'[i] \in Mail => i \in CompleteIDs
        /\ fpc' = "idle"
    BY <1>13 DEF EnqRestart, CompleteIDs
  <2>2. 0 <= current_ID'
    BY <1>0 DEF EnqTypeOK
  <2> QED BY <2>1, <2>2 DEF FilesInv
<1> QED
  BY <1>1, <1>2, <1>3, <1>4, <1>5, <1>6, <1>7, <1>8, <1>9, <1>10, <1>11,
     <1>12, <1>13 DEF EnqNext, Clients, FlushThread

\* The files' owners, through every step of the composition.
LEMMA FilesStep ==
  TypeInv /\ TypeInv' /\ FilesInv /\ [Next]_vars => FilesInv'
<1> SUFFICES ASSUME TypeInv, TypeInv', FilesInv, [Next]_vars
             PROVE  FilesInv'
  OBVIOUS
<1>1. CASE Enqueue
  BY <1>1, EnqFilesStep DEF Enqueue
<1>2. CASE Dequeue
  <2>1. /\ \A p \in Pos : tape'[p] \in {tape[p], NoMail}
        /\ \A i \in ID : mess'[i] \in {mess[i], NoMail}
    BY <1>2, DeqOnlyErases DEF Dequeue
  <2>2. /\ UNCHANGED enqVars
        /\ fpc = "tape" => fslot.at \in Pos
        /\ \A m \in Mail : flush_ID[m] # 0 => flush_ID[m] \in ID
    BY <1>2 DEF Dequeue, TypeInv, TypeOK, FlushInv, EnqTypeOK, Slot, ID
  <2> QED BY <2>1, <2>2, StoreAssumption DEF FilesInv, Saving, enqVars
<1>3. CASE UNCHANGED vars
  BY <1>3 DEF vars, storeVars, enqVars, FilesInv, Saving
<1> QED BY <1>1, <1>2, <1>3 DEF Next

\* The smtp process never overwrites or removes a file that holds a complete
\* mail: no context, nor a restart, is given the ID of one.
THEOREM FilesHaveOwners == Spec => []FilesInv
<1>1. Init => FilesInv
  BY FilesInit
<1>2. TypeInv /\ TypeInv' /\ FilesInv /\ [Next]_vars => FilesInv'
  BY FilesStep
<1> QED BY <1>1, <1>2, TypeCorrect, PTL DEF Spec

-----------------------------------------------------------------------------
(* Layer 4: which node stands for which slot.                              *)

\* A step of the smtp process changes no complete mail.
LEMMA EnqKeepsMail ==
  ASSUME TypeInv, FilesInv, EnqNext
  PROVE  /\ \A p \in Pos : tape[p] \in Mail => tape'[p] = tape[p]
         /\ \A i \in ID : mess[i] \in Mail => mess'[i] = mess[i]
<1> USE StoreAssumption
<1>0. StoreTypeOK /\ EnqTypeOK /\ FlushInv
  BY DEF TypeInv, TypeOK
<1>1. ASSUME NEW m \in Mail, Cancel(m)
      PROVE  tape' = tape /\ \A i \in ID : mess[i] \in Mail => mess'[i] = mess[i]
  <2>1. m # fmail /\ flush_ID[m] # 0
    BY <1>0, <1>1 DEF Cancel, FlushInv
  <2>2. mess[flush_ID[m]] \notin Mail
    BY <2>1 DEF FilesInv, Saving
  <2> QED BY <1>0, <1>1, <2>2 DEF Cancel, StoreTypeOK
<1>2. CASE WriteBlock
  BY <1>0, <1>2 DEF WriteBlock, StoreTypeOK, FilesInv
<1>3. CASE OpenFile \/ WriteWhole \/ WriteFails
  <2>1. /\ fmail \in Mail /\ flush_ID[fmail] # 0
        /\ fpc \in {"open", "body"}
    BY <1>0, <1>3 DEF OpenFile, WriteWhole, WriteFails, FlushInv, ID
  <2>2. mess[flush_ID[fmail]] \notin Mail
    BY <2>1 DEF FilesInv, Saving
  <2>3. tape' = tape
    BY <1>3 DEF OpenFile, WriteWhole, WriteFails
  <2>4. \A i \in ID : i # flush_ID[fmail] => mess'[i] = mess[i]
    BY <1>0, <1>3 DEF OpenFile, WriteWhole, WriteFails, StoreTypeOK
  <2> QED BY <2>2, <2>3, <2>4
<1>4. CASE EnqRestart
  BY <1>0, <1>4 DEF EnqRestart, IncompleteIDs
<1>5. CASE Take \/ FindBlock \/ OpenFails \/ WritePart \/ Notify \/ Feedback
  BY <1>5 DEF Take, FindBlock, OpenFails, WritePart, Notify, Feedback, storeVars
<1>6. ASSUME NEW m \in Mail, NEW action \in {"part", "whole"},
             PutToQueue(m, action)
      PROVE  UNCHANGED <<tape, mess>>
  BY <1>6 DEF PutToQueue, storeVars
<1> QED BY <1>1, <1>2, <1>3, <1>4, <1>5, <1>6 DEF EnqNext, Clients, FlushThread

\* Each node that a worker has or may take stands for one slot, alone, and
\* the slot's key keeps the loader away from it.
KeyInv ==
  /\ \A n \in Keyed : node[n].slot \in Slot
  /\ \A n \in Live :
       node[n].mail \in Mail /\ Content(node[n].slot) = node[n].mail
  /\ \A a, b \in Keyed : node[a].slot = node[b].slot => a = b
  /\ \A n \in Keyed : \/ node[n].slot \in hashed
                      \/ lpc = "hash" /\ node[n].slot = lslot

\* What the loader knows of the slot it is loading, once its query is past.
LoadInv ==
  /\ lpc \in {"test", "mem", "pop", "read", "put_used"}
       => \A n \in Keyed : node[n].slot # lslot
  /\ lpc \in {"read", "put_used"} => node[lnode].slot = lslot
  /\ lpc \in {"mem", "pop", "read"} /\ lslot.type = "tape"
       => Content(lslot) \in Mail
  /\ lpc = "put_used" => /\ Content(lslot) \in Mail
                         /\ node[lnode].mail = Content(lslot)

\* A worker erases only what the hooks have been given.
ServedInv ==
  \A w \in Worker : wpc[w] = "erase" => handled[node[wnode[w]].mail] > 0

SlotInv == KeyInv /\ LoadInv /\ ServedInv

\* The hash table the loader is about to add a key to is not full.
HashRoom == lpc = "hash" => HasRoom(lslot)

LEMMA SlotInit == Init => SlotInv
BY DEF Init, DeqInit, SlotInv, KeyInv, LoadInv, ServedInv, Keyed, Live,
       OnUsedList, HeldAt

\* The smtp process disturbs none of it.
LEMMA EnqSlotStep ==
  ASSUME TypeInv, FilesInv, SlotInv, EnqNext, UNCHANGED deqVars
  PROVE  SlotInv'
<1>1. UNCHANGED <<node, hashed, lpc, lslot, lnode, wpc, wnode, handled, Keyed, Live>>
  BY DEF deqVars, listVars, loaderVars, workerVars, Keyed, Live, HeldAt, OnUsedList
<1>2. \A s \in Slot : Content(s) \in Mail => Content(s)' = Content(s)
  <2>1. /\ \A p \in Pos : tape[p] \in Mail => tape'[p] = tape[p]
        /\ \A i \in ID : mess[i] \in Mail => mess'[i] = mess[i]
    BY EnqKeepsMail
  <2> QED BY <2>1 DEF Slot, Content
<1>3. KeyInv'
  <2>1. Keyed' = Keyed /\ Live' = Live /\ Live \subseteq Keyed
    BY <1>1 DEF Keyed, Live, HeldAt
  <2>2. \A n \in Live :
          node'[n].mail \in Mail /\ Content(node[n].slot)' = node'[n].mail
    BY <1>1, <1>2, <2>1 DEF SlotInv, KeyInv, Content
  <2> QED BY <1>1, <2>1, <2>2 DEF SlotInv, KeyInv, Content
<1>4. LoadInv'
  <2>1. /\ lpc \in {"mem", "pop", "read", "put_used"} => lslot \in Slot
        /\ Keyed' = Keyed
    BY <1>1 DEF TypeInv, HolderInv
  <2> QED BY <1>1, <1>2, <2>1 DEF SlotInv, LoadInv, Content
<1>5. ServedInv'
  BY <1>1 DEF SlotInv, ServedInv
<1> QED BY <1>3, <1>4, <1>5 DEF SlotInv

\* The loader gives a node a slot that no other node has.
LEMMA LoaderSlotStep ==
  ASSUME TypeInv, TypeInv', NodesAccounted, SlotInv, HashRoom, Loader
  PROVE  SlotInv'
<1>0. /\ StoreTypeOK /\ DeqTypeOK /\ HolderInv /\ DeqTypeOK' /\ HolderInv'
      /\ KeyInv /\ LoadInv /\ ServedInv
  BY DEF TypeInv, TypeOK, SlotInv
<1>1. UNCHANGED <<wpc, wnode, handled, tape, mess>>
  BY DEF Loader, Receive, Idle, ScanTape, OpenScanMess, ScanMess, Query, Test,
         TakeMem, Pop, Read, PutToUsed, AddToHash, workerVars, storeVars
<1>2. /\ Keyed \subseteq OnUsedList \cup Held
      /\ Live \subseteq Keyed
      /\ \A w \in Worker : wpc[w] = "erase" => wnode[w] \in Held
  BY <1>0 DEF Keyed, Live, Held, HeldAt, DeqTypeOK
<1>3. \A n \in OnUsedList \cup Held : node'[n] = node[n]
  <2>1. CASE Pop
    BY <1>0, <2>1 DEF Pop, NodesAccounted, DeqTypeOK
  <2>2. CASE Read
    BY <1>0, <2>2 DEF Read, NodesAccounted, DeqTypeOK, Loading
  <2>3. CASE UNCHANGED node
    BY <2>3
  <2> QED BY <2>1, <2>2, <2>3 DEF Loader, Receive, Idle, ScanTape,
        OpenScanMess, ScanMess, Query, Test, TakeMem, PutToUsed, AddToHash, listVars
<1>4. ServedInv'
  BY <1>0, <1>1, <1>2, <1>3 DEF ServedInv
<1>5. ASSUME UNCHANGED used
      PROVE  /\ Keyed' = Keyed
             /\ \A n \in Keyed : node'[n] = node[n]
             /\ (\A n \in Keyed : node[n].slot \in Slot)'
             /\ (\A n \in Live : node[n].mail \in Mail
                                  /\ Content(node[n].slot) = node[n].mail)'
             /\ (\A a, b \in Keyed : node[a].slot = node[b].slot => a = b)'
  <2>1. Keyed' = Keyed /\ Live' = Live
    BY <1>1, <1>5 DEF Keyed, Live, OnUsedList, HeldAt
  <2>2. \A n \in Keyed : node'[n] = node[n]
    BY <1>2, <1>3
  <2>3. (\A n \in Live : node[n].mail \in Mail
                         /\ Content(node[n].slot) = node[n].mail)'
    BY <1>0, <1>1, <1>2, <2>1, <2>2 DEF KeyInv, Content
  <2> QED BY <1>0, <2>1, <2>2, <2>3 DEF KeyInv
<1>6. CASE lpc # "hash" /\ UNCHANGED <<used, hashed>>
  <2>1. KeyInv'
    <3>1. \A n \in Keyed : node[n].slot \in hashed
      BY <1>0, <1>6 DEF KeyInv
    <3>2. \A n \in Keyed' : node'[n].slot \in hashed'
      BY <1>5, <1>6, <3>1
    <3> QED BY <1>5, <1>6, <3>2 DEF KeyInv
  <2>2. LoadInv'
    <3> DEFINE late == {"test", "mem", "pop", "read", "put_used"}
    <3>1. CASE lpc' \notin late
      BY <3>1 DEF LoadInv
    <3>2. LoadReturns => lpc' \notin late
      BY <1>0 DEF LoadReturns, DeqTypeOK
    <3>3. ASSUME lpc' \in late, lslot' = lslot,
                 lpc \in late \/ lslot \notin hashed
          PROVE  \A n \in Keyed' : node'[n].slot # lslot'
      BY <1>0, <1>5, <1>6, <3>3 DEF KeyInv, LoadInv
    <3>4. CASE Query
      BY <3>1, <3>2, <3>3, <3>4 DEF Query, LoadInv
    <3>5. CASE Test
      <4>1. CASE ~ LoadReturns
        <5>1. /\ lpc = "test" /\ lslot' = lslot
              /\ \/ lpc' = "pop" /\ lslot.type = "tape"
                 \/ lpc' = "mem"
              /\ Content(lslot) # NoMail
          BY <3>5, <4>1 DEF Test
        <5>2. lslot \in Slot
          BY <1>0, <5>1 DEF HolderInv
        <5>3. lslot.type = "tape" => Content(lslot) \in Mail
          BY <1>0, <5>1, <5>2 DEF StoreTypeOK, Content, Slot
        <5> QED BY <1>1, <3>3, <5>1, <5>3 DEF LoadInv, Content
      <4> QED BY <3>1, <3>2, <4>1
    <3>6. CASE TakeMem
      <4>1. CASE ~ LoadReturns
        <5>1. lpc = "mem" /\ lpc' = "pop" /\ lslot' = lslot
          BY <3>6, <4>1 DEF TakeMem
        <5>2. lslot.type = "tape" => Content(lslot)' \in Mail
          BY <1>0, <1>1, <5>1 DEF LoadInv, Content
        <5> QED BY <3>3, <5>1, <5>2 DEF LoadInv, Content
      <4> QED BY <3>1, <3>2, <4>1
    <3>7. CASE Pop
      <4>1. CASE ~ LoadReturns
        <5>1. /\ lpc = "pop" /\ lpc' = "read" /\ lslot' = lslot
              /\ node'[lnode'].slot = lslot
          BY <1>0, <3>7, <4>1 DEF Pop, DeqTypeOK
        <5>2. lslot.type = "tape" => Content(lslot)' \in Mail
          BY <1>0, <1>1, <5>1 DEF LoadInv, Content
        <5> QED BY <3>3, <5>1, <5>2 DEF LoadInv, Content
      <4> QED BY <3>1, <3>2, <4>1
    <3>8. CASE Read
      <4>1. CASE ~ LoadReturns
        <5>1. /\ lpc = "read" /\ lpc' = "put_used" /\ lslot' = lslot
              /\ lslot.type = "mess" => mess[lslot.at] \in Mail
              /\ node' = [node EXCEPT ![lnode].mail = Content(lslot)]
              /\ lnode' = lnode
          BY <3>8, <4>1 DEF Read
        <5>2. Content(lslot) \in Mail /\ Content(lslot)' = Content(lslot)
          BY <1>0, <1>1, <5>1 DEF LoadInv, Content, HolderInv, Slot
        <5>3. /\ node'[lnode].slot = node[lnode].slot
              /\ node'[lnode].mail = Content(lslot)
          BY <1>0, <5>1 DEF DeqTypeOK, HolderInv
        <5>4. node[lnode].slot = lslot
          BY <1>0, <5>1 DEF LoadInv
        <5> QED BY <3>3, <5>1, <5>2, <5>3, <5>4 DEF LoadInv, Content
      <4> QED BY <3>1, <3>2, <4>1
    <3>9. CASE Receive \/ Idle \/ ScanTape \/ OpenScanMess \/ ScanMess
      BY <3>1, <3>9 DEF Receive, Idle, ScanTape, OpenScanMess, ScanMess
    <3> QED BY <1>6, <3>4, <3>5, <3>6, <3>7, <3>8, <3>9
            DEF Loader, PutToUsed, AddToHash
  <2> QED BY <1>4, <2>1, <2>2 DEF SlotInv
<1>7. CASE AddToHash
  <2>1. hashed' = hashed \cup {lslot} /\ UNCHANGED used
    BY <1>7 DEF AddToHash, HashRoom
  <2>2. KeyInv'
    <3>1. \A n \in Keyed : node[n].slot \in hashed'
      BY <1>0, <2>1 DEF KeyInv
    <3>2. \A n \in Keyed' : node'[n].slot \in hashed'
      BY <1>5, <2>1, <3>1
    <3> QED BY <1>5, <2>1, <3>2 DEF KeyInv
  <2>3. LoadInv'
    BY <1>0, <1>7 DEF AddToHash, LoadReturns, LoadInv, DeqTypeOK
  <2> QED BY <1>4, <2>2, <2>3 DEF SlotInv
<1>8. CASE PutToUsed
  <2>1. /\ lpc = "put_used" /\ lpc' = "hash" /\ lslot' = lslot
        /\ UNCHANGED <<node, hashed>> /\ lslot \in Slot
    BY <1>0, <1>8 DEF PutToUsed, HolderInv
  <2>2. OnUsedList' = OnUsedList \cup {lnode}
    <3>1. used \in Seq(Node) /\ lnode \in Node /\ used' = Append(used, lnode)
      BY <1>0, <1>8 DEF PutToUsed, DeqTypeOK, HolderInv
    <3>2. Elems(used') = Elems(used) \cup {lnode}
      BY <3>1, AppendElems
    <3>3. OnUsedList = Elems(used) /\ OnUsedList' = Elems(used')
      BY DEF OnUsedList, Elems
    <3> QED BY <3>2, <3>3
  <2>3. Keyed' = Keyed \cup {lnode} /\ Live' = Live \cup {lnode}
    BY <1>1, <2>2 DEF Keyed, Live, HeldAt
  <2>4. /\ node[lnode].slot = lslot /\ node[lnode].mail = Content(lslot)
        /\ Content(lslot) \in Mail
        /\ \A n \in Keyed : node[n].slot # lslot
    BY <1>0, <2>1 DEF LoadInv
  <2>5. KeyInv'
    BY <1>0, <1>1, <2>1, <2>3, <2>4 DEF KeyInv, Content
  <2>6. LoadInv'
    BY <2>1 DEF LoadInv
  <2> QED BY <1>4, <2>5, <2>6 DEF SlotInv
<1> QED BY <1>6, <1>7, <1>8 DEF Loader, Receive, Idle, ScanTape, OpenScanMess,
        ScanMess, Query, Test, TakeMem, Pop, Read, listVars

\* Steps that only take nodes out of the workers' hands or off the used list,
\* and that neither remove the key nor the mail of a node that stays.
LEMMA SlotShrinks ==
  ASSUME KeyInv, LoadInv, Live' \subseteq Keyed',
         Keyed' \subseteq Keyed, Live' \subseteq Live,
         UNCHANGED <<lpc, lslot, lnode>>,
         \A n \in Keyed' : /\ node'[n] = node[n]
                           /\ node[n].slot \in hashed => node[n].slot \in hashed',
         lpc \in {"read", "put_used"} => node'[lnode] = node[lnode],
         \A n \in Live' : Content(node[n].slot)' = Content(node[n].slot),
         lpc \in {"mem", "pop", "read", "put_used"} =>
           Content(lslot)' = Content(lslot)
  PROVE  KeyInv' /\ LoadInv'
<1>1. KeyInv'
  <2>1. (\A n \in Keyed : node[n].slot \in Slot)'
    BY DEF KeyInv
  <2>2. (\A n \in Live : node[n].mail \in Mail
                       /\ Content(node[n].slot) = node[n].mail)'
    BY DEF KeyInv
  <2>3. (\A a, b \in Keyed : node[a].slot = node[b].slot => a = b)'
    BY DEF KeyInv
  <2>4. (\A n \in Keyed : \/ node[n].slot \in hashed
                          \/ lpc = "hash" /\ node[n].slot = lslot)'
    BY DEF KeyInv
  <2> QED BY <2>1, <2>2, <2>3, <2>4 DEF KeyInv
<1>2. LoadInv'
  BY DEF LoadInv
<1> QED BY <1>1, <1>2

\* A worker's step keeps the other nodes' slots, keys and mails.
LEMMA WorkSlotStep ==
  ASSUME TypeInv, TypeInv', NodesAccounted, SlotInv, NEW w \in Worker, Work(w)
  PROVE  SlotInv'
<1>0. /\ StoreTypeOK /\ DeqTypeOK /\ HolderInv
      /\ KeyInv /\ LoadInv /\ ServedInv
  BY DEF TypeInv, TypeOK, SlotInv
<1>1. UNCHANGED <<lpc, lslot, lnode>>
  BY DEF Work, Get, Serve, Erase, Unhash, ReturnMem, AppendFree, loaderVars
<1>2. /\ \A n : n \in Keyed <=>
           \/ n \in OnUsedList
           \/ \E v \in Worker : wpc[v] \in {"serve", "erase", "unhash"} /\ wnode[v] = n
      /\ \A n : n \in Live <=>
           \/ n \in OnUsedList
           \/ \E v \in Worker : wpc[v] \in {"serve", "erase"} /\ wnode[v] = n
      /\ \A n : n \in Held <=> \E v \in Worker : wpc[v] # "get" /\ wnode[v] = n
  BY <1>0, HolderSets DEF Keyed, Live, HeldAt
<1>3. /\ \A n : n \in Keyed' <=>
           \/ n \in OnUsedList'
           \/ \E v \in Worker : wpc'[v] \in {"serve", "erase", "unhash"} /\ wnode'[v] = n
      /\ \A n : n \in Live' <=>
           \/ n \in OnUsedList'
           \/ \E v \in Worker : wpc'[v] \in {"serve", "erase"} /\ wnode'[v] = n
  BY DEF Keyed, Live, HeldAt
<1>4. Live' \subseteq Keyed'
  BY <1>3
<1>5. \A v \in Worker \ {w} : wpc'[v] = wpc[v] /\ wnode'[v] = wnode[v]
  BY <1>0 DEF Work, Get, Serve, Erase, Unhash, ReturnMem, AppendFree, DeqTypeOK
<1>6. ASSUME UNCHANGED used, wnode'[w] = wnode[w],
             wpc'[w] \in {"serve", "erase"} => wpc[w] \in {"serve", "erase"},
             wpc'[w] = "unhash" => wpc[w] = "erase"
      PROVE  Keyed' \subseteq Keyed /\ Live' \subseteq Live
  BY <1>2, <1>3, <1>5, <1>6 DEF OnUsedList
<1>7. \A v \in Worker : wpc[v] # "get" /\ v # w /\ wpc[w] # "get"
        => wnode[v] # wnode[w]
  BY DEF NodesAccounted
<1>8. wpc[w] # "get" => /\ wnode[w] \notin OnUsedList
                        /\ wnode[w] \notin Loading
  BY <1>2 DEF NodesAccounted
<1>9. CASE Get(w)
  <2>1. Head(used) \in OnUsedList /\ OnUsedList' \subseteq OnUsedList
    <3>1. /\ used \in Seq(Node) /\ used # <<>> /\ used' = Tail(used)
      BY <1>0, <1>9 DEF Get, DeqTypeOK
    <3>2. Head(used) \in Elems(used) /\ Elems(used') \subseteq Elems(used)
      BY <3>1, HeadElems
    <3> QED BY <3>2 DEF OnUsedList, Elems
  <2>2. wpc'[w] = "serve" /\ wnode'[w] = Head(used)
    BY <1>0, <1>9 DEF Get, DeqTypeOK
  <2>3. Keyed' \subseteq Keyed /\ Live' \subseteq Live
    BY <1>2, <1>3, <1>5, <2>1, <2>2
  <2>4. UNCHANGED <<node, hashed, tape, mess, handled>>
    BY <1>9 DEF Get, storeVars
  <2>5. KeyInv' /\ LoadInv'
    BY <1>0, <1>1, <1>4, <2>3, <2>4, SlotShrinks DEF Content
  <2>6. ServedInv'
    BY <1>0, <1>5, <2>2, <2>4 DEF ServedInv
  <2> QED BY <2>5, <2>6 DEF SlotInv
<1>10. CASE Serve(w)
  <2>1. /\ wpc[w] = "serve" /\ wpc'[w] = "erase" /\ UNCHANGED wnode
        /\ UNCHANGED <<used, node, hashed, tape, mess>>
    BY <1>0, <1>10 DEF Serve, listVars, storeVars, DeqTypeOK
  <2>2. KeyInv' /\ LoadInv'
    BY <1>0, <1>1, <1>4, <1>6, <2>1, SlotShrinks DEF Content
  <2>3. wnode[w] \in Live /\ node[wnode[w]].mail \in Mail
    BY <1>0, <1>2, <2>1 DEF KeyInv
  <2>4. ASSUME NEW v \in Worker, wpc'[v] = "erase"
        PROVE  handled'[node'[wnode'[v]].mail] > 0
    <3>1. node[wnode[v]].mail \in Mail
      <4>1. wnode[v] \in Live
        BY <1>2, <1>5, <2>1, <2>4
      <4> QED BY <1>0, <4>1 DEF KeyInv
    <3>2. \A m \in Mail : /\ handled'[m] >= handled[m]
                          /\ m = node[wnode[w]].mail => handled'[m] > 0
      BY <1>0, <1>10 DEF Serve, DeqTypeOK
    <3>3. v # w => handled[node[wnode[v]].mail] > 0
      BY <1>0, <1>5, <2>4 DEF ServedInv
    <3>4. \A m \in Mail : handled[m] \in Nat /\ handled'[m] \in Nat
      BY <1>0 DEF TypeInv, TypeOK, DeqTypeOK
    <3> QED BY <2>1, <3>1, <3>2, <3>3, <3>4
  <2> QED BY <2>2, <2>4 DEF SlotInv, ServedInv
<1>11. CASE Erase(w)
  <2> DEFINE s == node[wnode[w]].slot
  <2>1. /\ wpc[w] = "erase" /\ wpc'[w] = "unhash" /\ UNCHANGED wnode
        /\ UNCHANGED <<used, node, hashed, handled>> /\ EraseSlot(s)
    BY <1>0, <1>11 DEF Erase, listVars, DeqTypeOK
  <2>2. wnode[w] \in Keyed /\ s \in Slot
    BY <1>0, <1>2, <2>1 DEF KeyInv
  <2>3. \A t \in Slot : t # s => Content(t)' = Content(t)
    BY <1>0, <2>1, <2>2 DEF EraseSlot, Content, Slot, StoreTypeOK
  <2>4. Keyed' \subseteq Keyed /\ Live' \subseteq Live
    BY <1>6, <2>1
  <2>5. wnode[w] \notin Live'
    <3>1. wnode[w] \notin OnUsedList'
      BY <1>8, <2>1 DEF OnUsedList
    <3>2. \A v \in Worker : wpc'[v] \in {"serve", "erase"} => wnode'[v] # wnode[w]
      BY <1>5, <1>7, <2>1
    <3> QED BY <1>3, <3>1, <3>2
  <2>6. \A n \in Live' : Content(node[n].slot)' = Content(node[n].slot)
    <3>1. \A n \in Live' : node[n].slot \in Slot /\ node[n].slot # s
      BY <1>0, <1>4, <2>2, <2>4, <2>5 DEF KeyInv
    <3> QED BY <2>1, <2>3, <3>1 DEF Content
  <2>7. lpc \in {"mem", "pop", "read", "put_used"} =>
          Content(lslot)' = Content(lslot)
    <3>1. lpc \in {"mem", "pop", "read", "put_used"} => lslot \in Slot /\ lslot # s
      BY <1>0, <2>2 DEF LoadInv, HolderInv
    <3> QED BY <1>1, <2>3, <3>1 DEF Content
  <2>8. KeyInv' /\ LoadInv'
    BY <1>0, <1>1, <1>4, <2>1, <2>4, <2>6, <2>7, SlotShrinks
  <2>9. ServedInv'
    BY <1>0, <1>5, <2>1 DEF ServedInv
  <2> QED BY <2>8, <2>9 DEF SlotInv
<1>12. CASE Unhash(w)
  <2>1. /\ wpc[w] = "unhash" /\ wpc'[w] \in {"mem", "append"} /\ UNCHANGED wnode
        /\ UNCHANGED <<used, node, tape, mess, handled>>
        /\ hashed' = hashed \ {node[wnode[w]].slot}
    BY <1>0, <1>12 DEF Unhash, storeVars, DeqTypeOK
  <2>2. Keyed' \subseteq Keyed /\ Live' \subseteq Live
    BY <1>6, <2>1
  <2>3. wnode[w] \notin Keyed'
    <3>1. wnode[w] \notin OnUsedList'
      BY <1>8, <2>1 DEF OnUsedList
    <3>2. \A v \in Worker :
            wpc'[v] \in {"serve", "erase", "unhash"} => wnode'[v] # wnode[w]
      BY <1>5, <1>7, <2>1
    <3> QED BY <1>3, <3>1, <3>2
  <2>4. \A n \in Keyed' : node[n].slot \in hashed => node[n].slot \in hashed'
    <3>1. wnode[w] \in Keyed
      BY <1>2, <2>1
    <3> QED BY <1>0, <2>1, <2>2, <2>3, <3>1 DEF KeyInv
  <2>5. KeyInv' /\ LoadInv'
    BY <1>0, <1>1, <1>4, <2>1, <2>2, <2>4, SlotShrinks DEF Content
  <2>6. ServedInv'
    BY <1>0, <1>5, <2>1 DEF ServedInv
  <2> QED BY <2>5, <2>6 DEF SlotInv
<1>13. CASE ReturnMem(w)
  <2>1. /\ wpc[w] = "mem" /\ wpc'[w] = "append" /\ UNCHANGED wnode
        /\ UNCHANGED <<used, node, hashed, tape, mess, handled>>
    BY <1>0, <1>13 DEF ReturnMem, storeVars, DeqTypeOK
  <2>2. KeyInv' /\ LoadInv'
    BY <1>0, <1>1, <1>4, <1>6, <2>1, SlotShrinks DEF Content
  <2>3. ServedInv'
    BY <1>0, <1>5, <2>1 DEF ServedInv
  <2> QED BY <2>2, <2>3 DEF SlotInv
<1>14. CASE AppendFree(w)
  <2>1. /\ wpc[w] = "append" /\ wpc'[w] = "get"
        /\ UNCHANGED <<used, hashed, tape, mess, handled>>
        /\ node' = [node EXCEPT ![wnode[w]] = FreshNode]
    BY <1>0, <1>14 DEF AppendFree, storeVars, DeqTypeOK
  <2>2. Keyed' \subseteq Keyed /\ Live' \subseteq Live
    BY <1>2, <1>3, <1>5, <2>1 DEF OnUsedList
  <2>3. \A n : n # wnode[w] /\ n \in Node => node'[n] = node[n]
    BY <1>0, <2>1 DEF DeqTypeOK
  <2>4. \A n \in Keyed' : n \in Node /\ n # wnode[w]
    <3>1. wnode[w] \notin OnUsedList'
      BY <1>8, <2>1 DEF OnUsedList
    <3>2. \A v \in Worker :
            wpc'[v] \in {"serve", "erase", "unhash"} => wnode'[v] # wnode[w]
      BY <1>5, <1>7, <2>1
    <3>3. Keyed \subseteq OnUsedList \cup Held
      BY <1>2
    <3>4. Keyed' \subseteq Node
      BY <2>2, <3>3 DEF NodesAccounted
    <3> QED BY <1>3, <3>1, <3>2, <3>4
  <2>5. lpc \in {"read", "put_used"} => node'[lnode] = node[lnode]
    BY <1>0, <1>8, <2>1, <2>3 DEF Loading, HolderInv
  <2>6. \A n \in Keyed' : node'[n] = node[n]
    BY <2>3, <2>4
  <2>7. KeyInv' /\ LoadInv'
    BY <1>0, <1>1, <1>4, <2>1, <2>2, <2>5, <2>6, SlotShrinks DEF Content
  <2>8. ServedInv'
    <3>1. \A v \in Worker : wpc'[v] = "erase" =>
            wpc[v] = "erase" /\ wnode'[v] = wnode[v] /\ wnode[v] \in Keyed'
      BY <1>3, <1>5, <2>1
    <3> QED BY <1>0, <2>1, <2>6, <3>1 DEF ServedInv
  <2> QED BY <2>7, <2>8 DEF SlotInv
<1> QED BY <1>9, <1>10, <1>11, <1>12, <1>13, <1>14 DEF Work

\* The steps of the composition, as long as keys find room.
LEMMA SlotStep ==
  TypeInv /\ TypeInv' /\ NodesAccounted /\ FilesInv /\ HashRoom /\ SlotInv
    /\ [Next]_vars => SlotInv'
<1> SUFFICES ASSUME TypeInv, TypeInv', NodesAccounted, FilesInv, HashRoom,
                    SlotInv, [Next]_vars
             PROVE  SlotInv'
  OBVIOUS
<1>1. CASE Enqueue
  BY <1>1, EnqSlotStep DEF Enqueue
<1>2. CASE Dequeue /\ Loader
  BY <1>2, LoaderSlotStep
<1>3. ASSUME NEW w \in Worker, Work(w)
      PROVE  SlotInv'
  BY <1>3, WorkSlotStep
<1>4. CASE DeqRestart
  BY <1>4 DEF DeqRestart, SlotInv, KeyInv, LoadInv, ServedInv, Keyed, Live,
              OnUsedList, HeldAt
<1>5. CASE UNCHANGED vars
  BY <1>5 DEF vars, storeVars, deqVars, listVars, loaderVars, workerVars,
       SlotInv, KeyInv, LoadInv, ServedInv, Keyed, Live, OnUsedList, HeldAt, Content
<1> QED BY <1>1, <1>2, <1>3, <1>4, <1>5 DEF Next, Dequeue, DeqNext

\* Keys, slots and nodes stay together in every behaviour in which the hash
\* tables have room whenever the loader adds a key.
THEOREM SlotsStandAlone == Spec /\ []HashRoom => []SlotInv
<1>1. Init => SlotInv
  BY SlotInit
<1>2. TypeInv /\ TypeInv' /\ NodesAccounted /\ FilesInv /\ HashRoom /\ SlotInv
        /\ [Next]_vars => SlotInv'
  BY SlotStep
<1> QED BY <1>1, <1>2, TypeCorrect, NodesNeverLost, FilesHaveOwners, PTL DEF Spec

\* A node that a worker has or may take finds its own mail in its slot.
THEOREM NodesKeepTheirSlots == Spec /\ []HashRoom => []NodeKeepsItsSlot
<1>1. SlotInv => NodeKeepsItsSlot
  BY DEF SlotInv, KeyInv, NodeKeepsItsSlot
<1> QED BY <1>1, SlotsStandAlone, PTL

\* No two nodes that workers have or may take stand for the same slot.
THEOREM SlotsHaveOneNode == Spec /\ []HashRoom => []OneNodePerSlot
<1>1. SlotInv => OneNodePerSlot
  BY DEF SlotInv, KeyInv, OneNodePerSlot
<1> QED BY <1>1, SlotsStandAlone, PTL

-----------------------------------------------------------------------------
(* Layer 5: no accepted mail is lost.                                      *)

\* A step of the smtp process saves a mail only by storing it.
LEMMA EnqStoredStep ==
  ASSUME TypeInv, FilesInv, AcceptedIsStored, EnqNext, UNCHANGED deqVars
  PROVE  AcceptedIsStored'
<1> USE StoreAssumption
<1>0. StoreTypeOK /\ EnqTypeOK /\ FlushInv
  BY DEF TypeInv, TypeOK
<1>1. \A m \in Mail : Stored(m) => Stored(m)'
  <2>1. /\ \A p \in Pos : tape[p] \in Mail => tape'[p] = tape[p]
        /\ \A i \in ID : mess[i] \in Mail => mess'[i] = mess[i]
    BY EnqKeepsMail
  <2> QED BY <2>1 DEF Stored, Content, Slot
<1>2. SUFFICES ASSUME NEW m \in Mail, Saved(m)', ~ Saved(m)
               PROVE  Stored(m)'
  BY <1>1 DEF AcceptedIsStored, deqVars
<1>3. ASSUME NEW k \in Mail, NEW action \in {"part", "whole"},
             PutToQueue(k, action)
      PROVE  FALSE
  <2>1. /\ k # fmail /\ UNCHANGED <<fpc, fmail, fresult>>
        /\ \A j \in Mail \ {k} : /\ flush_action'[j] = flush_action[j]
                                 /\ client'[j] = client[j]
        /\ client'[k] = "flushing"
    BY <1>0, <1>3 DEF PutToQueue, FlushInv, EnqTypeOK
  <2> QED BY <1>2, <2>1 DEF Saved
<1>4. ASSUME NEW k \in Mail, Cancel(k)
      PROVE  FALSE
  <2>1. /\ UNCHANGED <<fpc, fmail, fresult, flush_action>>
        /\ \A j \in Mail \ {k} : client'[j] = client[j]
        /\ client'[k] = "dropped" /\ k # fmail
    BY <1>0, <1>4 DEF Cancel, EnqTypeOK, FlushInv
  <2> QED BY <1>2, <2>1 DEF Saved
<1>5. CASE WriteBlock
  <2>1. /\ fmail' = fmail /\ client' = client /\ fslot \in Slot
        /\ fpc' = "notify" => tape' = [tape EXCEPT ![fslot.at] = fmail]
        /\ fpc' \in {"notify", "open"} /\ fslot.type = "tape"
    BY <1>0, <1>5 DEF WriteBlock, FlushInv
  <2>2. m = fmail /\ fpc' = "notify"
    BY <1>2, <2>1 DEF Saved
  <2>3. tape'[fslot.at] = m
    BY <1>0, <2>1, <2>2 DEF StoreTypeOK, Slot
  <2> QED BY <2>1, <2>3 DEF Stored, Content
<1>6. CASE WriteWhole
  <2>1. /\ fmail' = fmail /\ client' = client /\ flush_ID[fmail] \in ID
        /\ mess' = [mess EXCEPT ![flush_ID[fmail]] = fmail]
        /\ fpc' = "notify"
    BY <1>0, <1>6 DEF WriteWhole, FlushInv
  <2>2. m = fmail
    BY <1>2, <2>1 DEF Saved
  <2>3. mess'[flush_ID[fmail]] = m
    BY <1>0, <2>1, <2>2 DEF StoreTypeOK
  <2>4. File(flush_ID[fmail]) \in Slot
    BY <2>1 DEF File, Slot
  <2> QED BY <2>3, <2>4 DEF Stored, Content, File
<1>7. CASE Take \/ FindBlock \/ OpenFile \/ OpenFails \/ WriteFails
  <2>1. /\ client' = client
        /\ fpc' \in {"find", "tape", "body", "open"} \/ fresult' = "fail"
        /\ fpc' # "notify"
    BY <1>7 DEF Take, FindBlock, OpenFile, OpenFails, WriteFails
  <2> QED BY <1>2, <2>1 DEF Saved
<1>8. CASE WritePart
  BY <1>2, <1>8 DEF WritePart, Saved
<1>9. CASE Notify
  BY <1>2, <1>9 DEF Notify, Saved
<1>10. CASE Feedback
  <2>1. \A j \in Mail : client'[j] = "accepted" => client[j] = "accepted" \/ Saved(j)
    <3>1. ASSUME NEW j \in Mail, j # fmail
          PROVE  client'[j] = client[j]
      BY <1>0, <1>10, <3>1 DEF Feedback, EnqTypeOK
    <3>2. fmail \in Mail /\ fpc = "feedback"
      BY <1>0, <1>10 DEF Feedback, FlushInv
    <3>3. client'[fmail] = "accepted" =>
            fresult = "ok" /\ flush_action[fmail] = "whole"
      BY <1>0, <1>10, <3>2 DEF Feedback, EnqTypeOK
    <3> QED BY <3>1, <3>2, <3>3 DEF Saved
  <2>2. fpc' = "idle"
    BY <1>10 DEF Feedback
  <2> QED BY <1>2, <2>1, <2>2 DEF Saved
<1>11. CASE EnqRestart
  BY <1>2, <1>11 DEF EnqRestart, Saved
<1> QED BY <1>3, <1>4, <1>5, <1>6, <1>7, <1>8, <1>9, <1>10, <1>11
        DEF EnqNext, Clients, FlushThread

\* The delivery process erases only what the hooks have been given.
LEMMA DeqStoredStep ==
  ASSUME TypeInv, SlotInv, AcceptedIsStored, DeqNext, UNCHANGED enqVars
  PROVE  AcceptedIsStored'
<1>0. StoreTypeOK /\ DeqTypeOK /\ HolderInv
  BY DEF TypeInv, TypeOK
<1>1. \A m \in Mail : Saved(m)' <=> Saved(m)
  BY DEF enqVars, Saved
<1>2. CASE Loader \/ DeqRestart
  <2>1. UNCHANGED <<tape, mess, handled>>
    BY <1>2 DEF Loader, Receive, Idle, ScanTape, OpenScanMess, ScanMess, Query,
         Test, TakeMem, Pop, Read, PutToUsed, AddToHash, DeqRestart, storeVars
  <2> QED BY <1>1, <2>1 DEF AcceptedIsStored, Stored, Content
<1>3. ASSUME NEW w \in Worker, Work(w)
      PROVE  AcceptedIsStored'
  <2>1. CASE Get(w) \/ Unhash(w) \/ ReturnMem(w) \/ AppendFree(w)
    <3>1. UNCHANGED <<tape, mess, handled>>
      BY <2>1 DEF Get, Unhash, ReturnMem, AppendFree, storeVars
    <3> QED BY <1>1, <3>1 DEF AcceptedIsStored, Stored, Content
  <2>2. CASE Serve(w)
    <3>1. UNCHANGED <<tape, mess>> /\ \A m \in Mail : handled'[m] = 0 => handled[m] = 0
      BY <1>0, <2>2 DEF Serve, storeVars, DeqTypeOK
    <3> QED BY <1>1, <3>1 DEF AcceptedIsStored, Stored, Content
  <2>3. CASE Erase(w)
    <3> DEFINE s == node[wnode[w]].slot
    <3>1. wpc[w] = "erase" /\ EraseSlot(s) /\ UNCHANGED handled
      BY <2>3 DEF Erase
    <3>2. wnode[w] \in Live /\ wnode[w] \in Keyed
      BY <3>1 DEF Live, Keyed, HeldAt
    <3>3. s \in Slot /\ handled[Content(s)] > 0
      BY <3>1, <3>2 DEF SlotInv, KeyInv, ServedInv
    <3>4. \A t \in Slot : t # s => Content(t)' = Content(t)
      BY <1>0, <3>1, <3>3 DEF EraseSlot, Content, Slot, StoreTypeOK
    <3>5. ASSUME NEW m \in Mail, Stored(m), handled[m] = 0
          PROVE  Stored(m)'
      <4>1. PICK t \in Slot : Content(t) = m
        BY <3>5 DEF Stored
      <4>2. t # s
        BY <3>3, <3>5, <4>1
      <4>3. Content(t)' = m
        BY <3>4, <4>1, <4>2
      <4> QED BY <4>3 DEF Stored, Content
    <3> QED BY <1>1, <3>1, <3>5 DEF AcceptedIsStored
  <2> QED BY <1>3, <2>1, <2>2, <2>3 DEF Work
<1> QED BY <1>2, <1>3 DEF DeqNext

\* A mail the client was told 250 for is in the store until the hooks have
\* been given it: for any number of mails, blocks, nodes and workers, through
\* any number of restarts of either process, as long as keys find room.
THEOREM AcceptedNeverLost == Spec /\ []HashRoom => []AcceptedIsStored
<1>1. Init => AcceptedIsStored
  BY StoreAssumption DEF Init, EnqInit, AcceptedIsStored, Saved
<1>2. TypeInv /\ FilesInv /\ SlotInv /\ AcceptedIsStored /\ [Next]_vars
        => AcceptedIsStored'
  <2> SUFFICES ASSUME TypeInv, FilesInv, SlotInv, AcceptedIsStored, [Next]_vars
               PROVE  AcceptedIsStored'
    OBVIOUS
  <2>1. CASE UNCHANGED vars
    BY <2>1 DEF vars, storeVars, enqVars, deqVars, AcceptedIsStored, Saved,
                Stored, Content
  <2> QED BY <2>1, EnqStoredStep, DeqStoredStep DEF Next, Enqueue, Dequeue
<1> QED BY <1>1, <1>2, TypeCorrect, FilesHaveOwners, SlotsStandAlone, PTL DEF Spec

-----------------------------------------------------------------------------
(* Room in the hash tables.                                                *)

\* There are no more keys of blocks than blocks.
LEMMA KeysBounded ==
  ASSUME DeqTypeOK
  PROVE  Cardinality({k \in hashed : k.type = "tape"}) \in 0 .. TapeUnits
<1> USE StoreAssumption
<1> DEFINE B == [type : {"tape"}, at : Pos]
           f == [p \in Pos |-> Block(p)]
<1>1. IsFiniteSet(Pos) /\ Cardinality(Pos) <= TapeUnits
  <2>1. 0 \in Int /\ TapeUnits - 1 \in Int
    OBVIOUS
  <2>2. /\ IsFiniteSet(0 .. TapeUnits - 1)
        /\ Cardinality(0 .. TapeUnits - 1)
             = IF 0 > TapeUnits - 1 THEN 0 ELSE (TapeUnits - 1) - 0 + 1
    BY <2>1, FS_Interval
  <2> QED BY <2>2 DEF Pos
<1>2. f \in Surjection(Pos, B)
  BY DEF Surjection, Block
<1>3. IsFiniteSet(B) /\ Cardinality(B) <= Cardinality(Pos)
  <2> HIDE DEF B, f
  <2> QED BY <1>1, <1>2, FS_Surjection
<1>4. {k \in hashed : k.type = "tape"} \subseteq B
  BY DEF DeqTypeOK, Slot
<1>5. Cardinality({k \in hashed : k.type = "tape"}) <= Cardinality(B)
  <2> HIDE DEF B
  <2> QED BY <1>3, <1>4, FS_Subset
<1>6. /\ Cardinality({k \in hashed : k.type = "tape"}) \in Nat
      /\ Cardinality(B) \in Nat /\ Cardinality(Pos) \in Nat
  <2> HIDE DEF B
  <2> QED BY <1>1, <1>3, <1>4, FS_Subset, FS_CardinalityType
<1> HIDE DEF B
<1> QED BY <1>1, <1>3, <1>5, <1>6

-----------------------------------------------------------------------------
(* Mails are read whole while flush IDs are not given out twice.           *)

\* The flush IDs to whose file nothing will be written any more.
Settled == {i \in ID : /\ i <= current_ID
                      /\ mess[i] # Incomplete
                      /\ \A m \in Mail : flush_ID[m] = i => Saving(m)}

\* Whatever the loader has been told to load is settled.
WholeInv ==
  /\ cut = {} /\ lseen = "whole"
  /\ \A s \in Elems(msgq) : s.type = "mess" => s.at \in Settled
  /\ lslot.type = "mess" => lslot.at \in Settled
  /\ fpc = "notify" /\ fslot.type = "mess" => fslot.at \in Settled

LEMMA EnqKeepsSettled ==
  ASSUME TypeInv, TypeInv', FilesInv, FilesInv', EnqNext, MaxEnqRestarts = 0,
         NEW i \in Settled
  PROVE  i \in Settled'
<1> USE StoreAssumption
<1>0. /\ StoreTypeOK /\ EnqTypeOK /\ FlushInv
      /\ StoreTypeOK' /\ EnqTypeOK' /\ FlushInv'
  BY DEF TypeInv, TypeOK
<1>1. ASSUME NEW m \in Mail, NEW action \in {"part", "whole"},
             PutToQueue(m, action)
      PROVE  i \in Settled'
  <2>1. \A k \in Mail : Saving(k) => k # m
    BY <1>0, <1>1 DEF PutToQueue, Saving, FlushInv
  <2>2. flush_ID'[m] # i
    BY <1>0, <1>1, <2>1 DEF PutToQueue, Settled, EnqTypeOK, ID
  <2>3. \A k \in Mail \ {m} : /\ flush_ID'[k] = flush_ID[k]
                              /\ Saving(k) => Saving(k)'
    BY <1>0, <1>1 DEF PutToQueue, EnqTypeOK, Saving
  <2>4. i <= current_ID' /\ mess' = mess
    BY <1>0, <1>1 DEF PutToQueue, Settled, EnqTypeOK, storeVars, ID
  <2> QED BY <2>2, <2>3, <2>4 DEF Settled
<1>2. ASSUME NEW m \in Mail, Cancel(m)
      PROVE  i \in Settled'
  <2>1. \A k \in Mail \ {m} : /\ flush_ID'[k] = flush_ID[k]
                              /\ Saving(k) => Saving(k)'
    BY <1>0, <1>2 DEF Cancel, EnqTypeOK, Saving
  <2>2. flush_ID'[m] # i /\ i <= current_ID' /\ mess'[i] # Incomplete
    BY <1>0, <1>2 DEF Cancel, EnqTypeOK, StoreTypeOK, Settled, ID
  <2> QED BY <2>1, <2>2 DEF Settled
<1>3. CASE OpenFile \/ WriteFails \/ WriteWhole
  <2>1. fmail \in Mail /\ flush_ID[fmail] # i
    BY <1>0, <1>3 DEF OpenFile, WriteFails, WriteWhole, FlushInv, Settled,
                      Saving
  <2>2. mess'[i] = mess[i] /\ UNCHANGED <<flush_ID, current_ID>>
    BY <1>0, <1>3, <2>1 DEF OpenFile, WriteFails, WriteWhole, StoreTypeOK,
                            Settled
  <2>3. \A k \in Mail : ~ Saving(k)
    BY <1>3 DEF OpenFile, WriteFails, WriteWhole, Saving
  <2> QED BY <2>2, <2>3 DEF Settled
<1>4. CASE Take \/ FindBlock \/ WriteBlock \/ OpenFails \/ WritePart
  <2>1. UNCHANGED <<flush_ID, current_ID, mess>>
    BY <1>4 DEF Take, FindBlock, WriteBlock, OpenFails, WritePart, storeVars
  <2>2. \A k \in Mail : ~ Saving(k)
    BY <1>4 DEF Take, FindBlock, WriteBlock, OpenFails, WritePart, Saving
  <2> QED BY <2>1, <2>2 DEF Settled
<1>5. CASE Notify
  BY <1>5 DEF Notify, Settled, Saving
<1>6. CASE Feedback
  <2>1. i <= current_ID' /\ mess'[i] # Incomplete
    BY <1>6 DEF Feedback, Settled, storeVars
  <2>2. ASSUME NEW k \in Mail, flush_ID'[k] = i
        PROVE  Saving(k)'
    <3>1. fmail \in Mail /\ k # fmail => flush_ID'[k] = flush_ID[k]
      BY <1>0, <1>6 DEF Feedback, EnqTypeOK
    <3>2. k # fmail => FALSE
      BY <1>0, <1>6, <2>2, <3>1 DEF Feedback, Settled, Saving, FlushInv
    <3>3. k = fmail => FALSE
      BY <1>0, <1>6, <2>2 DEF Feedback, Settled, Saving, EnqTypeOK, ID
    <3> QED BY <3>2, <3>3
  <2> QED BY <2>1, <2>2 DEF Settled
<1>7. ~ EnqRestart
  BY <1>0 DEF EnqRestart, EnqTypeOK
<1> QED BY <1>1, <1>2, <1>3, <1>4, <1>5, <1>6, <1>7
        DEF EnqNext, Clients, FlushThread

\* A step of the smtp process keeps WholeInv: only Notify adds a notice.
LEMMA EnqWholeStep ==
  ASSUME TypeInv, TypeInv', FilesInv, FilesInv', EnqNext, MaxEnqRestarts = 0,
         WholeInv, UNCHANGED deqVars
  PROVE  WholeInv'
<1> USE StoreAssumption
<1>0. /\ StoreTypeOK /\ EnqTypeOK /\ FlushInv /\ DeqTypeOK
      /\ StoreTypeOK' /\ EnqTypeOK' /\ FlushInv'
  BY DEF TypeInv, TypeOK
<1>1. Settled \subseteq Settled'
  BY EnqKeepsSettled
<1>2. UNCHANGED <<cut, lseen, lslot>>
  BY DEF deqVars, loaderVars
<1>3. lslot'.type = "mess" => lslot'.at \in Settled'
  BY <1>0, <1>1, <1>2 DEF WholeInv, DeqTypeOK, Slot, NoSlot
<1>4. \A s \in Elems(msgq)' : s.type = "mess" => s.at \in Settled'
  <2>1. Elems(msgq) \subseteq Slot
    BY <1>0 DEF StoreTypeOK, Elems
  <2>2. CASE msgq' = msgq
    BY <1>1, <2>1, <2>2 DEF WholeInv, Slot, Elems
  <2>3. CASE msgq' # msgq
    <3>1. Notify
      BY <2>3 DEF EnqNext, Clients, FlushThread, PutToQueue, Cancel, Take,
         FindBlock, WriteBlock, OpenFile, OpenFails, WritePart, WriteWhole,
         WriteFails, Feedback, EnqRestart, storeVars
    <3>2. msgq' = Append(msgq, fslot) /\ fslot \in Slot /\ msgq \in Seq(Slot)
      BY <1>0, <2>3, <3>1 DEF Notify, SendNotice, FlushInv, StoreTypeOK
    <3>3. Elems(msgq)' = Elems(msgq) \cup {fslot}
      BY <3>2, AppendElems DEF Elems
    <3>4. fslot.type = "mess" => fslot.at \in Settled
      BY <3>1 DEF Notify, WholeInv
    <3> QED BY <1>1, <2>1, <3>2, <3>3, <3>4 DEF WholeInv, Slot
  <2> QED BY <2>2, <2>3
<1>5. fpc' = "notify" /\ fslot'.type = "mess" => fslot'.at \in Settled'
  <2> SUFFICES ASSUME fpc' = "notify", fslot'.type = "mess"
               PROVE  fslot'.at \in Settled'
    OBVIOUS
  <2>1. CASE fpc = "notify"
    <3>1. fslot' = fslot /\ fslot \in Slot
      BY <1>0, <2>1 DEF EnqNext, Clients, FlushThread, PutToQueue, Cancel,
         Take, FindBlock, WriteBlock, OpenFile, OpenFails, WritePart,
         WriteWhole, WriteFails, Notify, Feedback, EnqRestart, FlushInv
    <3> QED BY <1>1, <2>1, <3>1 DEF WholeInv, Slot
  <2>2. CASE fpc # "notify"
    <3>1. WriteWhole \/ WriteBlock
      BY <1>0, <2>2 DEF EnqNext, Clients, FlushThread, PutToQueue, Cancel,
         Take, FindBlock, WriteBlock, OpenFile, OpenFails, WritePart,
         WriteWhole, WriteFails, Notify, Feedback, EnqRestart, FlushInv
    <3>2. WriteWhole
      BY <1>0, <3>1 DEF WriteBlock, FlushInv
    <3>3. fmail \in Mail /\ flush_ID[fmail] \in ID /\ fpc = "body"
      BY <1>0, <3>2 DEF WriteWhole, FlushInv
    <3>4. fslot'.at = flush_ID[fmail]
      BY <3>2 DEF WriteWhole, File
    <3>5. /\ flush_ID[fmail] <= current_ID'
          /\ mess'[flush_ID[fmail]] = fmail
          /\ flush_ID' = flush_ID
      BY <1>0, <3>2, <3>3 DEF WriteWhole, FilesInv, StoreTypeOK, Saving
    <3>6. \A k \in Mail : flush_ID[k] = flush_ID[fmail] => k = fmail
      BY <3>3 DEF FilesInv, ID
    <3>7. \A k \in Mail : flush_ID'[k] = flush_ID[fmail] => Saving(k)'
      <4> SUFFICES ASSUME NEW k \in Mail, flush_ID'[k] = flush_ID[fmail]
                   PROVE  Saving(k)'
        OBVIOUS
      <4>1. k = fmail
        BY <3>5, <3>6
      <4>2. /\ fmail' = fmail /\ flush_action'[fmail] = "whole"
            /\ \/ fpc' = "notify"
               \/ fpc' = "feedback" /\ fresult' = "ok"
        BY <1>0, <3>2 DEF WriteWhole, FlushInv, EnqTypeOK
      <4> QED BY <4>1, <4>2 DEF Saving
    <3> QED BY <3>3, <3>4, <3>5, <3>7 DEF Settled
  <2> QED BY <2>1, <2>2
<1> QED BY <1>2, <1>3, <1>4, <1>5 DEF WholeInv

\* A step of the delivery process keeps WholeInv: what the idle scan finds
\* complete is settled, too.
LEMMA DeqWholeStep ==
  ASSUME TypeInv, TypeInv', FilesInv, DeqNext, WholeInv, UNCHANGED enqVars
  PROVE  WholeInv'
<1> USE StoreAssumption
<1>0. StoreTypeOK /\ DeqTypeOK /\ HolderInv /\ FlushInv /\ EnqTypeOK
  BY DEF TypeInv, TypeOK
<1>1. ASSUME NEW i \in Settled
      PROVE  i \in Settled'
  <2>1. mess'[i] \in {mess[i], NoMail}
    BY <1>1, DeqOnlyErases DEF Settled
  <2> QED BY <1>1, <2>1 DEF Settled, Saving, enqVars
<1>2. fpc' = "notify" /\ fslot'.type = "mess" => fslot'.at \in Settled'
  BY <1>0, <1>1 DEF WholeInv, FlushInv, Slot, enqVars
<1>3. Elems(msgq) \subseteq Slot
  BY <1>0 DEF StoreTypeOK, Elems
<1>4. ASSUME Elems(msgq)' \subseteq Elems(msgq), lslot' \in {lslot, NoSlot},
             UNCHANGED cut, lseen' \in {lseen, "whole"}
      PROVE  WholeInv'
  <2>1. lslot'.type = "mess" => lslot'.at \in Settled'
    BY <1>0, <1>1, <1>4 DEF WholeInv, DeqTypeOK, Slot, NoSlot
  <2> QED BY <1>1, <1>2, <1>3, <1>4, <2>1 DEF WholeInv, Slot
<1>5. CASE Receive
  <2>1. CASE msgq = <<>>
    BY <1>4, <1>5, <2>1 DEF Receive, Elems
  <2>2. CASE msgq # <<>>
    <3>1. /\ Elems(msgq)' \subseteq Elems(msgq)
          /\ lslot' \in Elems(msgq)
          /\ UNCHANGED <<cut, lseen>>
      <4>1. /\ msgq' = Tail(msgq) /\ lslot' = Head(msgq)
            /\ UNCHANGED <<cut, lseen>> /\ msgq \in Seq(Slot)
        BY <1>0, <1>5, <2>2 DEF Receive, StoreTypeOK
      <4>2. /\ Head(msgq) \in Elems(msgq)
            /\ Elems(Tail(msgq)) \subseteq Elems(msgq)
        BY <2>2, <4>1, HeadElems
      <4> QED BY <4>1, <4>2 DEF Elems
    <3>2. lslot'.type = "mess" => lslot'.at \in Settled'
      BY <1>1, <1>3, <3>1 DEF WholeInv, Slot
    <3> QED BY <1>1, <1>2, <1>3, <3>1, <3>2 DEF WholeInv, Slot
  <2> QED BY <2>1, <2>2
<1>6. CASE ScanTape
  <2>1. lslot' = lslot \/ lslot'.type = "tape"
    BY <1>6 DEF ScanTape, Block
  <2>2. UNCHANGED <<cut, lseen, msgq>>
    BY <1>6 DEF ScanTape, storeVars
  <2>3. lslot'.type = "mess" => lslot'.at \in Settled'
    BY <1>0, <1>1, <2>1 DEF WholeInv, DeqTypeOK, Slot, NoSlot
  <2> QED BY <1>1, <1>2, <1>3, <2>2, <2>3 DEF WholeInv, Slot, Elems
<1>7. CASE ScanMess
  <2>1. UNCHANGED <<cut, lseen, msgq>>
    BY <1>7 DEF ScanMess, storeVars
  <2>2. CASE lslot' = lslot
    BY <1>4, <2>1, <2>2 DEF Elems
  <2>3. CASE lslot' # lslot
    <3>1. PICK i \in ID : mess[i] \in Mail /\ lslot' = File(i)
      BY <1>0, <1>7, <2>3 DEF ScanMess, DeqTypeOK
    <3>2. i \in Settled
      BY <1>0, <3>1 DEF FilesInv, Settled, StoreTypeOK, ID
    <3>3. lslot'.type = "mess" => lslot'.at \in Settled'
      BY <1>1, <3>1, <3>2 DEF File
    <3> QED BY <1>1, <1>2, <1>3, <2>1, <3>3 DEF WholeInv, Slot, Elems
  <2> QED BY <2>2, <2>3
<1>8. CASE Test
  <2>1. lseen' \in {lseen, "whole"}
    <3>1. Content(lslot) = Incomplete => FALSE
      <4>1. CASE lslot.type = "mess"
        BY <1>0, <4>1 DEF WholeInv, Settled, Content
      <4>2. CASE lslot.type = "tape"
        BY <1>0, <1>8, <4>2 DEF Test, HolderInv, Slot, Content, StoreTypeOK
      <4> QED BY <1>0, <1>8, <4>1, <4>2 DEF Test, HolderInv, Slot
    <3> QED BY <1>8, <3>1 DEF Test, LoadReturns
  <2> QED BY <1>4, <1>8, <2>1 DEF Test, LoadReturns, storeVars, Elems
<1>9. CASE Read
  <2>1. UNCHANGED cut
    BY <1>9 DEF Read, WholeInv
  <2> QED BY <1>4, <1>9, <2>1 DEF Read, LoadReturns, storeVars, Elems
<1>10. CASE Idle \/ OpenScanMess \/ Query \/ TakeMem \/ Pop \/ PutToUsed
              \/ AddToHash
  BY <1>4, <1>10 DEF Idle, OpenScanMess, Query, TakeMem, Pop, PutToUsed,
     AddToHash, LoadReturns, storeVars, Elems
<1>11. ASSUME NEW w \in Worker, Work(w)
       PROVE  WholeInv'
  <2>1. UNCHANGED <<msgq, lslot, cut, lseen>>
    BY <1>11 DEF Work, Get, Serve, Erase, Unhash, ReturnMem, AppendFree,
       storeVars, loaderVars
  <2> QED BY <1>4, <2>1 DEF Elems
<1>12. CASE DeqRestart
  BY <1>4, <1>12 DEF DeqRestart, storeVars, Elems
<1> QED BY <1>5, <1>6, <1>7, <1>8, <1>9, <1>10, <1>11, <1>12
        DEF DeqNext, Loader

\* As long as the smtp process is not restarted, the loader is only ever sent
\* to files that nobody writes to any more.
THEOREM FilesSettle ==
  ASSUME MaxEnqRestarts = 0
  PROVE  Spec => []WholeInv
<1>1. Init => WholeInv
  BY EmptyElems DEF Init, StoreInit, EnqInit, DeqInit, WholeInv, NoSlot
<1>2. TypeInv /\ TypeInv' /\ FilesInv /\ FilesInv' /\ WholeInv /\ [Next]_vars
        => WholeInv'
  <2> SUFFICES ASSUME TypeInv, TypeInv', FilesInv, FilesInv', WholeInv,
                      [Next]_vars
               PROVE  WholeInv'
    OBVIOUS
  <2>1. CASE Enqueue
    BY <2>1, EnqWholeStep DEF Enqueue
  <2>2. CASE Dequeue
    BY <2>2, DeqWholeStep DEF Dequeue
  <2>3. CASE UNCHANGED vars
    BY <2>3 DEF vars, storeVars, enqVars, deqVars, loaderVars, WholeInv,
                Settled, Saving, Elems
  <2> QED BY <2>1, <2>2, <2>3 DEF Next
<1> QED BY <1>1, <1>2, TypeCorrect, FilesHaveOwners, PTL DEF Spec

\* And so it never reads a file with a size that stat gave while the file was
\* still being written: load_mess takes the size before it opens the file, and
\* only the length word, read afterwards, says whether the file is complete.
THEOREM MailsAreReadWhole ==
  ASSUME MaxEnqRestarts = 0
  PROVE  Spec => []MailsReadWhole
<1>1. WholeInv => MailsReadWhole
  BY DEF WholeInv, MailsReadWhole
<1> QED BY <1>1, FilesSettle, PTL

-----------------------------------------------------------------------------
(* The progress of the flushing thread.                                    *)

\* The i-th context it feeds back from now; 0 is the one it works on.
Turn(i) == IF i = 0 THEN fmail ELSE flush_queue[i]

\* Every context that sleeps has a turn.
TurnInv ==
  \A m \in Mail :
    client[m] = "flushing" => \E i \in 0 .. Len(flush_queue) : m = Turn(i)

LEMMA TurnSteps ==
  ASSUME NEW i \in Nat, NEW a \in Nat, NEW b \in Nat
  PROVE  /\ a < b => 7 * i + a < 7 * i + b /\ 7 * i + a <= 7 * i + b
         /\ i # 0 /\ a <= 6 => /\ 7 * (i - 1) + a < 7 * i + b
                              /\ 7 * (i - 1) + a <= 7 * i + b
OBVIOUS

\* A step of the thread brings a turn nearer, or what it works on: by one step
\* of seven.
LEMMA TurnStep ==
  ASSUME TypeInv, [Next]_vars,
         NEW m \in Mail, client[m] = "flushing", client'[m] = "flushing",
         NEW i \in 0 .. Len(flush_queue), m = Turn(i)
  PROVE  \E j \in 0 .. Len(flush_queue') :
           /\ m = Turn(j)'
           /\ 7 * j + StepsLeft[fpc'] <= 7 * i + StepsLeft[fpc]
           /\ fpc' # fpc => 7 * j + StepsLeft[fpc'] < 7 * i + StepsLeft[fpc]
<1> USE DEF TypeInv, TypeOK, EnqTypeOK
<1>0. /\ StepsLeft["idle"] = 0 /\ StepsLeft["feedback"] = 1
      /\ StepsLeft["notify"] = 2 /\ StepsLeft["body"] = 3
      /\ StepsLeft["open"] = 4 /\ StepsLeft["tape"] = 5
      /\ StepsLeft["find"] = 6 /\ StepsLeft[fpc] \in 0 .. 6
      /\ i \in Nat
  BY DEF StepsLeft
<1>1. CASE UNCHANGED <<flush_queue, fmail, fpc>>
  BY <1>0, <1>1 DEF Turn
<1>2. ASSUME NEW x \in Mail, NEW action \in {"part", "whole"},
             PutToQueue(x, action)
      PROVE  /\ i \in 0 .. Len(flush_queue') /\ m = Turn(i)'
             /\ UNCHANGED fpc
  BY <1>0, <1>2 DEF PutToQueue, Turn
<1>3. CASE Take
  <2>1. i # 0
    BY <1>3, StoreAssumption DEF Take, FlushInv, Turn
  <2>2. /\ i - 1 \in 0 .. Len(flush_queue')
        /\ m = Turn(i - 1)'
    BY <1>0, <1>3, <2>1 DEF Take, Turn
  <2>3. fpc = "idle" /\ fpc' \in {"body", "find", "open"}
    BY <1>3 DEF Take
  <2>4. StepsLeft[fpc'] <= 6 /\ StepsLeft[fpc] = 0
    BY <1>0, <2>3
  <2>5. StepsLeft[fpc'] \in Nat
    BY <1>0, <2>3
  <2>6. /\ 7 * (i - 1) + StepsLeft[fpc'] < 7 * i + StepsLeft[fpc]
        /\ 7 * (i - 1) + StepsLeft[fpc'] <= 7 * i + StepsLeft[fpc]
    <3>1. StepsLeft[fpc] \in Nat /\ i \in Nat
      BY <1>0
    <3> HIDE DEF TypeInv, TypeOK, EnqTypeOK
    <3> QED BY <2>1, <2>4, <2>5, <3>1, TurnSteps
  <2> QED BY <2>2, <2>6
<1>4. CASE /\ FindBlock => fpc' # fpc
           /\ \/ FindBlock \/ WriteBlock \/ OpenFile \/ OpenFails \/ WritePart
              \/ WriteWhole \/ WriteFails \/ Notify
  <2>1. UNCHANGED <<flush_queue, fmail>>
    BY <1>4 DEF FindBlock, WriteBlock, OpenFile, OpenFails, WritePart,
                WriteWhole, WriteFails, Notify
  <2>2. /\ StepsLeft[fpc'] < StepsLeft[fpc]
        /\ StepsLeft[fpc'] \in Nat
    BY <1>0, <1>4 DEF FindBlock, WriteBlock, OpenFile, OpenFails, WritePart,
                      WriteWhole, WriteFails, Notify
  <2>3. /\ 7 * i + StepsLeft[fpc'] < 7 * i + StepsLeft[fpc]
        /\ 7 * i + StepsLeft[fpc'] <= 7 * i + StepsLeft[fpc]
    <3>1. StepsLeft[fpc] \in Nat /\ i \in Nat
      BY <1>0
    <3> HIDE DEF TypeInv, TypeOK, EnqTypeOK
    <3> QED BY <2>2, <3>1, TurnSteps
  <2>4. i \in 0 .. Len(flush_queue') /\ m = Turn(i)'
    BY <2>1 DEF Turn
  <2> QED BY <2>3, <2>4
<1>5. CASE Feedback
  <2>1. i # 0
    BY <1>5 DEF Feedback, Turn
  <2>2. /\ m = Turn(i)' /\ UNCHANGED flush_queue
        /\ fpc = "feedback" /\ fpc' = "idle"
    BY <1>5, <2>1 DEF Feedback, Turn
  <2>3. /\ 7 * i + StepsLeft[fpc'] < 7 * i + StepsLeft[fpc]
        /\ 7 * i + StepsLeft[fpc'] <= 7 * i + StepsLeft[fpc]
    <3>1. /\ StepsLeft[fpc'] = 0 /\ StepsLeft[fpc] = 1
          /\ i \in Nat
      BY <1>0, <2>2
    <3> HIDE DEF TypeInv, TypeOK, EnqTypeOK
    <3> QED BY <3>1, TurnSteps
  <2> QED BY <2>2, <2>3
<1>6. ~ EnqRestart
  BY DEF EnqRestart
<1>7. \/ UNCHANGED <<flush_queue, fmail, fpc>>
      \/ \E x \in Mail : \E action \in {"part", "whole"} : PutToQueue(x, action)
      \/ FlushThread
  BY <1>6 DEF Next, Enqueue, Dequeue, EnqNext, Clients, Cancel, vars, enqVars
<1>8. FindBlock => UNCHANGED <<flush_queue, fmail>>
  BY DEF FindBlock
<1> QED BY <1>0, <1>1, <1>2, <1>3, <1>4, <1>5, <1>7, <1>8 DEF FlushThread

LEMMA TurnInvStep ==
  ASSUME TypeInv, TurnInv, [Next]_vars
  PROVE  TurnInv'
<1> SUFFICES ASSUME NEW m \in Mail, client'[m] = "flushing"
             PROVE  \E i \in 0 .. Len(flush_queue') : m = Turn(i)'
  BY DEF TurnInv
<1>1. CASE client[m] = "flushing"
  BY <1>1, TurnStep DEF TurnInv
<1>2. CASE client[m] # "flushing"
  <2>1. \E action \in {"part", "whole"} : PutToQueue(m, action)
    <3> USE <1>2 DEF TypeInv, TypeOK, EnqTypeOK
    <3>1. ASSUME NEW x \in Mail, x # m
          PROVE  /\ \A action \in {"part", "whole"} : ~ PutToQueue(x, action)
                 /\ ~ Cancel(x)
      BY <3>1 DEF PutToQueue, Cancel
    <3>2. ~ Cancel(m)
      BY DEF Cancel
    <3>3. ~ FlushThread
      <4>1. ~ Feedback
        BY DEF Feedback, FlushInv
      <4> QED BY <4>1 DEF FlushThread, Take, FindBlock, WriteBlock, OpenFile,
                   OpenFails, WritePart, WriteWhole, WriteFails, Notify
    <3>4. ~ EnqRestart
      BY DEF EnqRestart
    <3>5. client' # client
      OBVIOUS
    <3> QED BY <3>1, <3>2, <3>3, <3>4, <3>5
            DEF Next, Enqueue, Dequeue, EnqNext, Clients, vars, enqVars
  <2>2. flush_queue' = Append(flush_queue, m) /\ flush_queue \in Seq(Mail)
    BY <2>1 DEF PutToQueue, TypeInv, TypeOK, EnqTypeOK
  <2>3. /\ Len(flush_queue') = Len(flush_queue) + 1
        /\ flush_queue'[Len(flush_queue) + 1] = m
        /\ Len(flush_queue) \in Nat
    BY <2>2
  <2> QED BY <2>3 DEF Turn
<1> QED BY <1>1, <1>2

\* Each step of the flushing thread, success or failure, brings every context
\* that sleeps nearer to its feedback, however many are in the queue.
THEOREM FlushNeverForgets == Spec => FlushGoesOn
<1>1. TypeInv => \A m \in Mail :
        StepsUntil(m) = {7 * i + StepsLeft[fpc] :
                           i \in {i \in 0 .. Len(flush_queue) : m = Turn(i)}}
  BY DEF StepsUntil, Turn
<1>2. Init => TurnInv
  BY DEF Init, EnqInit, TurnInv
<1>3. TypeInv /\ TurnInv /\ [Next]_vars => TurnInv'
  BY TurnInvStep
<1>4. TypeInv /\ TurnInv
        => \A m \in Mail : client[m] = "flushing" => StepsUntil(m) # {}
  <2> SUFFICES ASSUME TypeInv, TurnInv, NEW m \in Mail, client[m] = "flushing"
               PROVE  StepsUntil(m) # {}
    OBVIOUS
  <2>1. PICK i \in 0 .. Len(flush_queue) : m = Turn(i)
    BY DEF TurnInv
  <2>2. 7 * i + StepsLeft[fpc] \in StepsUntil(m)
    BY <1>1, <2>1
  <2> QED BY <2>2
<1>5. TypeInv /\ TypeInv' /\ [Next]_vars =>
        [\A m \in Mail :
           client[m] = "flushing" /\ client'[m] = "flushing" =>
             \A k \in StepsUntil(m) : \E j \in StepsUntil(m)' :
               j <= k /\ (fpc' # fpc => j < k)]_vars
  <2> SUFFICES ASSUME TypeInv, TypeInv', [Next]_vars, NEW m \in Mail,
                      client[m] = "flushing", client'[m] = "flushing",
                      NEW k \in StepsUntil(m)
               PROVE  \E j \in StepsUntil(m)' :
                        j <= k /\ (fpc' # fpc => j < k)
    OBVIOUS
  <2>1. PICK i \in 0 .. Len(flush_queue) :
          m = Turn(i) /\ k = 7 * i + StepsLeft[fpc]
    BY <1>1
  <2>2. PICK j \in 0 .. Len(flush_queue') :
          /\ m = Turn(j)'
          /\ 7 * j + StepsLeft[fpc'] <= k
          /\ fpc' # fpc => 7 * j + StepsLeft[fpc'] < k
    BY <2>1, TurnStep
  <2>3. 7 * j + StepsLeft[fpc'] \in StepsUntil(m)'
    BY <2>2 DEF StepsUntil, Turn
  <2> QED BY <2>2, <2>3
<1> QED BY <1>2, <1>3, <1>4, <1>5, TypeCorrect, PTL DEF Spec, FlushGoesOn
=============================================================================
