---------------------------- MODULE MailOnceProofs ----------------------------
(***************************************************************************)
(* Three more properties of the mail queue, for any number of mails,       *)
(* blocks, nodes, workers and restarts, on top of the layers of            *)
(* MailQueueProofs:                                                        *)
(*   HandledOncePerLife  the hooks see a mail once in each life            *)
(*   KeepsPromise        the queue implements DurableQueue                 *)
(*   MemoryBounded       the nodes hold no more than g_max_memory          *)
(***************************************************************************)
EXTENDS MailQueueProofs

-----------------------------------------------------------------------------
(* One copy of each mail.                                                  *)

\* A mail that its context has not handed over whole is nowhere.
UnsentInv ==
  \A m \in Mail :
    client[m] \in {"composing", "flushing"} /\ ~ Saving(m)
      => ~ Stored(m) /\ handled[m] = 0

\* A mail is in one slot.
OneCopy ==
  \A s, t \in Slot : Content(s) \in Mail /\ Content(t) = Content(s) => s = t

\* A mail that was handled in this life is still stored only until the worker
\* that handled it erases it.
LastInv ==
  \A m \in Mail :
    handled[m] = 1 + deq_restarts =>
      \A s \in Slot : Content(s) = m =>
        \E w \in Worker : wpc[w] = "erase" /\ node[wnode[w]].slot = s

\* A context whose client has its answer has no flush ID.
AnsweredInv ==
  \A m \in Mail :
    client[m] \in {"accepted", "refused", "dropped"} => flush_ID[m] = 0

OnceInv == UnsentInv /\ OneCopy /\ LastInv /\ AnsweredInv /\ HandledOncePerLife

LEMMA OnceInit == Init => OnceInv
<1> SUFFICES ASSUME Init PROVE OnceInv
  OBVIOUS
<1>1. \A s \in Slot : Content(s) = NoMail
  BY DEF Init, StoreInit, Content, Slot
<1>2. \A m \in Mail : ~ Stored(m) /\ handled[m] = 0 /\ flush_ID[m] = 0
  BY <1>1, StoreAssumption DEF Init, DeqInit, EnqInit, Stored
<1>3. deq_restarts = 0
  BY DEF Init, DeqInit
<1> QED
  BY <1>1, <1>2, <1>3, StoreAssumption
  DEF OnceInv, UnsentInv, OneCopy, LastInv, AnsweredInv, HandledOncePerLife

\* The flushing thread's mail, which it has not saved, is put in slot s.
StoreStep(s) ==
  /\ fmail \in Mail
  /\ client[fmail] = "flushing"
  /\ ~ Saving(fmail)
  /\ Content(s) \notin Mail
  /\ Content(s)' = fmail
  /\ \A t \in Slot \ {s} : Content(t)' = Content(t)
  /\ UNCHANGED client

\* A step of the smtp process puts at most one mail in the store.
LEMMA EnqStores ==
  ASSUME TypeInv, FilesInv, EnqNext
  PROVE  \/ \A s \in Slot : Content(s)' \in Mail => Content(s)' = Content(s)
         \/ /\ WriteBlock \/ WriteWhole
            /\ \E s \in Slot : StoreStep(s)
<1> USE StoreAssumption
<1>0. StoreTypeOK /\ EnqTypeOK /\ FlushInv
  BY DEF TypeInv, TypeOK
<1> DEFINE Same == \A s \in Slot : Content(s)' \in Mail => Content(s)' = Content(s)
<1>1. CASE WriteBlock
  <2>1. CASE fmail \in Overlong
    BY <1>1, <2>1 DEF WriteBlock, Content
  <2>2. CASE fmail \notin Overlong
    <3>1. /\ fpc = "tape" /\ fslot \in Slot /\ fslot.type = "tape"
          /\ tape' = [tape EXCEPT ![fslot.at] = fmail] /\ UNCHANGED <<mess, client>>
          /\ fmail \in Mail /\ client[fmail] = "flushing"
      BY <1>0, <1>1, <2>2 DEF WriteBlock, FlushInv
    <3>2. fslot.at \in Pos /\ tape[fslot.at] = NoMail
      BY <3>1 DEF FilesInv, Slot
    <3>3. Content(fslot)' = fmail /\ Content(fslot) = NoMail
      <4>1. fslot'.type = "tape" /\ fslot' = fslot
        BY <1>1, <3>1 DEF WriteBlock
      <4> QED BY <1>0, <3>1, <3>2, <4>1 DEF Content, StoreTypeOK
    <3>4. \A t \in Slot \ {fslot} : Content(t)' = Content(t)
      BY <1>0, <3>1, <3>2 DEF Content, StoreTypeOK, Slot
    <3>5. ~ Saving(fmail)
      BY <3>1 DEF Saving
    <3>6. PICK z \in Slot : z = fslot
      BY <3>1
    <3>7. fslot' = fslot
      BY <1>1 DEF WriteBlock
    <3>8. StoreStep(z)
      BY <3>1, <3>3, <3>4, <3>5, <3>6, <3>7 DEF StoreStep, Content
    <3> QED BY <1>1, <3>1, <3>8
  <2> QED BY <2>1, <2>2
<1>2. CASE WriteWhole
  <2> DEFINE s == File(flush_ID[fmail])
  <2>1. /\ fpc = "body" /\ fmail \in Mail /\ client[fmail] = "flushing"
        /\ flush_ID[fmail] \in ID /\ flush_ID[fmail] # 0
        /\ mess' = [mess EXCEPT ![flush_ID[fmail]] = fmail]
        /\ UNCHANGED <<tape, client, flush_ID, fmail>>
    BY <1>0, <1>2 DEF WriteWhole, FlushInv, ID
  <2>2. ~ Saving(fmail) /\ mess[flush_ID[fmail]] \notin Mail
    BY <2>1 DEF FilesInv, Saving
  <2>3. s \in Slot /\ s.type = "mess" /\ s.at = flush_ID[fmail]
    BY <2>1 DEF File, Slot
  <2>4. mess'[s.at] = fmail
    BY <1>0, <2>1, <2>3 DEF StoreTypeOK
  <2>5. \A t \in Slot \ {s} : Content(t)' = Content(t)
    BY <1>0, <2>1, <2>3 DEF Content, StoreTypeOK, Slot, File
  <2>6. PICK z \in Slot : z = s
    BY <2>3
  <2>7. StoreStep(z)
    BY <2>1, <2>2, <2>3, <2>4, <2>5, <2>6 DEF StoreStep, Content
  <2> QED BY <1>2, <2>7
<1>3. ASSUME NEW m \in Mail, Cancel(m)
      PROVE  Same
  BY <1>0, <1>3 DEF Cancel, Content, StoreTypeOK, Slot, FlushInv
<1>4. CASE OpenFile \/ WriteFails
  <2>1. /\ flush_ID[fmail] \in ID /\ UNCHANGED tape
        /\ \A i \in ID : mess'[i] \in {mess[i], Incomplete, NoMail}
    BY <1>0, <1>4 DEF OpenFile, WriteFails, FlushInv, StoreTypeOK
  <2> QED BY <2>1 DEF Content, Slot
<1>5. CASE EnqRestart
  BY <1>0, <1>5 DEF EnqRestart, Content, Slot
<1>6. CASE Take \/ FindBlock \/ OpenFails \/ WritePart \/ Notify \/ Feedback
  BY <1>6 DEF Take, FindBlock, OpenFails, WritePart, Notify, Feedback, storeVars,
              Content
<1>7. ASSUME NEW m \in Mail, NEW action \in {"part", "whole"},
             PutToQueue(m, action)
      PROVE  Same
  BY <1>7 DEF PutToQueue, storeVars, Content
<1> QED BY <1>1, <1>2, <1>3, <1>4, <1>5, <1>6, <1>7 DEF EnqNext, Clients, FlushThread

\* A mail that is unsent after a step of the smtp process was so before.
LEMMA EnqUnsent ==
  ASSUME TypeInv, EnqNext, NEW m \in Mail,
         client'[m] \in {"composing", "flushing"}, ~ Saving(m)'
  PROVE  client[m] \in {"composing", "flushing"} /\ ~ Saving(m)
<1>0. EnqTypeOK /\ FlushInv
  BY DEF TypeInv, TypeOK
<1>1. ASSUME NEW k \in Mail, NEW action \in {"part", "whole"},
             PutToQueue(k, action)
      PROVE  client[m] \in {"composing", "flushing"} /\ ~ Saving(m)
  BY <1>0, <1>1 DEF PutToQueue, EnqTypeOK, FlushInv, Saving
<1>2. ASSUME NEW k \in Mail, Cancel(k)
      PROVE  client[m] \in {"composing", "flushing"} /\ ~ Saving(m)
  BY <1>0, <1>2 DEF Cancel, EnqTypeOK, FlushInv, Saving
<1>3. CASE Take \/ FindBlock \/ WriteBlock \/ OpenFile \/ OpenFails
  BY <1>0, <1>3 DEF Take, FindBlock, WriteBlock, OpenFile, OpenFails, Saving
<1>4. CASE WritePart \/ WriteWhole \/ WriteFails \/ Notify
  BY <1>0, <1>4 DEF WritePart, WriteWhole, WriteFails, Notify, Saving
<1>5. CASE Feedback
  BY <1>0, <1>5 DEF Feedback, EnqTypeOK, FlushInv, Saving
<1>6. CASE EnqRestart
  BY <1>0, <1>6 DEF EnqRestart, EnqTypeOK, FlushInv, Saving
<1> QED BY <1>1, <1>2, <1>3, <1>4, <1>5, <1>6 DEF EnqNext, Clients, FlushThread

\* A context gets a flush ID only on its way to sleep, and loses it with the
\* answer.
LEMMA EnqAnswered ==
  ASSUME TypeInv, AnsweredInv, EnqNext
  PROVE  AnsweredInv'
<1>0. EnqTypeOK /\ FlushInv
  BY DEF TypeInv, TypeOK
<1>1. ASSUME NEW k \in Mail, NEW action \in {"part", "whole"},
             PutToQueue(k, action)
      PROVE  AnsweredInv'
  BY <1>0, <1>1 DEF PutToQueue, EnqTypeOK, AnsweredInv
<1>2. ASSUME NEW k \in Mail, Cancel(k)
      PROVE  AnsweredInv'
  BY <1>0, <1>2 DEF Cancel, EnqTypeOK, AnsweredInv
<1>3. CASE UNCHANGED <<client, flush_ID>>
  BY <1>3 DEF AnsweredInv
<1>4. CASE Feedback
  BY <1>0, <1>4 DEF Feedback, EnqTypeOK, FlushInv, AnsweredInv
<1>5. CASE EnqRestart
  BY <1>5 DEF EnqRestart, AnsweredInv
<1> QED BY <1>1, <1>2, <1>3, <1>4, <1>5
        DEF EnqNext, Clients, FlushThread, Take, FindBlock, WriteBlock, OpenFile,
            OpenFails, WritePart, WriteWhole, WriteFails, Notify

\* The smtp process stores a mail once.
LEMMA EnqOnceStep ==
  ASSUME TypeInv, FilesInv, OnceInv, EnqNext, UNCHANGED deqVars
  PROVE  OnceInv'
<1>0. UnsentInv /\ OneCopy /\ LastInv /\ AnsweredInv /\ HandledOncePerLife
  BY DEF OnceInv
<1>1. UNCHANGED <<handled, deq_restarts, wpc, wnode, node>>
  BY DEF deqVars, listVars, workerVars
<1>2. \A m \in Mail :
        client'[m] \in {"composing", "flushing"} /\ ~ Saving(m)'
          => client[m] \in {"composing", "flushing"} /\ ~ Saving(m)
  BY EnqUnsent
<1>3. AnsweredInv' /\ HandledOncePerLife'
  BY <1>0, <1>1, EnqAnswered DEF HandledOncePerLife
<1>4. CASE \A s \in Slot : Content(s)' \in Mail => Content(s)' = Content(s)
  <2>1. UnsentInv'
    <3> SUFFICES ASSUME NEW m \in Mail, client'[m] \in {"composing", "flushing"},
                        ~ Saving(m)'
                 PROVE  ~ Stored(m)' /\ handled'[m] = 0
      BY DEF UnsentInv
    <3>1. ~ Stored(m) /\ handled[m] = 0
      BY <1>0, <1>2 DEF UnsentInv
    <3>2. Stored(m)' => Stored(m)
      BY <1>4 DEF Stored
    <3> QED BY <1>1, <3>1, <3>2
  <2>2. OneCopy'
    BY <1>0, <1>4 DEF OneCopy
  <2>3. LastInv'
    <3> SUFFICES ASSUME NEW m \in Mail, handled'[m] = 1 + deq_restarts',
                        NEW s \in Slot, Content(s)' = m
                 PROVE  \E w \in Worker : wpc'[w] = "erase" /\ node'[wnode'[w]].slot = s
      BY DEF LastInv
    <3>1. Content(s) = m
      BY <1>4
    <3> QED BY <1>0, <1>1, <3>1 DEF LastInv
  <2> QED BY <1>3, <2>1, <2>2, <2>3 DEF OnceInv
<1>5. CASE /\ WriteBlock \/ WriteWhole
           /\ \E s \in Slot : StoreStep(s)
  <2>1. PICK s \in Slot : StoreStep(s)
    BY <1>5
  <2>2. ~ Stored(fmail) /\ handled[fmail] = 0 /\ fmail \in Mail
    BY <1>0, <2>1 DEF StoreStep, UnsentInv
  <2>3. Content(s)' = fmail /\ \A t \in Slot \ {s} : Content(t)' = Content(t)
    BY <2>1 DEF StoreStep
  <2>4. \A t \in Slot : Content(t) # fmail
    BY <2>2 DEF Stored
  <2>5. UnsentInv'
    <3> SUFFICES ASSUME NEW m \in Mail, client'[m] \in {"composing", "flushing"},
                        ~ Saving(m)'
                 PROVE  ~ Stored(m)' /\ handled'[m] = 0
      BY DEF UnsentInv
    <3>1. ~ Stored(m) /\ handled[m] = 0
      BY <1>0, <1>2 DEF UnsentInv
    <3>2. m # fmail
      <4>1. ASSUME m = fmail
            PROVE  Stored(m)' => Saving(m)'
        <5>1. CASE WriteWhole
          BY <4>1, <5>1 DEF WriteWhole, Saving
        <5>2. CASE WriteBlock
          <6>1. flush_action[fmail] = "whole"
            BY <5>2 DEF WriteBlock, TypeInv, FlushInv
          <6>2. fmail \notin Overlong
            BY <2>3, <2>4, <5>2 DEF WriteBlock, Content
          <6> QED BY <4>1, <5>2, <6>1, <6>2 DEF WriteBlock, Saving
        <5> QED BY <1>5, <5>1, <5>2
      <4>2. m = fmail => Stored(m)'
        BY <2>3 DEF Stored
      <4> QED BY <4>1, <4>2
    <3>3. \A t \in Slot : Content(t)' # m
      BY <2>3, <3>1, <3>2 DEF Stored
    <3> QED BY <1>1, <3>1, <3>3 DEF Stored
  <2>6. OneCopy'
    BY <1>0, <2>3, <2>4 DEF OneCopy
  <2>7. LastInv'
    <3> SUFFICES ASSUME NEW m \in Mail, handled'[m] = 1 + deq_restarts',
                        NEW t \in Slot, Content(t)' = m
                 PROVE  \E w \in Worker : wpc'[w] = "erase" /\ node'[wnode'[w]].slot = t
      BY DEF LastInv
    <3>1. m # fmail
      BY <1>1, <2>2 DEF TypeInv, TypeOK, DeqTypeOK
    <3>2. Content(t) = m
      BY <2>3, <3>1
    <3> QED BY <1>0, <1>1, <3>2 DEF LastInv
  <2> QED BY <1>3, <2>5, <2>6, <2>7 DEF OnceInv
<1> QED BY <1>4, <1>5, EnqStores

\* A step of the loader leaves the workers, the store and their nodes alone.
LEMMA LoaderKeepsHeld ==
  ASSUME TypeInv, NodesAccounted, Loader
  PROVE  /\ UNCHANGED <<wpc, wnode, handled, deq_restarts, tape, mess>>
         /\ \A w \in Worker : wpc[w] # "get" => node'[wnode[w]] = node[wnode[w]]
<1>0. DeqTypeOK /\ HolderInv
  BY DEF TypeInv, TypeOK
<1>1. UNCHANGED <<wpc, wnode, handled, deq_restarts, tape, mess>>
  BY DEF Loader, Receive, Idle, ScanTape, OpenScanMess, ScanMess, Query, Test,
         TakeMem, Pop, Read, PutToUsed, AddToHash, workerVars, storeVars
<1>2. \A w \in Worker : wpc[w] # "get" => wnode[w] \in Held /\ wnode[w] \in Node
  BY <1>0, HolderSets DEF HolderInv
<1>3. \A n \in Held \cap Node : node'[n] = node[n]
  <2>1. CASE Pop
    BY <1>0, <2>1 DEF Pop, NodesAccounted, DeqTypeOK
  <2>2. CASE Read
    BY <1>0, <2>2 DEF Read, NodesAccounted, DeqTypeOK, Loading
  <2>3. CASE UNCHANGED node
    BY <2>3
  <2> QED BY <2>1, <2>2, <2>3 DEF Loader, Receive, Idle, ScanTape,
        OpenScanMess, ScanMess, Query, Test, TakeMem, PutToUsed, AddToHash, listVars
<1> QED BY <1>1, <1>2, <1>3

\* Steps of a worker that neither handle a mail nor erase one.
LEMMA OtherWork ==
  ASSUME TypeInv, NodesAccounted, OnceInv, UNCHANGED enqVars, NEW w \in Worker,
         Get(w) \/ Unhash(w) \/ ReturnMem(w) \/ AppendFree(w)
  PROVE  OnceInv'
<1>0. /\ DeqTypeOK
      /\ UnsentInv /\ OneCopy /\ LastInv /\ AnsweredInv /\ HandledOncePerLife
  BY DEF OnceInv, TypeInv, TypeOK
<1>1. UNCHANGED <<tape, mess, handled, deq_restarts, client, flush_ID, fmail, fpc,
                  fresult, flush_action>>
  BY DEF Get, Unhash, ReturnMem, AppendFree, storeVars, enqVars
<1>2. ASSUME NEW v \in Worker, wpc[v] = "erase"
      PROVE  wpc'[v] = "erase" /\ node'[wnode'[v]] = node[wnode[v]]
  <2>1. v # w /\ wpc'[v] = "erase" /\ wnode'[v] = wnode[v] /\ wnode[v] \in Node
    BY <1>0, <1>2 DEF Get, Unhash, ReturnMem, AppendFree, DeqTypeOK, TypeInv, HolderInv
  <2>2. CASE AppendFree(w)
    <3>1. wnode[v] # wnode[w]
      BY <1>2, <2>1, <2>2 DEF AppendFree, NodesAccounted
    <3> QED BY <1>0, <2>1, <2>2, <3>1 DEF AppendFree, DeqTypeOK
  <2> QED BY <2>1, <2>2 DEF Get, Unhash, ReturnMem
<1>3. LastInv'
  BY <1>0, <1>1, <1>2 DEF LastInv, Content
<1> QED BY <1>0, <1>1, <1>3 DEF OnceInv, UnsentInv, OneCopy, AnsweredInv,
           HandledOncePerLife, Saving, Stored, Content

\* The hooks are given a mail that no worker has given them in this life.
LEMMA ServeOnceStep ==
  ASSUME TypeInv, NodesAccounted, SlotInv, OnceInv, UNCHANGED enqVars,
         NEW w \in Worker, Serve(w)
  PROVE  /\ OnceInv'
         /\ Stored(node[wnode[w]].mail) /\ node[wnode[w]].mail \in Mail
         /\ handled[node[wnode[w]].mail] <= deq_restarts
<1> DEFINE m == node[wnode[w]].mail
           s == node[wnode[w]].slot
<1>0. /\ DeqTypeOK
      /\ UnsentInv /\ OneCopy /\ LastInv /\ AnsweredInv /\ HandledOncePerLife
  BY DEF OnceInv, TypeInv, TypeOK
<1>1. /\ wpc[w] = "serve" /\ wpc' = [wpc EXCEPT ![w] = "erase"]
      /\ UNCHANGED <<tape, mess, node, wnode, deq_restarts, client, flush_ID,
                     fmail, fpc, fresult, flush_action>>
  BY DEF Serve, listVars, storeVars, enqVars
<1>2. wnode[w] \in Live /\ wnode[w] \in Keyed
  BY <1>1 DEF Live, Keyed, HeldAt
<1>3. m \in Mail /\ s \in Slot /\ Content(s) = m
  BY <1>2 DEF SlotInv, KeyInv
<1>4. Stored(m)
  BY <1>3 DEF Stored
<1>5. /\ \A k \in Mail : k # m => handled'[k] = handled[k]
      /\ handled'[m] = handled[m] + 1
      /\ \A k \in Mail : handled[k] \in Nat
      /\ deq_restarts \in Nat
  BY <1>0, <1>3 DEF Serve, DeqTypeOK
<1>6. handled[m] <= deq_restarts
  <2> SUFFICES ASSUME handled[m] = 1 + deq_restarts
               PROVE  FALSE
    BY <1>0, <1>3, <1>5 DEF HandledOncePerLife
  <2>1. PICK v \in Worker : wpc[v] = "erase" /\ node[wnode[v]].slot = s
    BY <1>0, <1>3 DEF LastInv
  <2>2. wnode[v] \in Keyed
    BY <2>1 DEF Keyed, HeldAt
  <2>3. wnode[v] = wnode[w]
    BY <1>2, <2>1, <2>2 DEF SlotInv, KeyInv
  <2> QED BY <1>1, <2>1, <2>3 DEF NodesAccounted
<1>7. UnsentInv'
  <2> SUFFICES ASSUME NEW k \in Mail, client[k] \in {"composing", "flushing"},
                      ~ Saving(k)
               PROVE  ~ Stored(k)' /\ handled'[k] = 0
    BY <1>1 DEF UnsentInv, Saving
  <2>1. ~ Stored(k) /\ handled[k] = 0
    BY <1>0 DEF UnsentInv
  <2>2. k # m
    BY <1>4, <2>1
  <2> QED BY <1>1, <1>5, <2>1, <2>2 DEF Stored, Content
<1>8. LastInv'
  <2> SUFFICES ASSUME NEW k \in Mail, handled'[k] = 1 + deq_restarts,
                      NEW t \in Slot, Content(t) = k
               PROVE  \E v \in Worker : wpc'[v] = "erase" /\ node[wnode[v]].slot = t
    BY <1>1 DEF LastInv, Content
  <2>1. CASE k = m
    <3>1. t = s
      BY <1>0, <1>3, <2>1 DEF OneCopy
    <3>2. wpc'[w] = "erase"
      BY <1>0, <1>1 DEF DeqTypeOK
    <3> QED BY <3>1, <3>2
  <2>2. CASE k # m
    <3>1. PICK v \in Worker : wpc[v] = "erase" /\ node[wnode[v]].slot = t
      BY <1>0, <1>5, <2>2 DEF LastInv
    <3>2. wpc'[v] = "erase"
      BY <1>0, <1>1, <3>1 DEF DeqTypeOK
    <3> QED BY <3>1, <3>2
  <2> QED BY <2>1, <2>2
<1>9. HandledOncePerLife'
  <2>1. ASSUME NEW k \in Mail
        PROVE  handled'[k] <= 1 + deq_restarts
    <3>1. CASE k = m
      BY <1>5, <1>6, <3>1
    <3>2. CASE k # m
      BY <1>0, <1>5, <3>2 DEF HandledOncePerLife
    <3> QED BY <3>1, <3>2
  <2> QED BY <1>1, <2>1 DEF HandledOncePerLife
<1>10. OneCopy' /\ AnsweredInv'
  BY <1>0, <1>1 DEF OneCopy, AnsweredInv, Content
<1> QED BY <1>3, <1>4, <1>6, <1>7, <1>8, <1>9, <1>10 DEF OnceInv

\* What is erased was the last copy of a mail that has been handled.
LEMMA EraseOnceStep ==
  ASSUME TypeInv, NodesAccounted, SlotInv, OnceInv, UNCHANGED enqVars,
         NEW w \in Worker, Erase(w)
  PROVE  /\ OnceInv'
         /\ node[wnode[w]].mail \in Mail
         /\ handled[node[wnode[w]].mail] > 0
         /\ \A s \in Slot : Content(s)' = IF Content(s) = node[wnode[w]].mail
                                          THEN NoMail ELSE Content(s)
<1> DEFINE m == node[wnode[w]].mail
           s == node[wnode[w]].slot
<1> USE StoreAssumption
<1>0. /\ StoreTypeOK /\ DeqTypeOK
      /\ UnsentInv /\ OneCopy /\ LastInv /\ AnsweredInv /\ HandledOncePerLife
  BY DEF OnceInv, TypeInv, TypeOK
<1>1. /\ wpc[w] = "erase" /\ wpc' = [wpc EXCEPT ![w] = "unhash"] /\ EraseSlot(s)
      /\ UNCHANGED <<node, wnode, handled, deq_restarts, client, flush_ID,
                     fmail, fpc, fresult, flush_action>>
  BY DEF Erase, listVars, enqVars
<1>2. wnode[w] \in Live /\ wnode[w] \in Keyed
  BY <1>1 DEF Live, Keyed, HeldAt
<1>3. m \in Mail /\ s \in Slot /\ Content(s) = m /\ handled[m] > 0
  BY <1>1, <1>2 DEF SlotInv, KeyInv, ServedInv
<1>4. \A t \in Slot : t # s => Content(t)' = Content(t)
  BY <1>0, <1>1, <1>3 DEF EraseSlot, Content, Slot, StoreTypeOK
<1>5. \A t \in Slot : t = s => Content(t)' = NoMail
  BY <1>0, <1>1, <1>3 DEF EraseSlot, Content, Slot, StoreTypeOK
<1>6. \A t \in Slot : Content(t)' = IF Content(t) = m THEN NoMail ELSE Content(t)
  BY <1>0, <1>3, <1>4, <1>5 DEF OneCopy
<1>7. UnsentInv' /\ OneCopy'
  <2>1. \A k \in Mail : Stored(k)' => Stored(k)
    BY <1>6 DEF Stored
  <2>2. UnsentInv'
    BY <1>0, <1>1, <2>1 DEF UnsentInv, Saving
  <2>3. OneCopy'
    BY <1>0, <1>6 DEF OneCopy
  <2> QED BY <2>2, <2>3
<1>8. LastInv'
  <2> SUFFICES ASSUME NEW k \in Mail, handled[k] = 1 + deq_restarts,
                      NEW t \in Slot, Content(t)' = k
               PROVE  \E v \in Worker : wpc'[v] = "erase" /\ node[wnode[v]].slot = t
    BY <1>1 DEF LastInv
  <2>1. Content(t) = k /\ t # s
    BY <1>5, <1>6
  <2>2. PICK v \in Worker : wpc[v] = "erase" /\ node[wnode[v]].slot = t
    BY <1>0, <2>1 DEF LastInv
  <2>3. wpc'[v] = "erase"
    BY <1>0, <1>1, <2>1, <2>2 DEF DeqTypeOK
  <2> QED BY <2>2, <2>3
<1>9. AnsweredInv' /\ HandledOncePerLife'
  BY <1>0, <1>1 DEF AnsweredInv, HandledOncePerLife
<1> QED BY <1>3, <1>6, <1>7, <1>8, <1>9 DEF OnceInv

\* The steps of the composition, as long as keys find room.
LEMMA OnceStep ==
  TypeInv /\ NodesAccounted /\ FilesInv /\ SlotInv /\ OnceInv /\ [Next]_vars
    => OnceInv'
<1> SUFFICES ASSUME TypeInv, NodesAccounted, FilesInv, SlotInv, OnceInv, [Next]_vars
             PROVE  OnceInv'
  OBVIOUS
<1>0. UnsentInv /\ OneCopy /\ LastInv /\ AnsweredInv /\ HandledOncePerLife
  BY DEF OnceInv
<1>1. CASE Enqueue
  BY <1>1, EnqOnceStep DEF Enqueue
<1>2. CASE Loader /\ UNCHANGED enqVars
  <2>1. /\ UNCHANGED <<wpc, wnode, handled, deq_restarts, tape, mess>>
        /\ \A w \in Worker : wpc[w] # "get" => node'[wnode[w]] = node[wnode[w]]
    BY <1>2, LoaderKeepsHeld
  <2>2. LastInv'
    BY <1>0, <2>1 DEF LastInv, Content
  <2> QED BY <1>0, <1>2, <2>1, <2>2 DEF OnceInv, UnsentInv, OneCopy, AnsweredInv,
           HandledOncePerLife, Saving, Stored, Content, enqVars
<1>3. ASSUME NEW w \in Worker, Work(w), UNCHANGED enqVars
      PROVE  OnceInv'
  BY <1>3, OtherWork, ServeOnceStep, EraseOnceStep DEF Work
<1>4. CASE DeqRestart /\ UNCHANGED enqVars
  <2>1. /\ UNCHANGED <<handled, tape, mess>> /\ deq_restarts' = deq_restarts + 1
        /\ deq_restarts \in Nat /\ \A m \in Mail : handled[m] \in Nat
    BY <1>4 DEF DeqRestart, storeVars, TypeInv, TypeOK, DeqTypeOK
  <2>2. \A m \in Mail : handled'[m] < 1 + deq_restarts'
    BY <1>0, <2>1 DEF HandledOncePerLife
  <2>3. LastInv' /\ HandledOncePerLife'
    BY <2>1, <2>2 DEF LastInv, HandledOncePerLife
  <2> QED BY <1>0, <1>4, <2>1, <2>3 DEF OnceInv, UnsentInv, OneCopy, AnsweredInv,
           Saving, Stored, Content, enqVars
<1>5. CASE UNCHANGED vars
  BY <1>0, <1>5 DEF vars, storeVars, enqVars, deqVars, listVars, workerVars, OnceInv,
       UnsentInv, OneCopy, LastInv, AnsweredInv, HandledOncePerLife, Saving, Stored,
       Content
<1> QED BY <1>1, <1>2, <1>3, <1>4, <1>5 DEF Next, Dequeue, DeqNext

\* The store never has two copies of a mail, and none of a mail that was
\* handled in this life but the one its worker is about to erase.
THEOREM OneCopyStored == Spec /\ []HashRoom => []OnceInv
<1>1. Init => OnceInv
  BY OnceInit
<1>2. TypeInv /\ NodesAccounted /\ FilesInv /\ SlotInv /\ OnceInv /\ [Next]_vars
        => OnceInv'
  BY OnceStep
<1> QED BY <1>1, <1>2, TypeCorrect, NodesNeverLost, FilesHaveOwners,
           SlotsStandAlone, PTL DEF Spec

\* The hooks see a mail once in each life of the delivery process at most: a
\* duplicate delivery takes a crash between the hooks and the erasing.
THEOREM HandledOnce == Spec /\ []HashRoom => []HandledOncePerLife
<1>1. OnceInv => HandledOncePerLife
  BY DEF OnceInv
<1> QED BY <1>1, OneCopyStored, PTL

-----------------------------------------------------------------------------
(* What the queue promises.                                                *)

LEMMA PromiseInit == Init => Promise!Init
<1> SUFFICES ASSUME Init PROVE Promise!Init
  OBVIOUS
<1>1. \A s \in Slot : Content(s) = NoMail
  BY DEF Init, StoreInit, Content, Slot
<1>2. \A m \in Mail : ~ Stored(m) /\ client[m] # "accepted"
  BY <1>1, StoreAssumption DEF Init, EnqInit, Stored
<1> QED BY <1>2 DEF Promise!Init, Init, DeqInit

\* A client is told 250 only when its mail has been saved.
LEMMA EnqAccepts ==
  ASSUME TypeInv, AnsweredInv, EnqNext
  PROVE  \/ \A m \in Mail : client'[m] = "accepted" <=> client[m] = "accepted"
         \/ /\ Feedback /\ Saved(fmail) /\ fmail \in Mail
            /\ \A m \in Mail : client'[m] = "accepted" <=>
                                 client[m] = "accepted" \/ m = fmail
<1>0. EnqTypeOK /\ FlushInv
  BY DEF TypeInv, TypeOK
<1> DEFINE Same == \A m \in Mail : client'[m] = "accepted" <=> client[m] = "accepted"
<1>1. ASSUME NEW k \in Mail, NEW action \in {"part", "whole"},
             PutToQueue(k, action)
      PROVE  Same
  BY <1>0, <1>1 DEF PutToQueue, EnqTypeOK
<1>2. ASSUME NEW k \in Mail, Cancel(k)
      PROVE  Same
  BY <1>0, <1>2 DEF Cancel, EnqTypeOK
<1>3. CASE Feedback
  <2>1. /\ fmail \in Mail /\ client[fmail] = "flushing" /\ fpc = "feedback"
        /\ \A m \in Mail \ {fmail} : client'[m] = client[m]
        /\ flush_action[fmail] \in {"part", "whole"}
    BY <1>0, <1>3 DEF Feedback, EnqTypeOK, FlushInv
  <2>2. CASE client'[fmail] = "accepted"
    <3>1. fresult = "ok" /\ flush_action[fmail] = "whole"
      BY <1>0, <1>3, <2>1, <2>2 DEF Feedback, EnqTypeOK
    <3> QED BY <1>3, <2>1, <2>2, <3>1 DEF Saved
  <2>3. CASE client'[fmail] # "accepted"
    BY <2>1, <2>3
  <2> QED BY <2>2, <2>3
<1>4. CASE EnqRestart
  BY <1>0, <1>4 DEF EnqRestart, EnqTypeOK, AnsweredInv
<1>5. CASE UNCHANGED client
  BY <1>5
<1> QED BY <1>1, <1>2, <1>3, <1>4, <1>5
        DEF EnqNext, Clients, FlushThread, Take, FindBlock, WriteBlock, OpenFile,
            OpenFails, WritePart, WriteWhole, WriteFails, Notify

\* A step of the smtp process stores a mail, accepts one, or does nothing that
\* the promise is about.
LEMMA EnqPromiseStep ==
  ASSUME TypeInv, FilesInv, OnceInv, AcceptedIsStored, EnqNext, UNCHANGED deqVars
  PROVE  Promise!Next \/ UNCHANGED Promise!vars
<1> DEFINE stored   == {m \in Mail : Stored(m)}
           accepted == {m \in Mail : client[m] = "accepted"}
<1>0. UnsentInv /\ AnsweredInv
  BY DEF OnceInv
<1>1. UNCHANGED <<handled, deq_restarts>> /\ \A m \in Mail : handled[m] \in Nat
  BY DEF deqVars, TypeInv, TypeOK, DeqTypeOK
<1>2. \A s \in Slot : Content(s) \in Mail => Content(s)' = Content(s)
  <2>1. /\ \A p \in Pos : tape[p] \in Mail => tape'[p] = tape[p]
        /\ \A i \in ID : mess[i] \in Mail => mess'[i] = mess[i]
    BY EnqKeepsMail
  <2> QED BY <2>1 DEF Slot, Content
<1>3. CASE /\ WriteBlock \/ WriteWhole
           /\ \E s \in Slot : StoreStep(s)
  <2>1. PICK s \in Slot : StoreStep(s)
    BY <1>3
  <2>2. ~ Stored(fmail) /\ handled[fmail] = 0 /\ fmail \in Mail
    BY <1>0, <2>1 DEF StoreStep, UnsentInv
  <2>3. fmail \notin stored /\ fmail \notin accepted
    BY <2>1, <2>2 DEF StoreStep
  <2>4. accepted' = accepted
    BY <2>1 DEF StoreStep
  <2>5. stored' = stored \cup {fmail}
    <3>1. \A m \in Mail : Stored(m)' <=> Stored(m) \/ m = fmail
      BY <1>2, <2>1 DEF Stored, StoreStep
    <3> QED BY <2>2, <3>1
  <2>6. PICK m \in Mail : m = fmail
    BY <2>2
  <2>7. Promise!Store(m)
    BY <1>1, <2>2, <2>3, <2>4, <2>5, <2>6 DEF Promise!Store
  <2> QED BY <2>7 DEF Promise!Next
<1>4. CASE \A s \in Slot : Content(s)' \in Mail => Content(s)' = Content(s)
  <2>1. stored' = stored
    <3>1. \A m \in Mail : Stored(m)' <=> Stored(m)
      BY <1>2, <1>4 DEF Stored
    <3> QED BY <3>1
  <2>2. CASE \A m \in Mail : client'[m] = "accepted" <=> client[m] = "accepted"
    <3>1. accepted' = accepted
      BY <2>2
    <3> QED BY <1>1, <2>1, <3>1 DEF Promise!vars
  <2>3. CASE /\ Feedback /\ Saved(fmail) /\ fmail \in Mail
             /\ \A m \in Mail : client'[m] = "accepted" <=>
                                  client[m] = "accepted" \/ m = fmail
    <3>1. accepted' = accepted \cup {fmail}
      BY <2>3
    <3>2. Stored(fmail) \/ handled[fmail] > 0
      BY <1>1, <2>3 DEF AcceptedIsStored
    <3>3. PICK m \in Mail : m = fmail
      BY <2>3
    <3>4. m \in stored \/ handled[m] > 0
      BY <3>2, <3>3
    <3>5. Promise!Accept(m)
      BY <1>1, <2>1, <3>1, <3>3, <3>4 DEF Promise!Accept
    <3> QED BY <3>5 DEF Promise!Next
  <2> QED BY <1>0, <2>2, <2>3, EnqAccepts
<1> QED BY <1>3, <1>4, EnqStores

\* A step of the delivery process handles a mail, discards one that has been
\* handled, starts a new life, or does nothing that the promise is about.
LEMMA DeqPromiseStep ==
  ASSUME TypeInv, NodesAccounted, SlotInv, OnceInv, DeqNext, UNCHANGED enqVars
  PROVE  Promise!Next \/ UNCHANGED Promise!vars
<1> DEFINE stored   == {m \in Mail : Stored(m)}
           accepted == {m \in Mail : client[m] = "accepted"}
<1>1. accepted' = accepted
  BY DEF enqVars
<1>2. UNCHANGED <<tape, mess>> => stored' = stored
  BY DEF Stored, Content
<1>3. CASE Loader
  <2>1. UNCHANGED <<handled, deq_restarts, tape, mess>>
    BY <1>3, LoaderKeepsHeld
  <2> QED BY <1>1, <1>2, <2>1 DEF Promise!vars
<1>4. ASSUME NEW w \in Worker, Serve(w)
      PROVE  Promise!Next
  <2>1. /\ Stored(node[wnode[w]].mail) /\ node[wnode[w]].mail \in Mail
        /\ handled[node[wnode[w]].mail] <= deq_restarts
    BY <1>4, ServeOnceStep
  <2>2. PICK m \in Mail : m = node[wnode[w]].mail
    BY <2>1
  <2>3. m \in stored /\ handled[m] <= deq_restarts
    BY <2>1, <2>2
  <2>4. handled' = [handled EXCEPT ![m] = @ + 1]
    BY <1>4, <2>2 DEF Serve, TypeInv, TypeOK, DeqTypeOK
  <2>5. UNCHANGED <<tape, mess, deq_restarts>>
    BY <1>4 DEF Serve, storeVars
  <2>6. Promise!Handle(m)
    BY <1>1, <1>2, <2>3, <2>4, <2>5 DEF Promise!Handle
  <2> QED BY <2>6 DEF Promise!Next
<1>5. ASSUME NEW w \in Worker, Erase(w)
      PROVE  Promise!Next \/ UNCHANGED Promise!vars
  <2>1. /\ node[wnode[w]].mail \in Mail /\ handled[node[wnode[w]].mail] > 0
        /\ \A s \in Slot : Content(s)' = IF Content(s) = node[wnode[w]].mail
                                         THEN NoMail ELSE Content(s)
    BY <1>5, EraseOnceStep
  <2>2. PICK m \in Mail : m = node[wnode[w]].mail
    BY <2>1
  <2>3. UNCHANGED <<handled, deq_restarts>>
    BY <1>5 DEF Erase
  <2>4. stored' = stored \ {m}
    <3>1. \A k \in Mail : Stored(k)' <=> Stored(k) /\ k # m
      BY <2>1, <2>2, StoreAssumption DEF Stored
    <3> QED BY <3>1
  <2>5. m \in stored
    <3>1. wnode[w] \in Live
      BY <1>5 DEF Erase, Live, HeldAt
    <3>2. node[wnode[w]].slot \in Slot /\ Content(node[wnode[w]].slot) = m
      BY <2>2, <3>1 DEF SlotInv, KeyInv, Live, Keyed, HeldAt
    <3> QED BY <3>2 DEF Stored
  <2>6. Promise!Discard(m)
    BY <1>1, <2>1, <2>2, <2>3, <2>4, <2>5 DEF Promise!Discard
  <2> QED BY <2>6 DEF Promise!Next
<1>6. ASSUME NEW w \in Worker,
             Get(w) \/ Unhash(w) \/ ReturnMem(w) \/ AppendFree(w)
      PROVE  UNCHANGED Promise!vars
  <2>1. UNCHANGED <<tape, mess, handled, deq_restarts>>
    BY <1>6 DEF Get, Unhash, ReturnMem, AppendFree, storeVars
  <2> QED BY <1>1, <1>2, <2>1 DEF Promise!vars
<1>7. CASE DeqRestart
  <2>1. UNCHANGED <<tape, mess, handled>> /\ deq_restarts' = deq_restarts + 1
    BY <1>7 DEF DeqRestart, storeVars
  <2>2. Promise!NewLife
    BY <1>1, <1>2, <2>1 DEF Promise!NewLife
  <2> QED BY <2>2 DEF Promise!Next
<1> QED BY <1>3, <1>4, <1>5, <1>6, <1>7 DEF DeqNext, Work

\* The two processes with their two lists, four locks, tape, files and hash
\* tables behave, as far as clients and hooks can tell, as one durable queue.
THEOREM QueueKeepsPromise == Spec /\ []HashRoom => KeepsPromise
<1>1. Init => Promise!Init
  BY PromiseInit
<1>2. TypeInv /\ NodesAccounted /\ FilesInv /\ SlotInv /\ OnceInv
        /\ AcceptedIsStored /\ [Next]_vars
        => [Promise!Next]_(Promise!vars)
  <2> SUFFICES ASSUME TypeInv, NodesAccounted, FilesInv, SlotInv, OnceInv,
                      AcceptedIsStored, [Next]_vars
               PROVE  Promise!Next \/ UNCHANGED Promise!vars
    OBVIOUS
  <2>1. CASE UNCHANGED vars
    BY <2>1 DEF vars, storeVars, enqVars, deqVars, Promise!vars, Stored, Content
  <2> QED BY <2>1, EnqPromiseStep, DeqPromiseStep DEF Next, Enqueue, Dequeue
<1> QED
  BY <1>1, <1>2, TypeCorrect, NodesNeverLost, FilesHaveOwners, SlotsStandAlone,
     OneCopyStored, AcceptedNeverLost, PTL
  DEF Spec, KeepsPromise, Promise!Spec

-----------------------------------------------------------------------------
(* The memory of the nodes.                                                *)

\* The units that the nodes in C hold when the nodes are nd.
HeldUnits(C, nd) == UNION {{n} \X (1 .. nd[n].size) : n \in C}

\* One node holds as many units as its size says.
LEMMA NodeUnits ==
  ASSUME NEW n, NEW k \in Nat
  PROVE  /\ IsFiniteSet({n} \X (1 .. k))
         /\ Cardinality({n} \X (1 .. k)) = k
<1>1. IsFiniteSet({n}) /\ Cardinality({n}) = 1
  BY FS_Singleton
<1>2. IsFiniteSet(1 .. k) /\ Cardinality(1 .. k) = k
  <2>1. 1 \in Int /\ k \in Int
    OBVIOUS
  <2> QED BY <2>1, FS_Interval
<1>3. /\ IsFiniteSet({n} \X (1 .. k))
      /\ Cardinality({n} \X (1 .. k)) = Cardinality({n}) * Cardinality(1 .. k)
  BY <1>1, <1>2, FS_Product
<1> QED BY <1>1, <1>2, <1>3

\* The units of finitely many nodes are finitely many.
LEMMA HeldUnitsFinite ==
  ASSUME NEW C, IsFiniteSet(C), NEW nd, \A n \in C : nd[n].size \in Nat
  PROVE  IsFiniteSet(HeldUnits(C, nd))
<1> DEFINE f == [n \in C |-> {n} \X (1 .. nd[n].size)]
           T == {{n} \X (1 .. nd[n].size) : n \in C}
<1>1. f \in Surjection(C, T)
  BY DEF Surjection
<1>2. IsFiniteSet(T)
  BY <1>1, FS_Surjection
<1>3. ASSUME NEW n \in C
      PROVE  IsFiniteSet({n} \X (1 .. nd[n].size))
  BY NodeUnits
<1> QED BY <1>2, <1>3, FS_UNION DEF HeldUnits

\* One node more holds its size more.
LEMMA HeldUnitsAdd ==
  ASSUME NEW C, IsFiniteSet(C), NEW n, n \notin C,
         NEW nd, \A c \in C \cup {n} : nd[c].size \in Nat
  PROVE  /\ Cardinality(HeldUnits(C, nd)) \in Nat
         /\ Cardinality(HeldUnits(C \cup {n}, nd))
              = Cardinality(HeldUnits(C, nd)) + nd[n].size
<1> DEFINE A == HeldUnits(C, nd)
           B == {n} \X (1 .. nd[n].size)
<1>1. IsFiniteSet(A) /\ Cardinality(A) \in Nat
  BY HeldUnitsFinite, FS_CardinalityType
<1>2. IsFiniteSet(B) /\ Cardinality(B) = nd[n].size
  BY NodeUnits
<1>3. A \cap B = {}
  BY DEF HeldUnits
<1>4. HeldUnits(C \cup {n}, nd) = A \cup B
  BY DEF HeldUnits
<1>5. Cardinality(A \cap B) = 0
  BY <1>3, FS_EmptySet
<1>6. Cardinality(A \cup B) = Cardinality(A) + nd[n].size
  <2> HIDE DEF A, B
  <2>1. nd[n].size \in Nat
    OBVIOUS
  <2>2. Cardinality(A \cup B) = Cardinality(A) + Cardinality(B) - Cardinality(A \cap B)
    BY <1>1, <1>2, FS_Union
  <2> QED BY <1>1, <1>2, <1>5, <2>1, <2>2
<1> QED BY <1>1, <1>4, <1>6

\* Fewer nodes hold no more.
LEMMA HeldUnitsShrink ==
  ASSUME NEW C, IsFiniteSet(C), NEW D \in SUBSET C,
         NEW nd, \A c \in C : nd[c].size \in Nat
  PROVE  /\ Cardinality(HeldUnits(D, nd)) \in Nat
         /\ Cardinality(HeldUnits(D, nd)) <= Cardinality(HeldUnits(C, nd))
<1>1. IsFiniteSet(HeldUnits(C, nd))
  BY HeldUnitsFinite
<1>2. HeldUnits(D, nd) \in SUBSET HeldUnits(C, nd)
  BY DEF HeldUnits
<1> QED BY <1>1, <1>2, FS_Subset, FS_CardinalityType

\* What the nodes hold depends on the sizes of the nodes counted only.
LEMMA HeldUnitsSame ==
  ASSUME NEW C, NEW nd, NEW nf, \A c \in C : nd[c].size = nf[c].size
  PROVE  HeldUnits(C, nd) = HeldUnits(C, nf)
BY DEF HeldUnits

\* The memory is bounded, and a node that is being loaded holds what was taken
\* for it.
MemInv ==
  /\ MemoryBounded
  /\ lpc \in {"read", "put_used"} => node[lnode].size = lsize

\* The counted nodes are finitely many, and not free.
LEMMA CountedNodes ==
  ASSUME TypeInv, NodesAccounted
  PROVE  /\ Counted \subseteq Node /\ IsFiniteSet(Counted)
         /\ Counted \cap free = {}
         /\ \A n \in Node : node[n].size \in Nat
         /\ lsize \in Nat /\ current_mem \in Int /\ MaxMem \in Nat
         /\ \A C : HeldUnits(C, node) = UNION {{n} \X (1 .. node[n].size) : n \in C}
<1>1. Counted \subseteq Loading \cup OnUsedList \cup Held
  BY DEF Counted, Held, HeldAt
<1>2. Counted \subseteq Node /\ Counted \cap free = {}
  BY <1>1 DEF NodesAccounted
<1>3. IsFiniteSet(Counted)
  BY <1>2, DequeueAssumption, FS_Subset
<1> QED BY <1>2, <1>3, DequeueAssumption
        DEF TypeInv, TypeOK, DeqTypeOK, HeldUnits

\* Steps that take nodes out of the count, and change no memory.
LEMMA MemShrinks ==
  ASSUME TypeInv, TypeInv', NodesAccounted, MemInv, Counted' \subseteq Counted,
         \A n \in Counted' : node'[n].size = node[n].size,
         UNCHANGED <<current_mem, lpc, lsize, lnode>>,
         lpc \in {"read", "put_used"} => node'[lnode] = node[lnode]
  PROVE  MemInv'
<1>1. HeldUnits(Counted', node') = HeldUnits(Counted', node)
  BY HeldUnitsSame
<1>2. Cardinality(HeldUnits(Counted', node)) <= Cardinality(HeldUnits(Counted, node))
      /\ Cardinality(HeldUnits(Counted', node)) \in Nat
      /\ Cardinality(HeldUnits(Counted, node)) \in Nat
  BY CountedNodes, HeldUnitsShrink
<1>3. /\ MemHeld = Cardinality(HeldUnits(Counted, node))
                     + (IF lpc = "pop" THEN lsize ELSE 0)
      /\ MemHeld' = Cardinality(HeldUnits(Counted', node'))
                     + (IF lpc' = "pop" THEN lsize' ELSE 0)
  BY DEF MemHeld, HeldUnits
<1> QED BY <1>1, <1>2, <1>3, CountedNodes DEF MemInv, MemoryBounded

\* A worker's step.
LEMMA WorkMemStep ==
  ASSUME TypeInv, TypeInv', NodesAccounted, MemInv, NEW w \in Worker, Work(w)
  PROVE  MemInv'
<1> DEFINE steps == {"serve", "erase", "unhash", "mem"}
<1>0. DeqTypeOK /\ HolderInv
  BY DEF TypeInv, TypeOK
<1>1. UNCHANGED <<lpc, lsize, lnode>> /\ Loading' = Loading
  BY DEF Work, Get, Serve, Erase, Unhash, ReturnMem, AppendFree, loaderVars, Loading
<1>2. \A n : n \in Counted <=>
        \/ n \in Loading \/ n \in OnUsedList
        \/ \E v \in Worker : wpc[v] \in steps /\ wnode[v] = n
  BY DEF Counted, HeldAt
<1>3. \A n : n \in Counted' <=>
        \/ n \in Loading' \/ n \in OnUsedList'
        \/ \E v \in Worker : wpc'[v] \in steps /\ wnode'[v] = n
  BY DEF Counted, HeldAt
<1>4. \A v \in Worker \ {w} : wpc'[v] = wpc[v] /\ wnode'[v] = wnode[v]
  BY <1>0 DEF Work, Get, Serve, Erase, Unhash, ReturnMem, AppendFree, DeqTypeOK
<1>5. wpc[w] # "get" =>
        /\ wnode[w] \notin OnUsedList /\ wnode[w] \notin Loading
        /\ \A v \in Worker \ {w} : wpc[v] # "get" => wnode[v] # wnode[w]
  BY <1>0, HolderSets DEF NodesAccounted
<1>6. CASE Get(w)
  <2>1. /\ used \in Seq(Node) /\ used # <<>> /\ used' = Tail(used)
        /\ wnode'[w] = Head(used) /\ UNCHANGED <<node, current_mem>>
    BY <1>0, <1>6 DEF Get, DeqTypeOK
  <2>2. Head(used) \in Elems(used) /\ Elems(used') \subseteq Elems(used)
    BY <2>1, HeadElems
  <2>3. Counted' \subseteq Counted
    BY <1>1, <1>2, <1>3, <1>4, <2>1, <2>2 DEF OnUsedList, Elems
  <2> QED BY <1>1, <2>1, <2>3, MemShrinks
<1>7. CASE Serve(w) \/ Erase(w) \/ Unhash(w)
  <2>1. /\ UNCHANGED <<used, node, current_mem, wnode>>
        /\ wpc[w] \in steps
    BY <1>7 DEF Serve, Erase, Unhash, listVars
  <2>2. Counted' \subseteq Counted
    BY <1>1, <1>2, <1>3, <1>4, <2>1 DEF OnUsedList
  <2> QED BY <1>1, <2>1, <2>2, MemShrinks
<1>8. CASE ReturnMem(w)
  <2>1. /\ UNCHANGED <<used, node, wnode>> /\ wpc[w] = "mem" /\ wpc'[w] = "append"
        /\ current_mem' = current_mem - node[wnode[w]].size
        /\ wnode[w] \in Node
    BY <1>0, <1>8 DEF ReturnMem, DeqTypeOK, HolderInv
  <2>2. Counted = Counted' \cup {wnode[w]} /\ wnode[w] \notin Counted'
    BY <1>1, <1>2, <1>3, <1>4, <1>5, <2>1 DEF OnUsedList
  <2>3. /\ IsFiniteSet(Counted')
        /\ \A c \in Counted' \cup {wnode[w]} : node[c].size \in Nat
    BY <2>2, CountedNodes, FS_Subset
  <2>4. /\ Cardinality(HeldUnits(Counted', node)) \in Nat
        /\ Cardinality(HeldUnits(Counted, node))
             = Cardinality(HeldUnits(Counted', node)) + node[wnode[w]].size
    BY <2>2, <2>3, HeldUnitsAdd
  <2>5. /\ MemHeld = Cardinality(HeldUnits(Counted, node))
                       + (IF lpc = "pop" THEN lsize ELSE 0)
        /\ MemHeld' = Cardinality(HeldUnits(Counted', node'))
                       + (IF lpc' = "pop" THEN lsize' ELSE 0)
    BY DEF MemHeld, HeldUnits
  <2>6. node[wnode[w]].size \in Nat
    BY <2>3
  <2> QED BY <1>1, <2>1, <2>4, <2>5, <2>6, CountedNodes DEF MemInv, MemoryBounded
<1>9. CASE AppendFree(w)
  <2>1. /\ UNCHANGED <<used, current_mem>> /\ wpc[w] = "append" /\ wpc'[w] = "get"
        /\ node' = [node EXCEPT ![wnode[w]] = FreshNode]
    BY <1>0, <1>9 DEF AppendFree, DeqTypeOK
  <2>2. Counted' \subseteq Counted /\ wnode[w] \notin Counted'
    BY <1>1, <1>2, <1>3, <1>4, <1>5, <2>1 DEF OnUsedList
  <2>3. \A n \in Node : n # wnode[w] => node'[n] = node[n]
    BY <1>0, <2>1 DEF DeqTypeOK
  <2>4. lpc \in {"read", "put_used"} => lnode \in Node /\ lnode # wnode[w]
    BY <1>0, <1>5, <2>1 DEF Loading, HolderInv
  <2>5. \A n \in Counted' : node'[n] = node[n]
    BY <2>2, <2>3, CountedNodes
  <2> QED BY <1>1, <2>1, <2>2, <2>3, <2>4, <2>5, MemShrinks
<1> QED BY <1>6, <1>7, <1>8, <1>9 DEF Work

\* A step of the loader: it takes memory before it takes a node, and gives it
\* back with the node.
LEMMA LoaderMemStep ==
  ASSUME TypeInv, TypeInv', NodesAccounted, MemInv, Loader
  PROVE  MemInv'
<1> DEFINE H == HeldAt({"serve", "erase", "unhash", "mem"})
           U == Cardinality(HeldUnits(Counted, node))
<1>0. DeqTypeOK /\ HolderInv
  BY DEF TypeInv, TypeOK
<1>1. H' = H
  BY DEF Loader, Receive, Idle, ScanTape, OpenScanMess, ScanMess, Query, Test,
         TakeMem, Pop, Read, PutToUsed, AddToHash, workerVars, HeldAt
<1>2. /\ MemHeld = U + (IF lpc = "pop" THEN lsize ELSE 0)
      /\ MemHeld' = Cardinality(HeldUnits(Counted', node'))
                     + (IF lpc' = "pop" THEN lsize' ELSE 0)
  BY DEF MemHeld, HeldUnits
<1>3. U \in Nat
  BY CountedNodes, HeldUnitsFinite, FS_CardinalityType
<1>4. LoadReturns => lpc' \in {"recv", "scan_tape", "scan_mess"}
  BY <1>0 DEF LoadReturns, DeqTypeOK
<1>5. ASSUME UNCHANGED <<used, node>>, Loading' = Loading
      PROVE  Cardinality(HeldUnits(Counted', node')) = U
  BY <1>1, <1>5 DEF Counted, OnUsedList
<1>6. CASE \/ Receive \/ Idle \/ ScanTape \/ OpenScanMess \/ ScanMess
           \/ Query \/ Test
  <2>1. /\ UNCHANGED <<used, node, current_mem>>
        /\ lpc \notin {"pop", "read", "put_used"} /\ lpc' \notin {"read", "put_used"}
        /\ lpc' = "pop" => lsize' = 0
    BY <1>4, <1>6 DEF Receive, Idle, ScanTape, OpenScanMess, ScanMess, Query, Test,
                      listVars
  <2>2. Loading = {} /\ Loading' = {}
    BY <2>1 DEF Loading
  <2> QED BY <1>2, <1>5, <2>1, <2>2 DEF MemInv, MemoryBounded
<1>7. CASE TakeMem
  <2>1. UNCHANGED <<used, node>> /\ lpc = "mem"
    BY <1>7 DEF TakeMem
  <2>2. CASE LoadReturns /\ UNCHANGED current_mem
    BY <1>2, <1>4, <1>5, <2>1, <2>2 DEF Loading, MemInv, MemoryBounded
  <2>3. CASE /\ current_mem + lsize <= MaxMem
             /\ current_mem' = current_mem + lsize
             /\ lpc' = "pop" /\ lsize' = lsize
    <3>1. Loading = {} /\ Loading' = {}
      BY <2>1, <2>3 DEF Loading
    <3> QED BY <1>2, <1>3, <1>5, <2>1, <2>3, <3>1, CountedNodes DEF MemInv, MemoryBounded
  <2> QED BY <1>7, <2>2, <2>3 DEF TakeMem
<1>8. CASE Pop
  <2>1. lpc = "pop" /\ UNCHANGED <<used, current_mem>>
    BY <1>8 DEF Pop
  <2>2. CASE LoadReturns /\ UNCHANGED node
    <3>1. Loading = {} /\ Loading' = {}
      BY <1>4, <2>1, <2>2 DEF Loading
    <3> QED BY <1>2, <1>3, <1>4, <1>5, <2>1, <2>2, <3>1, CountedNodes
            DEF MemInv, MemoryBounded
  <2>3. ASSUME NEW n \in free,
               node' = [node EXCEPT ![n] =
                          [slot |-> lslot, mail |-> NoMail, size |-> lsize]],
               lnode' = n, lpc' = "read", lsize' = lsize
        PROVE  MemInv'
    <3>1. n \in Node /\ n \notin Counted
      BY <1>0, CountedNodes DEF DeqTypeOK
    <3>2. Counted' = Counted \cup {n}
      BY <1>1, <2>1, <2>3 DEF Counted, Loading, OnUsedList
    <3>3. node'[n].size = lsize /\ \A c \in Counted : node'[c].size = node[c].size
      BY <1>0, <2>3, <3>1, CountedNodes DEF DeqTypeOK
    <3>4. \A c \in Counted \cup {n} : node'[c].size \in Nat
      BY <3>1, <3>3, CountedNodes
    <3>5. Cardinality(HeldUnits(Counted', node'))
            = Cardinality(HeldUnits(Counted, node')) + lsize
      BY <3>1, <3>2, <3>3, <3>4, CountedNodes, HeldUnitsAdd
    <3>6. HeldUnits(Counted, node') = HeldUnits(Counted, node)
      BY <3>3, HeldUnitsSame
    <3> QED BY <1>2, <1>3, <2>1, <2>3, <3>3, <3>5, <3>6, CountedNodes
            DEF MemInv, MemoryBounded
  <2> QED BY <1>8, <2>2, <2>3 DEF Pop
<1>9. CASE Read
  <2>1. lpc = "read" /\ UNCHANGED used /\ lnode \in Node /\ Loading = {lnode}
    BY <1>0, <1>9 DEF Read, HolderInv, Loading
  <2>2. CASE /\ node' = [node EXCEPT ![lnode].mail = Content(lslot)]
             /\ lpc' = "put_used" /\ UNCHANGED <<current_mem, lsize, lnode>>
    <3>1. Counted' = Counted
      BY <1>1, <2>1, <2>2 DEF Counted, Loading, OnUsedList
    <3>2. \A c \in Node : node'[c].size = node[c].size
      BY <1>0, <2>2 DEF DeqTypeOK
    <3>3. HeldUnits(Counted, node') = HeldUnits(Counted, node)
      BY <3>2, CountedNodes, HeldUnitsSame
    <3> QED BY <1>2, <2>1, <2>2, <3>1, <3>2, <3>3 DEF MemInv, MemoryBounded
  <2>3. CASE /\ node' = [node EXCEPT ![lnode] = FreshNode]
             /\ LoadReturns /\ current_mem' = current_mem - lsize
    <3>1. lnode \notin OnUsedList /\ lnode \notin H
      <4>1. lnode \notin OnUsedList \cup Held
        BY <2>1 DEF NodesAccounted
      <4> QED BY <4>1 DEF Held, HeldAt
    <3>2. Counted = Counted' \cup {lnode} /\ lnode \notin Counted'
      BY <1>1, <1>4, <2>1, <2>3, <3>1 DEF Counted, Loading, OnUsedList
    <3>3. \A c \in Counted' : node'[c].size = node[c].size
      BY <1>0, <2>3, <3>2, CountedNodes DEF DeqTypeOK
    <3>4. /\ IsFiniteSet(Counted')
          /\ \A c \in Counted' \cup {lnode} : node[c].size \in Nat
      BY <3>2, CountedNodes, FS_Subset
    <3>5. /\ Cardinality(HeldUnits(Counted', node)) \in Nat
          /\ U = Cardinality(HeldUnits(Counted', node)) + node[lnode].size
      BY <3>2, <3>4, HeldUnitsAdd
    <3>6. HeldUnits(Counted', node') = HeldUnits(Counted', node)
      BY <3>3, HeldUnitsSame
    <3>7. node[lnode].size = lsize
      BY <2>1 DEF MemInv
    <3> QED BY <1>2, <1>4, <2>1, <2>3, <3>5, <3>6, <3>7, CountedNodes
            DEF MemInv, MemoryBounded
  <2> QED BY <1>9, <2>2, <2>3 DEF Read
<1>10. CASE PutToUsed
  <2>1. /\ lpc = "put_used" /\ lpc' = "hash" /\ UNCHANGED <<node, current_mem>>
        /\ used \in Seq(Node) /\ lnode \in Node /\ used' = Append(used, lnode)
    BY <1>0, <1>10 DEF PutToUsed, HolderInv, DeqTypeOK
  <2>2. OnUsedList' = OnUsedList \cup {lnode}
    BY <2>1, AppendElems DEF OnUsedList, Elems
  <2>3. Counted' = Counted
    BY <1>1, <2>1, <2>2 DEF Counted, Loading
  <2> QED BY <1>2, <2>1, <2>3 DEF MemInv, MemoryBounded
<1>11. CASE AddToHash
  <2>1. UNCHANGED <<used, node, current_mem>> /\ lpc = "hash"
        /\ lpc' \in {"recv", "scan_tape", "scan_mess"}
    BY <1>4, <1>11 DEF AddToHash
  <2>2. Loading = {} /\ Loading' = {}
    BY <2>1 DEF Loading
  <2> QED BY <1>2, <1>5, <2>1, <2>2 DEF MemInv, MemoryBounded
<1> QED BY <1>6, <1>7, <1>8, <1>9, <1>10, <1>11 DEF Loader

\* Through every step of the composition.
LEMMA MemStep ==
  TypeInv /\ TypeInv' /\ NodesAccounted /\ MemInv /\ [Next]_vars => MemInv'
<1> SUFFICES ASSUME TypeInv, TypeInv', NodesAccounted, MemInv, [Next]_vars
             PROVE  MemInv'
  OBVIOUS
<1>1. CASE UNCHANGED deqVars
  BY <1>1 DEF deqVars, listVars, loaderVars, workerVars, MemInv, MemoryBounded,
              MemHeld, Counted, Loading, OnUsedList, HeldAt
<1>2. CASE DeqRestart
  <2>1. /\ current_mem' = 0 /\ lpc' = "recv" /\ used' = <<>>
        /\ \A w \in Worker : wpc'[w] = "get"
    BY <1>2 DEF DeqRestart
  <2>2. Counted' = {}
    BY <2>1 DEF Counted, Loading, OnUsedList, HeldAt
  <2>3. MemHeld' = 0
    <3>1. HeldUnits(Counted', node') = {}
      BY <2>2 DEF HeldUnits
    <3> QED BY <2>1, <3>1, FS_EmptySet DEF MemHeld, HeldUnits
  <2> QED BY <2>1, <2>3, CountedNodes DEF MemInv, MemoryBounded
<1> QED BY <1>1, <1>2, LoaderMemStep, WorkMemStep
        DEF Next, Enqueue, Dequeue, DeqNext, vars

LEMMA MemInit == Init => MemInv
<1> SUFFICES ASSUME Init PROVE MemInv
  OBVIOUS
<1>1. Counted = {} /\ lpc = "recv" /\ current_mem = 0
  BY DEF Init, DeqInit, Counted, Loading, OnUsedList, HeldAt
<1>2. MemHeld = 0
  <2>1. HeldUnits(Counted, node) = {}
    BY <1>1 DEF HeldUnits
  <2> QED BY <1>1, <2>1, FS_EmptySet DEF MemHeld, HeldUnits
<1> QED BY <1>1, <1>2, DequeueAssumption DEF MemInv, MemoryBounded

\* The count of memory, and what a node that is being loaded holds.
THEOREM MemoryCounted == Spec => []MemInv
<1>1. Init => MemInv
  BY MemInit
<1>2. TypeInv /\ TypeInv' /\ NodesAccounted /\ MemInv /\ [Next]_vars => MemInv'
  BY MemStep
<1> QED BY <1>1, <1>2, TypeCorrect, NodesNeverLost, PTL DEF Spec

\* The nodes hold no more memory than g_max_memory allows, whichever of the
\* loads fail and whenever the delivery process is restarted.
THEOREM MemoryStaysBounded == Spec => []MemoryBounded
<1>1. MemInv => MemoryBounded
  BY DEF MemInv
<1> QED BY <1>1, MemoryCounted, PTL
=============================================================================
