--------------------------- MODULE MailWindowProofs ---------------------------
(***************************************************************************)
(* The two windows of message_dequeue, for any number of mails, blocks,    *)
(* nodes, workers and restarts, on top of MailOnceProofs:                  *)
(*   NodesSuffice    the nodes suffice but in the window of put_to_free    *)
(*   OnlyTwoWindows  memory and keys go astray in the two windows only     *)
(* what holds of the queue when the second window is never hit, and what   *)
(* holds of it whatever becomes of the keys while the smtp process lives.  *)
(***************************************************************************)
EXTENDS MailOnceProofs

-----------------------------------------------------------------------------
(* The size of a node, and the keys of the tape.  None of this depends on   *)
(* room in the hash table of the files.                                    *)

\* A tape node takes no memory, a file node at least one unit.
Fits(s, z) ==
  /\ s.type = "tape" => z = 0
  /\ s.type = "mess" => z >= 1

SizeInv ==
  /\ lpc = "mem" => lslot.type = "mess"
  /\ lpc \in {"mem", "pop", "read", "put_used"} => Fits(lslot, lsize)
  /\ lpc \in {"read", "put_used"} => /\ node[lnode].slot = lslot
                                     /\ node[lnode].size = lsize
  /\ \A n \in Counted : /\ node[n].slot \in Slot
                        /\ Fits(node[n].slot, node[n].size)
  /\ \A w \in Worker : wpc[w] = "mem" => node[wnode[w]].slot.type = "mess"

\* KeyInv and LoadInv of the blocks alone: there are fewer of them than places
\* in their hash table, so no key is ever refused.
BlockInv ==
  /\ \A a, b \in Keyed :
       node[a].slot.type = "tape" /\ node[a].slot = node[b].slot => a = b
  /\ \A n \in Keyed :
       node[n].slot.type = "tape" => \/ node[n].slot \in hashed
                                     \/ lpc = "hash" /\ node[n].slot = lslot
  /\ lpc \in {"test", "pop", "read", "put_used"} /\ lslot.type = "tape"
       => \A n \in Keyed : node[n].slot # lslot

WindowInv == SizeInv /\ BlockInv

\* Nothing here speaks of the store.
LEMMA WindowStutter == WindowInv /\ UNCHANGED deqVars => WindowInv'
BY DEF WindowInv, SizeInv, BlockInv, deqVars, listVars, loaderVars, workerVars,
       Counted, Keyed, Loading, OnUsedList, HeldAt

LEMMA WindowInit == Init => WindowInv
BY DEF Init, DeqInit, WindowInv, SizeInv, BlockInv, Counted, Keyed, Loading,
       OnUsedList, HeldAt

LEMMA WindowRestart == DeqRestart => WindowInv'
<1> SUFFICES ASSUME DeqRestart PROVE WindowInv'
  OBVIOUS
<1>1. /\ lpc' = "recv" /\ used' = <<>> /\ \A w \in Worker : wpc'[w] = "get"
  BY DEF DeqRestart
<1>2. Counted' = {} /\ Keyed' = {}
  BY <1>1 DEF Counted, Keyed, Loading, OnUsedList, HeldAt
<1> QED BY <1>1, <1>2 DEF WindowInv, SizeInv, BlockInv

\* A key of the tape is never refused.
LEMMA BlocksHaveRoom ==
  ASSUME TypeInv, lslot \in Slot, lslot.type = "tape"
  PROVE  HasRoom(lslot)
<1>1. Cardinality({k \in hashed : k.type = "tape"}) \in 0 .. TapeUnits
  BY KeysBounded DEF TypeInv, TypeOK
<1>2. {k \in hashed : k.type = lslot.type} = {k \in hashed : k.type = "tape"}
  OBVIOUS
<1> HIDE DEF TypeInv
<1> QED BY <1>1, <1>2, StoreAssumption DEF HasRoom, TapeHashCap

\* A step of the loader.
LEMMA LoaderWindowStep ==
  ASSUME TypeInv, TypeInv', NodesAccounted, WindowInv, Loader
  PROVE  WindowInv'
<1> DEFINE H == HeldAt({"serve", "erase", "unhash", "mem"})
           K == HeldAt({"serve", "erase", "unhash"})
<1>0. DeqTypeOK /\ HolderInv /\ SizeInv /\ BlockInv
  BY DEF TypeInv, TypeOK, WindowInv
<1>1. UNCHANGED <<wpc, wnode>> /\ H' = H /\ K' = K
  BY DEF Loader, Receive, Idle, ScanTape, OpenScanMess, ScanMess, Query, Test,
         TakeMem, Pop, Read, PutToUsed, AddToHash, workerVars, HeldAt
<1>2. /\ Counted = Loading \cup OnUsedList \cup H /\ Keyed = OnUsedList \cup K
      /\ Counted' = Loading' \cup OnUsedList' \cup H' /\ Keyed' = OnUsedList' \cup K'
  BY DEF Counted, Keyed
<1>3. LoadReturns => lpc' \in {"recv", "scan_tape", "scan_mess"}
  BY <1>0 DEF LoadReturns, DeqTypeOK
<1>4. Keyed \subseteq Counted /\ Counted \subseteq Node /\ Counted \cap free = {}
  <2>1. K \subseteq H
    BY DEF HeldAt
  <2> QED BY <1>2, <2>1, CountedNodes
<1>5. \A w \in Worker : wpc[w] = "mem" => wnode[w] \in H
  BY DEF HeldAt
<1>6. CASE \/ Receive \/ Idle \/ ScanTape \/ OpenScanMess \/ ScanMess
           \/ (Query \/ Test \/ TakeMem \/ Pop) /\ LoadReturns
  <2>1. /\ UNCHANGED <<used, node, hashed>>
        /\ lpc \notin {"read", "put_used", "hash"}
        /\ lpc' \in {"recv", "idle", "scan_tape", "scan_mess", "query"}
    BY <1>3, <1>6 DEF Receive, Idle, ScanTape, OpenScanMess, ScanMess, Query,
                      Test, TakeMem, Pop, listVars
  <2>2. Counted' = Counted /\ Keyed' = Keyed
    BY <1>1, <1>2, <2>1 DEF Loading, OnUsedList
  <2> QED BY <1>0, <1>1, <2>1, <2>2 DEF WindowInv, SizeInv, BlockInv
<1>7. CASE Query /\ ~ LoadReturns
  <2>1. /\ UNCHANGED <<used, node, hashed, lslot>> /\ lslot \notin hashed
        /\ lpc = "query" /\ lpc' = "test"
    BY <1>7 DEF Query, listVars
  <2>2. Counted' = Counted /\ Keyed' = Keyed
    BY <1>1, <1>2, <2>1 DEF Loading, OnUsedList
  <2> QED BY <1>0, <1>1, <2>1, <2>2 DEF WindowInv, SizeInv, BlockInv
<1>8. CASE Test /\ ~ LoadReturns
  <2>1. /\ UNCHANGED <<used, node, hashed, lslot>> /\ lpc = "test"
        /\ Content(lslot) # NoMail /\ lslot \in Slot
        /\ \/ lslot.type = "tape" /\ lpc' = "pop" /\ lsize' = 0
           \/ /\ lslot.type = "mess" /\ lpc' = "mem"
              /\ lsize' \in IF Content(lslot) = Incomplete THEN 1 .. MaxMem
                            ELSE {Units[Content(lslot)]}
    BY <1>0, <1>8 DEF Test, listVars, HolderInv
  <2>2. Fits(lslot, lsize')
    <3>1. Content(lslot) \in Mail \cup {Incomplete}
      BY <2>1, SlotCases DEF TypeInv, TypeOK
    <3>2. lslot.type = "mess" => lsize' >= 1
      BY <2>1, <3>1, DequeueAssumption
    <3>3. lslot.type = "tape" => lsize' = 0
      BY <2>1
    <3> QED BY <3>2, <3>3 DEF Fits
  <2>3. Counted' = Counted /\ Keyed' = Keyed
    BY <1>1, <1>2, <2>1 DEF Loading, OnUsedList
  <2> QED BY <1>0, <1>1, <2>1, <2>2, <2>3 DEF WindowInv, SizeInv, BlockInv
<1>9. CASE TakeMem /\ ~ LoadReturns
  <2>1. /\ UNCHANGED <<used, node, hashed, lslot, lsize>>
        /\ lpc = "mem" /\ lpc' = "pop"
    BY <1>9 DEF TakeMem
  <2>2. Counted' = Counted /\ Keyed' = Keyed
    BY <1>1, <1>2, <2>1 DEF Loading, OnUsedList
  <2>3. lslot.type = "mess"
    BY <1>0, <2>1 DEF SizeInv
  <2> QED BY <1>0, <1>1, <2>1, <2>2, <2>3 DEF WindowInv, SizeInv, BlockInv
<1>10. CASE Pop /\ ~ LoadReturns
  <2>1. PICK n \in free :
          /\ node' = [node EXCEPT ![n] =
                        [slot |-> lslot, mail |-> NoMail, size |-> lsize]]
          /\ lnode' = n
    BY <1>10 DEF Pop
  <2>2. /\ UNCHANGED <<used, hashed, lslot, lsize>> /\ lpc = "pop" /\ lpc' = "read"
        /\ lslot \in Slot /\ n \in Node /\ n \notin Counted
    BY <1>0, <1>4, <1>10 DEF Pop, HolderInv, DeqTypeOK
  <2>3. Counted' = Counted \cup {n} /\ Keyed' = Keyed
    BY <1>1, <1>2, <2>1, <2>2 DEF Loading, OnUsedList
  <2>4. /\ node'[n].slot = lslot /\ node'[n].size = lsize
        /\ \A c \in Counted : node'[c] = node[c]
    BY <1>0, <1>4, <2>1, <2>2 DEF DeqTypeOK
  <2>5. \A w \in Worker : wpc[w] = "mem" => wnode[w] \in Counted
    BY <1>2, <1>5
  <2>6. SizeInv'
    BY <1>0, <1>1, <2>1, <2>2, <2>3, <2>4, <2>5 DEF SizeInv
  <2>7. BlockInv'
    BY <1>0, <1>4, <2>2, <2>3, <2>4 DEF BlockInv
  <2> QED BY <2>6, <2>7 DEF WindowInv
<1>11. CASE Read
  <2>1. /\ lpc = "read" /\ UNCHANGED <<used, hashed>> /\ lnode \in Node
        /\ Loading = {lnode} /\ lnode \notin OnUsedList /\ lnode \notin H
    <3>1. lpc = "read" /\ UNCHANGED <<used, hashed>> /\ lnode \in Node
          /\ Loading = {lnode}
      BY <1>0, <1>11 DEF Read, HolderInv, Loading
    <3>2. lnode \notin OnUsedList \cup Held /\ H \subseteq Held
      BY <3>1 DEF NodesAccounted, Held, HeldAt
    <3> QED BY <3>1, <3>2
  <2>2. CASE /\ node' = [node EXCEPT ![lnode].mail = Content(lslot)]
             /\ lpc' = "put_used" /\ UNCHANGED <<lslot, lsize, lnode>>
    <3>1. Counted' = Counted /\ Keyed' = Keyed
      BY <1>1, <1>2, <2>1, <2>2 DEF Loading, OnUsedList
    <3>2. \A c \in Node : node'[c].slot = node[c].slot /\ node'[c].size = node[c].size
      BY <1>0, <2>2 DEF DeqTypeOK
    <3>3. \A w \in Worker : wpc[w] = "mem" => wnode[w] \in Node
      BY <1>2, <1>4, <1>5
    <3>4. SizeInv'
      BY <1>0, <1>1, <1>4, <2>1, <2>2, <3>1, <3>2, <3>3 DEF SizeInv
    <3>5. BlockInv'
      BY <1>0, <1>4, <2>1, <2>2, <3>1, <3>2 DEF BlockInv
    <3> QED BY <3>4, <3>5 DEF WindowInv
  <2>3. CASE /\ node' = [node EXCEPT ![lnode] = FreshNode] /\ LoadReturns
    <3>1. Counted' = OnUsedList \cup H /\ Keyed' = Keyed /\ Counted' \subseteq Counted
      BY <1>1, <1>2, <1>3, <2>1, <2>3 DEF Loading, OnUsedList
    <3>2. \A c \in Counted' : node'[c] = node[c]
      BY <1>0, <1>4, <2>1, <2>3, <3>1 DEF DeqTypeOK
    <3>3. Keyed \subseteq Counted'
      <4>1. K \subseteq H
        BY DEF HeldAt
      <4> QED BY <1>2, <3>1, <4>1
    <3>4. SizeInv'
      BY <1>0, <1>1, <1>3, <1>5, <2>3, <3>1, <3>2 DEF SizeInv
    <3>5. BlockInv'
      BY <1>0, <1>3, <2>1, <2>3, <3>1, <3>2, <3>3 DEF BlockInv
    <3> QED BY <3>4, <3>5 DEF WindowInv
  <2> QED BY <1>11, <2>2, <2>3 DEF Read
<1>12. CASE PutToUsed
  <2>1. /\ lpc = "put_used" /\ lpc' = "hash" /\ UNCHANGED <<node, hashed, lslot>>
        /\ used \in Seq(Node) /\ lnode \in Node /\ used' = Append(used, lnode)
        /\ lslot \in Slot
    BY <1>0, <1>12 DEF PutToUsed, HolderInv, DeqTypeOK
  <2>2. OnUsedList' = OnUsedList \cup {lnode}
    BY <2>1, AppendElems DEF OnUsedList, Elems
  <2>3. Counted' = Counted /\ Keyed' = Keyed \cup {lnode}
    BY <1>1, <1>2, <2>1, <2>2 DEF Loading
  <2>4. node[lnode].slot = lslot
    BY <1>0, <2>1 DEF SizeInv
  <2>5. SizeInv'
    BY <1>0, <1>1, <2>1, <2>3 DEF SizeInv
  <2>6. BlockInv'
    BY <1>0, <2>1, <2>3, <2>4 DEF BlockInv
  <2> QED BY <2>5, <2>6 DEF WindowInv
<1>13. CASE AddToHash
  <2>1. /\ lpc = "hash" /\ UNCHANGED <<used, node>> /\ lslot \in Slot
        /\ hashed' = IF HasRoom(lslot) THEN hashed \cup {lslot} ELSE hashed
        /\ lpc' \in {"recv", "scan_tape", "scan_mess"}
    BY <1>0, <1>3, <1>13 DEF AddToHash, HolderInv
  <2>2. Counted' = Counted /\ Keyed' = Keyed
    BY <1>1, <1>2, <2>1 DEF Loading, OnUsedList
  <2>3. hashed \subseteq hashed' /\ (lslot.type = "tape" => lslot \in hashed')
    BY <2>1, BlocksHaveRoom
  <2>4. SizeInv'
    BY <1>0, <1>1, <2>1, <2>2 DEF SizeInv
  <2>5. BlockInv'
    BY <1>0, <2>1, <2>2, <2>3 DEF BlockInv
  <2> QED BY <2>4, <2>5 DEF WindowInv
<1> QED BY <1>6, <1>7, <1>8, <1>9, <1>10, <1>11, <1>12, <1>13 DEF Loader

\* Steps that take nodes out of the sets, and no key of a node that stays.
LEMMA WindowShrinks ==
  ASSUME WindowInv, Counted' \subseteq Counted, Keyed' \subseteq Keyed,
         UNCHANGED <<lpc, lslot, lsize, lnode>>,
         \A n \in Counted' \cup Keyed' : node'[n] = node[n],
         lpc \in {"read", "put_used"} => node'[lnode] = node[lnode],
         \A n \in Keyed' : node[n].slot \in hashed => node[n].slot \in hashed',
         \A w \in Worker : wpc'[w] = "mem" => node'[wnode'[w]].slot.type = "mess"
  PROVE  WindowInv'
<1>1. SizeInv'
  BY DEF WindowInv, SizeInv
<1>2. BlockInv'
  BY DEF WindowInv, BlockInv
<1> QED BY <1>1, <1>2 DEF WindowInv

\* A step of a worker.
LEMMA WorkWindowStep ==
  ASSUME TypeInv, TypeInv', NodesAccounted, WindowInv, NEW w \in Worker, Work(w)
  PROVE  WindowInv'
<1> DEFINE counted == {"serve", "erase", "unhash", "mem"}
           keyed == {"serve", "erase", "unhash"}
<1>0. DeqTypeOK /\ HolderInv /\ SizeInv /\ BlockInv
  BY DEF TypeInv, TypeOK, WindowInv
<1>1. UNCHANGED <<lpc, lslot, lsize, lnode>> /\ Loading' = Loading
  BY DEF Work, Get, Serve, Erase, Unhash, ReturnMem, AppendFree, loaderVars, Loading
<1>2. /\ \A n : n \in Counted <=>
           \/ n \in Loading \/ n \in OnUsedList
           \/ \E v \in Worker : wpc[v] \in counted /\ wnode[v] = n
      /\ \A n : n \in Keyed <=>
           \/ n \in OnUsedList
           \/ \E v \in Worker : wpc[v] \in keyed /\ wnode[v] = n
  BY DEF Counted, Keyed, HeldAt
<1>3. /\ \A n : n \in Counted' <=>
           \/ n \in Loading' \/ n \in OnUsedList'
           \/ \E v \in Worker : wpc'[v] \in counted /\ wnode'[v] = n
      /\ \A n : n \in Keyed' <=>
           \/ n \in OnUsedList'
           \/ \E v \in Worker : wpc'[v] \in keyed /\ wnode'[v] = n
  BY DEF Counted, Keyed, HeldAt
<1>4. \A v \in Worker \ {w} : wpc'[v] = wpc[v] /\ wnode'[v] = wnode[v]
  BY <1>0 DEF Work, Get, Serve, Erase, Unhash, ReturnMem, AppendFree, DeqTypeOK
<1>5. wpc[w] # "get" =>
        /\ wnode[w] \in Node
        /\ wnode[w] \notin OnUsedList /\ wnode[w] \notin Loading
        /\ \A v \in Worker \ {w} : wpc[v] # "get" => wnode[v] # wnode[w]
  BY <1>0, HolderSets DEF NodesAccounted, HolderInv
<1>6. CASE Get(w)
  <2>1. /\ used \in Seq(Node) /\ used # <<>> /\ used' = Tail(used)
        /\ wnode'[w] = Head(used) /\ wpc'[w] = "serve" /\ UNCHANGED <<node, hashed>>
    BY <1>0, <1>6 DEF Get, DeqTypeOK
  <2>2. Head(used) \in Elems(used) /\ Elems(used') \subseteq Elems(used)
    BY <2>1, HeadElems
  <2>3. Counted' \subseteq Counted /\ Keyed' \subseteq Keyed
    BY <1>1, <1>2, <1>3, <1>4, <2>1, <2>2 DEF OnUsedList, Elems
  <2>4. \A v \in Worker : wpc'[v] = "mem" => node'[wnode'[v]].slot.type = "mess"
    BY <1>0, <1>4, <2>1 DEF SizeInv
  <2> QED BY <1>1, <2>1, <2>3, <2>4, WindowShrinks
<1>7. CASE Serve(w) \/ Erase(w)
  <2>1. /\ UNCHANGED <<used, node, hashed, wnode>>
        /\ wpc[w] \in {"serve", "erase"} /\ wpc'[w] \in {"erase", "unhash"}
    BY <1>0, <1>7 DEF Serve, Erase, listVars, DeqTypeOK
  <2>2. Counted' \subseteq Counted /\ Keyed' \subseteq Keyed
    BY <1>1, <1>2, <1>3, <1>4, <2>1 DEF OnUsedList
  <2>3. \A v \in Worker : wpc'[v] = "mem" => node'[wnode'[v]].slot.type = "mess"
    BY <1>0, <1>4, <2>1 DEF SizeInv
  <2> QED BY <1>1, <2>1, <2>2, <2>3, WindowShrinks
<1>8. CASE Unhash(w)
  <2>1. /\ UNCHANGED <<used, node, wnode>> /\ wpc[w] = "unhash"
        /\ hashed' = hashed \ {node[wnode[w]].slot}
        /\ wpc'[w] = IF node[wnode[w]].slot.type = "mess" THEN "mem" ELSE "append"
    BY <1>0, <1>8 DEF Unhash, DeqTypeOK
  <2>2. Counted' \subseteq Counted /\ Keyed' \subseteq Keyed \ {wnode[w]}
    <3>1. Counted' \subseteq Counted
      BY <1>1, <1>2, <1>3, <1>4, <2>1 DEF OnUsedList
    <3>2. Keyed' \subseteq Keyed /\ wnode[w] \notin Keyed'
      BY <1>1, <1>2, <1>3, <1>4, <1>5, <2>1 DEF OnUsedList
    <3> QED BY <3>1, <3>2
  <2>3. wnode[w] \in Keyed
    BY <1>2, <2>1
  <2>4. SizeInv'
    <3>1. \A v \in Worker : wpc'[v] = "mem" => node'[wnode'[v]].slot.type = "mess"
      BY <1>0, <1>4, <2>1 DEF SizeInv
    <3> QED BY <1>0, <1>1, <2>1, <2>2, <3>1 DEF SizeInv
  <2>5. BlockInv'
    <3>1. \A n \in Keyed' : node[n].slot.type = "tape" =>
            node[n].slot # node[wnode[w]].slot
      BY <1>0, <2>2, <2>3 DEF BlockInv
    <3> QED BY <1>0, <1>1, <2>1, <2>2, <3>1 DEF BlockInv
  <2> QED BY <2>4, <2>5 DEF WindowInv
<1>9. CASE ReturnMem(w)
  <2>1. /\ UNCHANGED <<used, node, hashed, wnode>>
        /\ wpc[w] = "mem" /\ wpc'[w] = "append"
    BY <1>0, <1>9 DEF ReturnMem, DeqTypeOK
  <2>2. Counted' \subseteq Counted /\ Keyed' \subseteq Keyed
    BY <1>1, <1>2, <1>3, <1>4, <2>1 DEF OnUsedList
  <2>3. \A v \in Worker : wpc'[v] = "mem" => node'[wnode'[v]].slot.type = "mess"
    BY <1>0, <1>4, <2>1 DEF SizeInv
  <2> QED BY <1>1, <2>1, <2>2, <2>3, WindowShrinks
<1>10. CASE AppendFree(w)
  <2>1. /\ UNCHANGED <<used, hashed>> /\ wpc[w] = "append" /\ wpc'[w] = "get"
        /\ node' = [node EXCEPT ![wnode[w]] = FreshNode]
    BY <1>0, <1>10 DEF AppendFree, DeqTypeOK
  <2>2. /\ Counted' \subseteq Counted /\ wnode[w] \notin Counted'
        /\ Keyed' \subseteq Keyed /\ wnode[w] \notin Keyed'
    BY <1>1, <1>2, <1>3, <1>4, <1>5, <2>1 DEF OnUsedList
  <2>3. \A n \in Node : n # wnode[w] => node'[n] = node[n]
    BY <1>0, <2>1 DEF DeqTypeOK
  <2>4. lpc \in {"read", "put_used"} => lnode \in Node /\ lnode # wnode[w]
    BY <1>0, <1>5, <2>1 DEF Loading, HolderInv
  <2>5. \A n \in Counted' \cup Keyed' : node'[n] = node[n]
    <3>1. Keyed \subseteq Counted
      BY <1>2
    <3> QED BY <2>2, <2>3, <3>1, CountedNodes
  <2>6. \A v \in Worker : wpc'[v] = "mem" => node'[wnode'[v]].slot.type = "mess"
    <3> SUFFICES ASSUME NEW v \in Worker, wpc'[v] = "mem"
                 PROVE  node'[wnode'[v]].slot.type = "mess"
      OBVIOUS
    <3>1. v # w /\ wpc[v] = "mem" /\ wnode'[v] = wnode[v]
      BY <1>4, <2>1
    <3>2. wnode[v] \in Node /\ wnode[v] # wnode[w]
      BY <1>0, <1>5, <2>1, <3>1 DEF HolderInv
    <3> QED BY <1>0, <2>3, <3>1, <3>2 DEF SizeInv
  <2> QED BY <1>1, <2>1, <2>2, <2>3, <2>4, <2>5, <2>6, WindowShrinks
<1> QED BY <1>6, <1>7, <1>8, <1>9, <1>10 DEF Work

LEMMA WindowStep ==
  TypeInv /\ TypeInv' /\ NodesAccounted /\ WindowInv /\ [Next]_vars => WindowInv'
<1> SUFFICES ASSUME TypeInv, TypeInv', NodesAccounted, WindowInv, [Next]_vars
             PROVE  WindowInv'
  OBVIOUS
<1>1. CASE UNCHANGED deqVars
  BY <1>1, WindowStutter
<1> QED BY <1>1, WindowRestart, LoaderWindowStep, WorkWindowStep
        DEF Next, Enqueue, Dequeue, DeqNext, vars

\* The size a node is given fits its slot, and no two nodes have one block.
THEOREM NodesFit == Spec => []WindowInv
<1>1. Init => WindowInv
  BY WindowInit
<1>2. TypeInv /\ TypeInv' /\ NodesAccounted /\ WindowInv /\ [Next]_vars => WindowInv'
  BY WindowStep
<1> QED BY <1>1, <1>2, TypeCorrect, NodesNeverLost, PTL DEF Spec

-----------------------------------------------------------------------------
(* g_message_units = g_tape_units + g_max_memory / 64K nodes suffice.      *)

LEMMA PosCount == IsFiniteSet(Pos) /\ Cardinality(Pos) = TapeUnits
<1>1. 0 \in Int /\ TapeUnits - 1 \in Int /\ TapeUnits \in Nat
  BY StoreAssumption
<1>2. IsFiniteSet(0 .. TapeUnits - 1)
      /\ Cardinality(0 .. TapeUnits - 1)
           = IF 0 > TapeUnits - 1 THEN 0 ELSE TapeUnits - 1 - 0 + 1
  BY <1>1, FS_Interval
<1> QED BY <1>1, <1>2 DEF Pos

\* Nodes with different blocks are no more than the blocks.
LEMMA BlocksBound ==
  ASSUME NEW P \in SUBSET Pos, NEW T, NEW nd, \A n \in T : nd[n].slot.at \in P,
         \A n \in T : nd[n].slot.type = "tape" /\ nd[n].slot \in Slot,
         \A a, b \in T : nd[a].slot = nd[b].slot => a = b
  PROVE  /\ IsFiniteSet(T) /\ IsFiniteSet(P) /\ Cardinality(T) <= Cardinality(P)
         /\ Cardinality(P) <= TapeUnits
<1> DEFINE f == [n \in T |-> nd[n].slot.at]
<1>1. IsFiniteSet(Pos) /\ Cardinality(Pos) = TapeUnits
  BY PosCount
<1>2. IsFiniteSet(P) /\ Cardinality(P) <= TapeUnits
  BY <1>1, FS_Subset
<1>3. f \in Injection(T, P)
  <2>1. f \in [T -> P]
    OBVIOUS
  <2>2. ASSUME NEW a \in T, NEW b \in T, f[a] = f[b]
        PROVE  a = b
    <3>1. nd[a].slot = nd[b].slot
      BY <2>2 DEF Slot
    <3> QED BY <3>1
  <2> QED BY <2>1, <2>2 DEF Injection, IsInjective
<1> QED BY <1>2, <1>3, FS_Injection

\* Nodes of one unit at least are no more than the units they hold.
LEMMA UnitsBound ==
  ASSUME NEW M, IsFiniteSet(M), NEW nd,
         \A n \in M : nd[n].size \in Nat /\ nd[n].size >= 1
  PROVE  Cardinality(M) <= Cardinality(HeldUnits(M, nd))
<1> DEFINE f == [n \in M |-> <<n, 1>>]
<1>1. \A n \in M : 1 \in 1 .. nd[n].size
  OBVIOUS
<1>2. \A n \in M : f[n] \in HeldUnits(M, nd)
  BY <1>1 DEF HeldUnits
<1>3. f \in Injection(M, HeldUnits(M, nd))
  BY <1>2 DEF Injection, IsInjective
<1>4. IsFiniteSet(HeldUnits(M, nd))
  BY HeldUnitsFinite
<1> QED BY <1>3, <1>4, FS_Injection

\* With no node free, and none between its memory and the free list, the blocks
\* and the memory would all be in use, but the loader has one of either for the
\* node it needs.
LEMMA EnoughNodes ==
  ASSUME TypeInv, NodesAccounted, WindowInv, MemInv
  PROVE  NodesSuffice
<1> SUFFICES ASSUME lpc = "pop", free = {}, \A w \in Worker : wpc[w] # "append"
             PROVE  FALSE
  BY DEF NodesSuffice
<1> DEFINE T == {n \in Node : node[n].slot.type = "tape"}
           M == {n \in Node : node[n].slot.type = "mess"}
           P == IF lslot.type = "tape" THEN Pos \ {lslot.at} ELSE Pos
<1>0. /\ SizeInv /\ BlockInv /\ MemoryBounded /\ DeqTypeOK /\ lslot \in Slot
      /\ Fits(lslot, lsize)
  BY DEF WindowInv, MemInv, TypeInv, TypeOK, HolderInv, SizeInv
<1>1. Node = Counted
  <2>1. Held \subseteq HeldAt({"serve", "erase", "unhash", "mem"})
    BY DEF Held, HeldAt
  <2>2. Node = OnUsedList \cup Held
    BY DEF NodesAccounted, Loading
  <2> QED BY <2>1, <2>2, CountedNodes DEF Counted
<1>2. /\ \A n \in Node : node[n].slot \in Slot /\ Fits(node[n].slot, node[n].size)
      /\ \A n \in Node : node[n].size \in Nat
  BY <1>0, <1>1, CountedNodes DEF SizeInv
<1>3. T \subseteq Keyed
  <2> SUFFICES ASSUME NEW n \in Node, node[n].slot.type = "tape"
               PROVE  n \in Keyed
    OBVIOUS
  <2>1. n \in OnUsedList \/ \E w \in Worker :
          wpc[w] \in {"serve", "erase", "unhash", "mem"} /\ wnode[w] = n
    BY <1>1 DEF Counted, Loading, HeldAt
  <2>2. \A w \in Worker : wpc[w] = "mem" => wnode[w] # n
    BY <1>0 DEF SizeInv
  <2> QED BY <2>1, <2>2 DEF Keyed, HeldAt
<1>4. Cardinality(T) \in Nat /\ IsFiniteSet(T) /\ Cardinality(T) <= Cardinality(P)
      /\ Cardinality(P) \in Nat
  <2>1. \A n \in T : node[n].slot.type = "tape" /\ node[n].slot \in Slot
    BY <1>2
  <2>2. \A n \in T : node[n].slot.at \in P
    <3> SUFFICES ASSUME NEW n \in T
                 PROVE  node[n].slot.at \in P
      OBVIOUS
    <3>1. node[n].slot.at \in Pos /\ node[n].slot.type = "tape"
      BY <2>1 DEF Slot
    <3>2. CASE lslot.type = "tape"
      <4>1. node[n].slot # lslot
        BY <1>0, <1>3, <3>2 DEF BlockInv
      <4>2. node[n].slot.at # lslot.at
        BY <1>0, <2>1, <3>2, <4>1 DEF Slot
      <4> QED BY <3>1, <4>2
    <3> QED BY <3>1, <3>2
  <2>3. \A a, b \in T : node[a].slot = node[b].slot => a = b
    BY <1>0, <1>3 DEF BlockInv
  <2>4. P \in SUBSET Pos
    OBVIOUS
  <2> HIDE DEF T, P
  <2> QED BY <2>1, <2>2, <2>3, <2>4, BlocksBound, FS_CardinalityType
<1>5. IsFiniteSet(M) /\ Cardinality(M) \in Nat
  BY DequeueAssumption, FS_Subset, FS_CardinalityType
<1>6. Cardinality(Node) = Cardinality(T) + Cardinality(M)
  <2>1. T \cap M = {} /\ Node = T \cup M
    BY <1>2 DEF Slot
  <2>2. Cardinality(T \cap M) = 0
    BY <2>1, FS_EmptySet
  <2> HIDE DEF T, M
  <2>3. Cardinality(T \cup M) = Cardinality(T) + Cardinality(M) - Cardinality(T \cap M)
    BY <1>4, <1>5, FS_Union
  <2> QED BY <1>4, <1>5, <2>1, <2>2, <2>3
<1>7. Cardinality(M) + lsize <= MaxMem
  <2> DEFINE U == Cardinality(HeldUnits(M, node))
             V == Cardinality(HeldUnits(Counted, node))
  <2>1. V + lsize <= MaxMem
    <3>1. MemHeld = V + lsize
      BY DEF MemHeld, HeldUnits
    <3>2. V \in Nat
      BY CountedNodes, HeldUnitsFinite, FS_CardinalityType
    <3> QED BY <1>0, <3>1, <3>2, CountedNodes DEF MemoryBounded
  <2>2. U \in Nat /\ V \in Nat /\ U <= V
    BY <1>1, CountedNodes, HeldUnitsShrink, HeldUnitsFinite, FS_CardinalityType
  <2>3. Cardinality(M) <= U
    <3>1. \A n \in M : node[n].size \in Nat /\ node[n].size >= 1
      BY <1>2 DEF Fits
    <3> HIDE DEF M
    <3> QED BY <1>5, <3>1, UnitsBound
  <2> HIDE DEF U, V, M
  <2> QED BY <1>5, <2>1, <2>2, <2>3, CountedNodes
<1>8. \/ Cardinality(P) < TapeUnits
      \/ lslot.type = "mess" /\ lsize >= 1 /\ Cardinality(P) = TapeUnits
  <2>1. IsFiniteSet(Pos) /\ Cardinality(Pos) = TapeUnits
    BY PosCount
  <2>2. CASE lslot.type = "tape"
    <3>1. lslot.at \in Pos
      BY <1>0, <2>2 DEF Slot
    <3>2. Cardinality(Pos \ {lslot.at}) = TapeUnits - 1
      BY <2>1, <3>1, FS_RemoveElement
    <3> QED BY <2>2, <3>2, StoreAssumption
  <2>3. CASE lslot.type = "mess"
    BY <1>0, <2>1, <2>3 DEF Fits
  <2> QED BY <1>0, <2>2, <2>3 DEF Slot
<1>9. Cardinality(Node) = TapeUnits + MaxMem /\ TapeUnits \in Nat /\ MaxMem \in Nat
      /\ lsize \in Nat
  BY <1>0, DequeueAssumption, StoreAssumption DEF DeqTypeOK
<1> HIDE DEF T, M, P
<1> QED BY <1>4, <1>5, <1>6, <1>7, <1>8, <1>9

\* As many nodes as message_dequeue allots, one for each block and each 64K of
\* the memory for files, are enough: a load that has its memory finds none free
\* only while a worker is between the two critical sections of put_to_free.
THEOREM NodesAreEnough == Spec => []NodesSuffice
<1>1. TypeInv /\ NodesAccounted /\ WindowInv /\ MemInv => NodesSuffice
  BY EnoughNodes
<1> QED BY <1>1, TypeCorrect, NodesNeverLost, NodesFit, MemoryCounted, PTL

-----------------------------------------------------------------------------
(* The first window: where g_current_mem stops being exact.                *)

\* The units that the counted nodes hold, as a number.
LEMMA HeldCount ==
  ASSUME TypeInv, NodesAccounted
  PROVE  /\ Cardinality(HeldUnits(Counted, node)) \in Nat
         /\ MemHeld = Cardinality(HeldUnits(Counted, node))
                        + (IF lpc = "pop" THEN lsize ELSE 0)
<1>1. Cardinality(HeldUnits(Counted, node)) \in Nat
  BY CountedNodes, HeldUnitsFinite, FS_CardinalityType
<1>2. MemHeld = Cardinality(HeldUnits(Counted, node))
                  + (IF lpc = "pop" THEN lsize ELSE 0)
  BY DEF MemHeld, HeldUnits
<1> QED BY <1>1, <1>2

LEMMA HeldCountNext ==
  MemHeld' = Cardinality(HeldUnits(Counted', node'))
               + (IF lpc' = "pop" THEN lsize' ELSE 0)
BY DEF MemHeld, HeldUnits

\* Steps that move no memory.
LEMMA ExactUnmoved ==
  ASSUME TypeInv, NodesAccounted, MemoryExact, Counted' = Counted,
         \A n \in Counted : node'[n].size = node[n].size,
         UNCHANGED current_mem,
         (IF lpc' = "pop" THEN lsize' ELSE 0) = (IF lpc = "pop" THEN lsize ELSE 0)
  PROVE  MemoryExact'
<1>1. HeldUnits(Counted', node') = HeldUnits(Counted, node)
  BY HeldUnitsSame
<1> QED BY <1>1, HeldCount, HeldCountNext DEF MemoryExact

\* A step of a worker: what ReturnMem takes off the count is what its node
\* holds, and a tape node leaves the count with nothing.
LEMMA WorkExactStep ==
  ASSUME TypeInv, TypeInv', NodesAccounted, WindowInv, MemoryExact,
         NEW w \in Worker, Work(w)
  PROVE  MemoryExact'
<1> DEFINE steps == {"serve", "erase", "unhash", "mem"}
<1>0. DeqTypeOK /\ HolderInv /\ SizeInv
  BY DEF TypeInv, TypeOK, WindowInv
<1>1. UNCHANGED <<lpc, lsize, lnode>> /\ Loading' = Loading
  BY DEF Work, Get, Serve, Erase, Unhash, ReturnMem, AppendFree, loaderVars, Loading
<1>2. \A n : n \in Counted <=>
        \/ n \in Loading \/ n \in OnUsedList
        \/ \E v \in Worker : wpc[v] \in steps /\ wnode[v] = n
  BY DEF Counted, HeldAt
<1>3. \A n : n \in Counted' <=>
        \/ n \in Loading' \/ n \in OnUsedList'
        \/ \E v \in Worker : wpc'[v] \in steps /\ wnode'[v] = n
  BY DEF Counted, HeldAt
<1>4. \A v \in Worker \ {w} : wpc'[v] = wpc[v] /\ wnode'[v] = wnode[v]
  BY <1>0 DEF Work, Get, Serve, Erase, Unhash, ReturnMem, AppendFree, DeqTypeOK
<1>5. wpc[w] # "get" =>
        /\ wnode[w] \in Node
        /\ wnode[w] \notin OnUsedList /\ wnode[w] \notin Loading
        /\ \A v \in Worker \ {w} : wpc[v] # "get" => wnode[v] # wnode[w]
  BY <1>0, HolderSets DEF NodesAccounted, HolderInv
<1>6. /\ \A n : n \in Counted <=>
           \/ n \in Loading \/ n \in OnUsedList
           \/ \E v \in Worker \ {w} : wpc[v] \in steps /\ wnode[v] = n
           \/ wpc[w] \in steps /\ wnode[w] = n
      /\ \A n : n \in Counted' <=>
           \/ n \in Loading \/ n \in OnUsedList'
           \/ \E v \in Worker \ {w} : wpc[v] \in steps /\ wnode[v] = n
           \/ wpc'[w] \in steps /\ wnode'[w] = n
  BY <1>1, <1>2, <1>3, <1>4
<1>7. CASE Get(w)
  <2>1. /\ used \in Seq(Node) /\ used # <<>> /\ used' = Tail(used)
        /\ wpc[w] = "get" /\ wnode'[w] = Head(used) /\ wpc'[w] = "serve"
        /\ UNCHANGED <<node, current_mem>>
    BY <1>0, <1>7 DEF Get, DeqTypeOK
  <2>2. Elems(used) = Elems(used') \cup {Head(used)}
    BY <2>1, HeadElems
  <2>3. Counted' = Counted
    BY <1>6, <2>1, <2>2 DEF OnUsedList, Elems
  <2> QED BY <1>1, <2>1, <2>3, ExactUnmoved
<1>8. CASE Serve(w) \/ Erase(w) \/ (Unhash(w) /\ node[wnode[w]].slot.type = "mess")
  <2>1. /\ UNCHANGED <<used, node, current_mem, wnode>>
        /\ wpc[w] \in steps /\ wpc'[w] \in steps
    BY <1>0, <1>8 DEF Serve, Erase, Unhash, listVars, DeqTypeOK
  <2>2. Counted' = Counted
    BY <1>6, <2>1 DEF OnUsedList
  <2> QED BY <1>1, <2>1, <2>2, ExactUnmoved
<1>9. CASE ReturnMem(w) \/ (Unhash(w) /\ node[wnode[w]].slot.type # "mess")
  <2>1. /\ UNCHANGED <<used, node, wnode>> /\ wpc[w] \in steps /\ wpc'[w] = "append"
        /\ wnode[w] \in Node
    BY <1>0, <1>9 DEF ReturnMem, Unhash, DeqTypeOK, HolderInv
  <2>2. Counted = Counted' \cup {wnode[w]} /\ wnode[w] \notin Counted'
    BY <1>5, <1>6, <2>1 DEF OnUsedList
  <2>3. /\ IsFiniteSet(Counted')
        /\ \A c \in Counted' \cup {wnode[w]} : node[c].size \in Nat
    BY <2>2, CountedNodes, FS_Subset
  <2>4. /\ Cardinality(HeldUnits(Counted', node)) \in Nat
        /\ Cardinality(HeldUnits(Counted, node))
             = Cardinality(HeldUnits(Counted', node)) + node[wnode[w]].size
    BY <2>2, <2>3, HeldUnitsAdd
  <2>5. current_mem' = current_mem - node[wnode[w]].size
    <3>1. CASE ReturnMem(w)
      BY <3>1 DEF ReturnMem
    <3>2. CASE Unhash(w) /\ node[wnode[w]].slot.type # "mess"
      <4>1. wnode[w] \in Counted
        BY <2>2
      <4>2. node[wnode[w]].size = 0
        BY <1>0, <3>2, <4>1 DEF SizeInv, Fits, Slot
      <4> QED BY <3>2, <4>2, CountedNodes DEF Unhash
    <3> QED BY <1>9, <3>1, <3>2
  <2>6. node[wnode[w]].size \in Nat
    BY <2>3
  <2> QED BY <1>1, <2>1, <2>4, <2>5, <2>6, HeldCount, HeldCountNext, CountedNodes
          DEF MemoryExact
<1>10. CASE AppendFree(w)
  <2>1. /\ UNCHANGED <<used, current_mem>> /\ wpc[w] = "append" /\ wpc'[w] = "get"
        /\ node' = [node EXCEPT ![wnode[w]] = FreshNode]
    BY <1>0, <1>10 DEF AppendFree, DeqTypeOK
  <2>2. Counted' = Counted /\ wnode[w] \notin Counted
    BY <1>5, <1>6, <2>1 DEF OnUsedList
  <2>3. \A n \in Node : n # wnode[w] => node'[n] = node[n]
    BY <1>0, <2>1 DEF DeqTypeOK
  <2>4. \A n \in Counted : node'[n].size = node[n].size
    BY <2>2, <2>3, CountedNodes
  <2> QED BY <1>1, <2>1, <2>2, <2>4, ExactUnmoved
<1> QED BY <1>7, <1>8, <1>9, <1>10 DEF Work

\* A step of the loader, other than giving a load up for want of a node: it
\* takes memory before it takes a node, and gives it back with the node.
LEMMA LoaderExactStep ==
  ASSUME TypeInv, TypeInv', NodesAccounted, WindowInv, MemoryExact, Loader,
         ~ (lpc = "pop" /\ lpc' # "pop" /\ free = {})
  PROVE  MemoryExact'
<1> DEFINE H == HeldAt({"serve", "erase", "unhash", "mem"})
           U == Cardinality(HeldUnits(Counted, node))
<1>0. DeqTypeOK /\ HolderInv /\ SizeInv
  BY DEF TypeInv, TypeOK, WindowInv
<1>1. H' = H
  BY DEF Loader, Receive, Idle, ScanTape, OpenScanMess, ScanMess, Query, Test,
         TakeMem, Pop, Read, PutToUsed, AddToHash, workerVars, HeldAt
<1>2. LoadReturns => lpc' \in {"recv", "scan_tape", "scan_mess"}
  BY <1>0 DEF LoadReturns, DeqTypeOK
<1>3. CASE \/ Receive \/ Idle \/ ScanTape \/ OpenScanMess \/ ScanMess
           \/ Query \/ Test \/ AddToHash \/ (TakeMem /\ LoadReturns)
  <2>1. /\ UNCHANGED <<used, node>>
        /\ lpc \notin {"pop", "read", "put_used"} /\ lpc' \notin {"read", "put_used"}
        /\ lpc' = "pop" => lsize' = 0
    BY <1>2, <1>3 DEF Receive, Idle, ScanTape, OpenScanMess, ScanMess, Query, Test,
                      AddToHash, TakeMem, listVars
  <2>2. UNCHANGED current_mem
    <3>1. CASE TakeMem /\ LoadReturns
      BY <1>2, <3>1 DEF TakeMem
    <3> QED BY <1>3, <3>1 DEF Receive, Idle, ScanTape, OpenScanMess, ScanMess,
                              Query, Test, AddToHash, listVars
  <2>3. Loading = {} /\ Loading' = {}
    BY <2>1 DEF Loading
  <2>4. Counted' = Counted
    BY <1>1, <2>1, <2>3 DEF Counted, OnUsedList
  <2> QED BY <2>1, <2>2, <2>4, ExactUnmoved
<1>4. CASE TakeMem /\ ~ LoadReturns
  <2>1. /\ UNCHANGED <<used, node, lsize>> /\ lpc = "mem" /\ lpc' = "pop"
        /\ current_mem' = current_mem + lsize
    BY <1>4 DEF TakeMem
  <2>2. Counted' = Counted
    BY <1>1, <2>1 DEF Counted, Loading, OnUsedList
  <2> QED BY <2>1, <2>2, HeldCount, HeldCountNext, CountedNodes DEF MemoryExact
<1>5. CASE Pop
  <2>1. lpc = "pop" /\ UNCHANGED <<used, current_mem>>
    BY <1>5 DEF Pop
  <2>2. CASE free = {}
    BY <1>2, <1>5, <2>1, <2>2 DEF Pop
  <2>3. ASSUME NEW n \in free,
               node' = [node EXCEPT ![n] =
                          [slot |-> lslot, mail |-> NoMail, size |-> lsize]],
               lnode' = n, lpc' = "read", lsize' = lsize
        PROVE  MemoryExact'
    <3>1. n \in Node /\ n \notin Counted
      BY <1>0, CountedNodes DEF DeqTypeOK
    <3>2. Counted' = Counted \cup {n}
      BY <1>1, <2>1, <2>3 DEF Counted, Loading, OnUsedList
    <3>3. node'[n].size = lsize /\ \A c \in Counted : node'[c].size = node[c].size
      BY <1>0, <2>3, <3>1, CountedNodes DEF DeqTypeOK
    <3>4. \A c \in Counted \cup {n} : node'[c].size \in Nat
      BY <3>1, <3>3, CountedNodes
    <3>5. Cardinality(HeldUnits(Counted', node'))
            = Cardinality(HeldUnits(Counted, node')) + lsize
      BY <3>1, <3>2, <3>3, <3>4, CountedNodes, HeldUnitsAdd
    <3>6. HeldUnits(Counted, node') = HeldUnits(Counted, node)
      BY <3>3, HeldUnitsSame
    <3> QED BY <2>1, <2>3, <3>5, <3>6, HeldCount, HeldCountNext, CountedNodes
            DEF MemoryExact
  <2> QED BY <1>5, <2>2, <2>3 DEF Pop
<1>6. CASE Read
  <2>1. lpc = "read" /\ UNCHANGED used /\ lnode \in Node /\ Loading = {lnode}
    BY <1>0, <1>6 DEF Read, HolderInv, Loading
  <2>2. CASE /\ node' = [node EXCEPT ![lnode].mail = Content(lslot)]
             /\ lpc' = "put_used" /\ UNCHANGED <<current_mem, lsize, lnode>>
    <3>1. Counted' = Counted
      BY <1>1, <2>1, <2>2 DEF Counted, Loading, OnUsedList
    <3>2. \A c \in Counted : node'[c].size = node[c].size
      BY <1>0, <2>2, CountedNodes DEF DeqTypeOK
    <3> QED BY <2>1, <2>2, <3>1, <3>2, ExactUnmoved
  <2>3. CASE /\ node' = [node EXCEPT ![lnode] = FreshNode]
             /\ LoadReturns /\ current_mem' = current_mem - lsize
    <3>1. lnode \notin OnUsedList /\ lnode \notin H
      <4>1. lnode \notin OnUsedList \cup Held
        BY <2>1 DEF NodesAccounted
      <4> QED BY <4>1 DEF Held, HeldAt
    <3>2. Counted = Counted' \cup {lnode} /\ lnode \notin Counted'
      BY <1>1, <1>2, <2>1, <2>3, <3>1 DEF Counted, Loading, OnUsedList
    <3>3. \A c \in Counted' : node'[c].size = node[c].size
      BY <1>0, <2>3, <3>2, CountedNodes DEF DeqTypeOK
    <3>4. /\ IsFiniteSet(Counted')
          /\ \A c \in Counted' \cup {lnode} : node[c].size \in Nat
      BY <3>2, CountedNodes, FS_Subset
    <3>5. /\ Cardinality(HeldUnits(Counted', node)) \in Nat
          /\ U = Cardinality(HeldUnits(Counted', node)) + node[lnode].size
      BY <3>2, <3>4, HeldUnitsAdd
    <3>6. HeldUnits(Counted', node') = HeldUnits(Counted', node)
      BY <3>3, HeldUnitsSame
    <3>7. node[lnode].size = lsize
      BY <1>0, <2>1 DEF SizeInv
    <3> QED BY <1>2, <2>1, <2>3, <3>5, <3>6, <3>7, HeldCount, HeldCountNext,
               CountedNodes DEF MemoryExact
  <2> QED BY <1>6, <2>2, <2>3 DEF Read
<1>7. CASE PutToUsed
  <2>1. /\ lpc = "put_used" /\ lpc' = "hash" /\ UNCHANGED <<node, current_mem>>
        /\ used \in Seq(Node) /\ lnode \in Node /\ used' = Append(used, lnode)
    BY <1>0, <1>7 DEF PutToUsed, HolderInv, DeqTypeOK
  <2>2. OnUsedList' = OnUsedList \cup {lnode}
    BY <2>1, AppendElems DEF OnUsedList, Elems
  <2>3. Counted' = Counted
    BY <1>1, <2>1, <2>2 DEF Counted, Loading
  <2> QED BY <2>1, <2>3, ExactUnmoved
<1> QED BY <1>3, <1>4, <1>5, <1>6, <1>7 DEF Loader

\* Through every step of the composition but that one.
LEMMA ExactStep ==
  ASSUME TypeInv, TypeInv', NodesAccounted, WindowInv, MemoryExact, [Next]_vars,
         ~ (lpc = "pop" /\ lpc' # "pop" /\ free = {})
  PROVE  MemoryExact'
<1>1. CASE UNCHANGED deqVars
  BY <1>1 DEF deqVars, listVars, loaderVars, workerVars, MemoryExact, MemHeld,
              Counted, Loading, OnUsedList, HeldAt
<1>2. CASE DeqRestart
  <2>1. /\ current_mem' = 0 /\ lpc' = "recv" /\ used' = <<>>
        /\ \A w \in Worker : wpc'[w] = "get"
    BY <1>2 DEF DeqRestart
  <2>2. Counted' = {}
    BY <2>1 DEF Counted, Loading, OnUsedList, HeldAt
  <2>3. HeldUnits(Counted', node') = {}
    BY <2>2 DEF HeldUnits
  <2> QED BY <2>1, <2>3, HeldCountNext, FS_EmptySet DEF MemoryExact
<1> QED BY <1>1, <1>2, LoaderExactStep, WorkExactStep
        DEF Next, Enqueue, Dequeue, DeqNext, vars

-----------------------------------------------------------------------------
(* The second window: where a key is left without a node.                  *)

\* A key comes into the table in one step.
LEMMA KeysAdded ==
  ASSUME [Next]_vars, NEW s \in hashed' \ hashed
  PROVE  AddToHash /\ lpc = "hash" /\ s = lslot
<1>1. CASE UNCHANGED hashed
  BY <1>1
<1>2. CASE AddToHash
  BY <1>2 DEF AddToHash
<1>3. CASE DeqRestart
  BY <1>3 DEF DeqRestart
<1>4. ASSUME NEW w \in Worker, Work(w)
      PROVE  hashed' \subseteq hashed
  BY <1>4 DEF Work, Get, Serve, Erase, Unhash, ReturnMem, AppendFree, listVars
<1>5. Loader => AddToHash \/ UNCHANGED hashed
  BY DEF Loader, Receive, Idle, ScanTape, OpenScanMess, ScanMess, Query, Test,
         TakeMem, Pop, Read, PutToUsed, listVars
<1> QED BY <1>1, <1>2, <1>3, <1>4, <1>5
        DEF Next, Enqueue, Dequeue, DeqNext, vars, deqVars, listVars

\* A node leaves the keyed ones with its key.
LEMMA OwnersStay ==
  ASSUME TypeInv, TypeInv', NodesAccounted, [Next]_vars, NEW n \in Keyed
  PROVE  \/ n \in Keyed' /\ node'[n].slot = node[n].slot
         \/ node[n].slot \notin hashed'
<1> DEFINE keyed == {"serve", "erase", "unhash"}
           Stays == n \in Keyed' /\ node'[n].slot = node[n].slot
<1>0. DeqTypeOK /\ HolderInv
  BY DEF TypeInv, TypeOK
<1>1. \/ n \in OnUsedList
      \/ \E v \in Worker : wpc[v] \in keyed /\ wnode[v] = n
  BY DEF Keyed, HeldAt
<1>2. n \in Keyed' <=> \/ n \in OnUsedList'
                       \/ \E v \in Worker : wpc'[v] \in keyed /\ wnode'[v] = n
  BY DEF Keyed, HeldAt
<1>3. n \in Node /\ n \notin free /\ n \notin Loading
  <2>1. Keyed \subseteq OnUsedList \cup Held
    BY DEF Keyed, Held, HeldAt
  <2> QED BY <2>1 DEF NodesAccounted
<1>4. CASE UNCHANGED deqVars
  BY <1>1, <1>2, <1>4 DEF deqVars, listVars, workerVars, OnUsedList
<1>5. CASE DeqRestart
  BY <1>5 DEF DeqRestart
<1>6. CASE Loader
  <2>1. UNCHANGED <<wpc, wnode>>
    BY <1>6 DEF Loader, Receive, Idle, ScanTape, OpenScanMess, ScanMess, Query,
                Test, TakeMem, Pop, Read, PutToUsed, AddToHash, workerVars
  <2>2. OnUsedList \subseteq OnUsedList'
    <3>1. CASE PutToUsed
      <4>1. used \in Seq(Node) /\ lnode \in Node /\ used' = Append(used, lnode)
        BY <1>0, <3>1 DEF PutToUsed, HolderInv, DeqTypeOK
      <4> QED BY <4>1, AppendElems DEF OnUsedList, Elems
    <3>2. CASE UNCHANGED used
      BY <3>2 DEF OnUsedList
    <3> QED BY <1>6, <3>1, <3>2
            DEF Loader, Receive, Idle, ScanTape, OpenScanMess, ScanMess, Query,
                Test, TakeMem, Pop, Read, AddToHash, listVars
  <2>3. node'[n] = node[n]
    <3>1. CASE Pop
      BY <1>0, <1>3, <3>1 DEF Pop, DeqTypeOK
    <3>2. CASE Read
      BY <1>0, <1>3, <3>2 DEF Read, Loading, DeqTypeOK
    <3>3. CASE UNCHANGED node
      BY <3>3
    <3> QED BY <1>6, <3>1, <3>2, <3>3
            DEF Loader, Receive, Idle, ScanTape, OpenScanMess, ScanMess, Query,
                Test, TakeMem, PutToUsed, AddToHash, listVars
  <2> QED BY <1>1, <1>2, <2>1, <2>2, <2>3
<1>7. ASSUME NEW w \in Worker, Work(w)
      PROVE  Stays \/ node[n].slot \notin hashed'
  <2>1. \A v \in Worker \ {w} : wpc'[v] = wpc[v] /\ wnode'[v] = wnode[v]
    BY <1>0, <1>7 DEF Work, Get, Serve, Erase, Unhash, ReturnMem, AppendFree,
                      DeqTypeOK
  <2>2. CASE Get(w)
    <3>1. /\ used \in Seq(Node) /\ used # <<>> /\ used' = Tail(used)
          /\ wpc[w] = "get" /\ wnode'[w] = Head(used) /\ wpc'[w] = "serve"
          /\ UNCHANGED node
      BY <1>0, <2>2 DEF Get, DeqTypeOK
    <3>2. Elems(used) = Elems(used') \cup {Head(used)}
      BY <3>1, HeadElems
    <3> QED BY <1>1, <1>2, <2>1, <3>1, <3>2 DEF OnUsedList, Elems
  <2>3. CASE Serve(w) \/ Erase(w)
    <3>1. UNCHANGED <<used, node, wnode>> /\ wpc'[w] \in keyed
      BY <1>0, <2>3 DEF Serve, Erase, listVars, DeqTypeOK
    <3> QED BY <1>1, <1>2, <2>1, <3>1 DEF OnUsedList
  <2>4. CASE Unhash(w)
    <3>1. UNCHANGED <<used, node, wnode>> /\ hashed' = hashed \ {node[wnode[w]].slot}
      BY <2>4 DEF Unhash
    <3>2. CASE n = wnode[w]
      BY <3>1, <3>2
    <3>3. CASE n # wnode[w]
      BY <1>1, <1>2, <2>1, <3>1, <3>3 DEF OnUsedList
    <3> QED BY <3>2, <3>3
  <2>5. CASE ReturnMem(w)
    <3>1. UNCHANGED <<used, node, wnode>> /\ wpc[w] = "mem"
      BY <2>5 DEF ReturnMem
    <3> QED BY <1>1, <1>2, <2>1, <3>1 DEF OnUsedList
  <2>6. CASE AppendFree(w)
    <3>1. /\ UNCHANGED used /\ wpc[w] = "append"
          /\ node' = [node EXCEPT ![wnode[w]] = FreshNode]
      BY <2>6 DEF AppendFree
    <3>2. n # wnode[w]
      <4>1. wnode[w] \notin OnUsedList
            /\ \A v \in Worker \ {w} : wpc[v] # "get" => wnode[v] # wnode[w]
        BY <1>0, <3>1, HolderSets DEF NodesAccounted
      <4> QED BY <1>1, <3>1, <4>1
    <3>3. node'[n] = node[n]
      BY <1>0, <1>3, <3>1, <3>2 DEF DeqTypeOK
    <3> QED BY <1>1, <1>2, <2>1, <3>1, <3>3 DEF OnUsedList
  <2> QED BY <1>7, <2>2, <2>3, <2>4, <2>5, <2>6 DEF Work
<1> QED BY <1>4, <1>5, <1>6, <1>7 DEF Next, Enqueue, Dequeue, DeqNext, vars

\* A key that has a node, or gets one with the step, keeps a node.
LEMMA OrphanStep ==
  ASSUME TypeInv, TypeInv', NodesAccounted, [Next]_vars,
         NEW s \in OrphanKeys' \ OrphanKeys
  PROVE  lpc = "hash" /\ s = lslot /\ ~ \E n \in Keyed : node[n].slot = s
<1>1. s \in hashed' /\ ~ \E n \in Keyed' : node'[n].slot = s
  BY DEF OrphanKeys
<1>2. ~ \E n \in Keyed : node[n].slot = s
  BY <1>1, OwnersStay
<1>3. s \notin hashed
  BY <1>2 DEF OrphanKeys
<1> QED BY <1>1, <1>2, <1>3, KeysAdded

\* Memory that is counted exactly goes astray only where get_from_free finds no
\* node while put_to_free has not yet given one back, and a key outlives its
\* node only by being added after it: message_dequeue has no other leak.
THEOREM TwoWindows == Spec => OnlyTwoWindows
<1>1. ASSUME TypeInv, TypeInv', NodesAccounted, WindowInv, MemInv, [Next]_vars
      PROVE  /\ MemoryExact /\ ~ MemoryExact' =>
                  /\ lpc = "pop" /\ lpc' # "pop" /\ free = {}
                  /\ \E w \in Worker : wpc[w] = "append"
             /\ \A s \in OrphanKeys' \ OrphanKeys : lpc = "hash" /\ s = lslot
  <2>1. MemoryExact /\ ~ MemoryExact' => lpc = "pop" /\ lpc' # "pop" /\ free = {}
    BY <1>1, ExactStep
  <2>2. lpc = "pop" /\ free = {} => \E w \in Worker : wpc[w] = "append"
    BY <1>1, EnoughNodes DEF NodesSuffice
  <2>3. \A s \in OrphanKeys' \ OrphanKeys : lpc = "hash" /\ s = lslot
    BY <1>1, OrphanStep
  <2> QED BY <2>1, <2>2, <2>3
<1> QED BY <1>1, TypeCorrect, NodesNeverLost, NodesFit, MemoryCounted, PTL
        DEF Spec, OnlyTwoWindows

-----------------------------------------------------------------------------
(* A queue whose loads find a node.                                        *)

\* The first window is never hit: a worker that has given its memory back gives
\* its node back before the loader comes to take it.
NodeFirst == lpc = "pop" => free # {}

LEMMA ExactInit == Init => MemoryExact
<1> SUFFICES ASSUME Init PROVE MemoryExact
  OBVIOUS
<1>1. Counted = {} /\ lpc = "recv" /\ current_mem = 0
  BY DEF Init, DeqInit, Counted, Loading, OnUsedList, HeldAt
<1>2. HeldUnits(Counted, node) = {}
  BY <1>1 DEF HeldUnits
<1> QED BY <1>1, <1>2, FS_EmptySet DEF MemoryExact, MemHeld, HeldUnits

\* Then g_current_mem is "current allocated memory", as its comment says.
THEOREM MemoryExactOutsideTheWindow == Spec /\ []NodeFirst => []MemoryExact
<1>1. Init => MemoryExact
  BY ExactInit
<1>2. TypeInv /\ TypeInv' /\ NodesAccounted /\ WindowInv /\ MemoryExact
        /\ NodeFirst /\ [Next]_vars => MemoryExact'
  BY ExactStep DEF NodeFirst
<1> QED BY <1>1, <1>2, TypeCorrect, NodesNeverLost, NodesFit, PTL DEF Spec

-----------------------------------------------------------------------------
(* A queue whose keys are added in time.                                   *)

\* The second window is never hit: when the loader comes to add the key, the
\* node is still on the used list, or its worker has not yet taken the key out.
KeyFirst == lpc = "hash" => \E n \in Keyed : node[n].slot = lslot

KeysOwned == OrphanKeys = {}

LEMMA OwnedStep ==
  ASSUME TypeInv, TypeInv', NodesAccounted, KeysOwned, KeyFirst, [Next]_vars
  PROVE  KeysOwned'
<1> SUFFICES ASSUME NEW s \in OrphanKeys'
             PROVE  FALSE
  BY DEF KeysOwned
<1>1. s \in OrphanKeys' \ OrphanKeys
  BY DEF KeysOwned
<1>2. lpc = "hash" /\ s = lslot /\ ~ \E n \in Keyed : node[n].slot = s
  BY <1>1, OrphanStep
<1> QED BY <1>2 DEF KeyFirst

\* Keys that have nodes are fewer than the places for them.
LEMMA OwnedHaveRoom ==
  ASSUME TypeInv, NodesAccounted, KeysOwned
  PROVE  HashRoom
<1> SUFFICES ASSUME lpc = "hash"
             PROVE  HasRoom(lslot)
  BY DEF HashRoom
<1>1. lslot \in Slot
  BY DEF TypeInv, HolderInv
<1>2. CASE lslot.type = "tape"
  BY <1>1, <1>2, BlocksHaveRoom
<1>3. CASE lslot.type = "mess"
  <2> DEFINE S == {k \in hashed : k.type = "mess"}
             D == {n \in Keyed : node[n].slot \in S}
             f == [n \in D |-> node[n].slot]
  <2>1. D \in SUBSET Node
    <3>1. Keyed \subseteq OnUsedList \cup Held
      BY DEF Keyed, Held, HeldAt
    <3> QED BY <3>1 DEF NodesAccounted
  <2>2. IsFiniteSet(D) /\ Cardinality(D) <= Cardinality(Node)
        /\ Cardinality(D) \in Nat
    BY <2>1, DequeueAssumption, FS_Subset, FS_CardinalityType
  <2>3. f \in Surjection(D, S)
    <3>1. f \in [D -> S]
      OBVIOUS
    <3>2. ASSUME NEW s \in S
          PROVE  \E n \in D : f[n] = s
      <4>1. PICK n \in Keyed : node[n].slot = s
        BY DEF KeysOwned, OrphanKeys
      <4> QED BY <4>1
    <3> QED BY <3>1, <3>2 DEF Surjection
  <2>4. IsFiniteSet(S) /\ Cardinality(S) <= Cardinality(D)
        /\ Cardinality(S) \in Nat
    BY <2>2, <2>3, FS_Surjection, FS_CardinalityType
  <2>5. {k \in hashed : k.type = lslot.type} = S
    BY <1>3
  <2> HIDE DEF S, D, f
  <2>6. HasRoom(lslot) <=> Cardinality(S) < MessHashCap
    BY <1>3, <2>5 DEF HasRoom
  <2>7. Cardinality(Node) = TapeUnits + MaxMem /\ TapeUnits \in Nat /\ MaxMem \in Nat
    BY DequeueAssumption, StoreAssumption
  <2> QED BY <2>2, <2>4, <2>6, <2>7 DEF MessHashCap
<1> QED BY <1>1, <1>2, <1>3 DEF Slot

\* No key is left without a node, and so the tables never fill.
THEOREM KeysKeepNodes == Spec /\ []KeyFirst => []KeysOwned
<1>1. Init => KeysOwned
  BY DEF Init, DeqInit, KeysOwned, OrphanKeys
<1>2. TypeInv /\ TypeInv' /\ NodesAccounted /\ KeysOwned /\ KeyFirst
        /\ [Next]_vars => KeysOwned'
  BY OwnedStep
<1> QED BY <1>1, <1>2, TypeCorrect, NodesNeverLost, PTL DEF Spec

\* The tables' sizes, twice the nodes that can need a key and one more, are
\* enough: int_hash_add has a place for every key, however many mails and
\* files there are.
THEOREM KeysHaveRoom == Spec /\ []KeyFirst => []HashRoom
<1>1. TypeInv /\ NodesAccounted /\ KeysOwned => HashRoom
  BY OwnedHaveRoom
<1> QED BY <1>1, KeysKeepNodes, TypeCorrect, NodesNeverLost, PTL

\* No slot is withheld from the idle scan by a key that nobody takes out.
THEOREM NoStaleKeys == Spec /\ []KeyFirst => [](StaleKeys = {})
<1>1. TypeInv /\ NodesAccounted /\ KeysOwned => StaleKeys = {}
  <2> SUFFICES ASSUME TypeInv, NodesAccounted, KeysOwned
               PROVE  StaleKeys = {}
    OBVIOUS
  <2>1. Keyed \subseteq OnUsedList \cup Held
    BY DEF Keyed, Held, HeldAt
  <2>2. Keyed \subseteq Node \ free
    BY <2>1 DEF NodesAccounted
  <2> QED BY <2>2 DEF KeysOwned, OrphanKeys, StaleKeys
<1> QED BY <1>1, KeysKeepNodes, TypeCorrect, NodesNeverLost, PTL

\* What the queue promises rests on nothing else: with every key added in time,
\* any number of mails, files and restarts loses no accepted mail, and the
\* hooks see a mail once in each life.
THEOREM PromiseKeptWithKeysInTime ==
  Spec /\ []KeyFirst => /\ KeepsPromise
                        /\ [](AcceptedIsStored /\ HandledOncePerLife)
                        /\ [](NodeKeepsItsSlot /\ OneNodePerSlot)
BY KeysHaveRoom, QueueKeepsPromise, AcceptedNeverLost, HandledOnce,
   NodesKeepTheirSlots, SlotsHaveOneNode, PTL

-----------------------------------------------------------------------------
(* A queue whose smtp process is not restarted.  Whatever happens to the    *)
(* keys, two nodes may then share a file, but what each of them erases has  *)
(* been handled: nothing but the one mail was ever in that file.            *)

\* Slot s is settled on mail m: a block has the mail, a file has it or has
\* been emptied, for good.
Holds(s, m) ==
  /\ m \in Mail
  /\ s.type = "tape" => Content(s) = m
  /\ s.type = "mess" => s.at \in Settled /\ Content(s) \in {m, NoMail}

\* Every node a worker has, or may take, is settled on the mail it was read
\* with.
CustodyInv ==
  /\ \A n \in Live : Holds(node[n].slot, node[n].mail)
  /\ lpc \in {"pop", "read"} /\ lslot.type = "tape" => Content(lslot) \in Mail
  /\ lpc = "put_used" => Holds(lslot, node[lnode].mail)
  /\ ServedInv

\* Nothing is written to a settled file.
LEMMA EnqKeepsFile ==
  ASSUME TypeInv, EnqNext, MaxEnqRestarts = 0, NEW i \in Settled
  PROVE  mess'[i] = mess[i]
<1>0. StoreTypeOK /\ EnqTypeOK /\ FlushInv
  BY DEF TypeInv, TypeOK
<1>1. ASSUME NEW m \in Mail, Cancel(m)
      PROVE  mess'[i] = mess[i]
  <2>1. m # fmail /\ flush_ID[m] # i
    BY <1>0, <1>1, StoreAssumption DEF Cancel, FlushInv, Settled, Saving
  <2> QED BY <1>0, <1>1, <2>1 DEF Cancel, StoreTypeOK, Settled
<1>2. CASE OpenFile \/ WriteFails \/ WriteWhole
  <2>1. fmail \in Mail /\ flush_ID[fmail] # i
    BY <1>0, <1>2 DEF OpenFile, WriteFails, WriteWhole, FlushInv, Settled,
                      Saving
  <2> QED BY <1>0, <1>2, <2>1 DEF OpenFile, WriteFails, WriteWhole,
                                  StoreTypeOK, Settled
<1>3. CASE \/ Take \/ FindBlock \/ WriteBlock \/ OpenFails \/ WritePart
           \/ Notify \/ Feedback
  BY <1>3 DEF Take, FindBlock, WriteBlock, OpenFails, WritePart, Notify,
              Feedback, storeVars
<1>4. ASSUME NEW m \in Mail, NEW action \in {"part", "whole"},
             PutToQueue(m, action)
      PROVE  mess'[i] = mess[i]
  BY <1>4 DEF PutToQueue, storeVars
<1>5. ~ EnqRestart
  BY <1>0 DEF EnqRestart, EnqTypeOK
<1> QED BY <1>1, <1>2, <1>3, <1>4, <1>5 DEF EnqNext, Clients, FlushThread

\* A worker's node, and the loader's on its way to them, has a slot.
LEMMA LiveSlots ==
  ASSUME TypeInv, WindowInv
  PROVE  /\ \A n \in Live : n \in Keyed /\ node[n].slot \in Slot
         /\ lpc \in {"test", "mem", "pop", "read", "put_used"} => lslot \in Slot
<1>1. Live \subseteq Keyed /\ Keyed \subseteq Counted
  BY DEF Live, Keyed, Counted, HeldAt
<1> QED BY <1>1 DEF WindowInv, SizeInv, TypeInv, HolderInv

\* The smtp process: it changes no complete block and no settled file.
LEMMA EnqCustodyStep ==
  ASSUME TypeInv, TypeInv', FilesInv, FilesInv', WindowInv, CustodyInv, EnqNext,
         UNCHANGED deqVars, MaxEnqRestarts = 0
  PROVE  CustodyInv'
<1>1. UNCHANGED <<node, lpc, lslot, lnode, wpc, wnode, handled, Live>>
  BY DEF deqVars, listVars, loaderVars, workerVars, Live, HeldAt, OnUsedList
<1>2. \A p \in Pos : tape[p] \in Mail => tape'[p] = tape[p]
  BY EnqKeepsMail
<1>3. \A i \in Settled : i \in Settled' /\ mess'[i] = mess[i]
  BY EnqKeepsFile, EnqKeepsSettled
<1>4. \A s \in Slot, m \in Mail : Holds(s, m) => Holds(s, m)'
  BY <1>2, <1>3 DEF Holds, Content, Slot
<1>5. \A s \in Slot :
        s.type = "tape" /\ Content(s) \in Mail => Content(s)' \in Mail
  BY <1>2 DEF Content, Slot
<1>6. (\A n \in Live : Holds(node[n].slot, node[n].mail))'
  <2> SUFFICES ASSUME NEW n \in Live
               PROVE  Holds(node[n].slot, node[n].mail)'
    BY <1>1
  <2> PICK s, m : s = node[n].slot /\ m = node[n].mail
    OBVIOUS
  <2>1. s \in Slot /\ m \in Mail /\ Holds(s, m)
    BY LiveSlots DEF CustodyInv, Holds
  <2>2. Holds(s, m)' /\ s = node'[n].slot /\ m = node'[n].mail
    BY <1>1, <1>4, <2>1
  <2> QED BY <2>2 DEF Holds, Content
<1>7. (lpc = "put_used" => Holds(lslot, node[lnode].mail))'
  <2> SUFFICES ASSUME lpc = "put_used"
               PROVE  Holds(lslot, node[lnode].mail)'
    BY <1>1
  <2> PICK s, m : s = lslot /\ m = node[lnode].mail
    OBVIOUS
  <2>1. s \in Slot /\ m \in Mail /\ Holds(s, m)
    BY LiveSlots DEF CustodyInv, Holds
  <2>2. Holds(s, m)' /\ s = lslot' /\ m = node'[lnode'].mail
    BY <1>1, <1>4, <2>1
  <2> QED BY <2>2 DEF Holds, Content
<1>8. (lpc \in {"pop", "read"} /\ lslot.type = "tape" => Content(lslot) \in Mail)'
  <2> SUFFICES ASSUME lpc \in {"pop", "read"}, lslot.type = "tape"
               PROVE  Content(lslot)' \in Mail
    BY <1>1
  <2> PICK s : s = lslot
    OBVIOUS
  <2>1. s \in Slot /\ s.type = "tape" /\ Content(s) \in Mail
    BY LiveSlots DEF CustodyInv
  <2>2. Content(s)' \in Mail /\ s = lslot'
    BY <1>1, <1>5, <2>1
  <2> QED BY <2>2 DEF Content
<1>9. ServedInv'
  BY <1>1 DEF CustodyInv, ServedInv
<1> QED BY <1>6, <1>7, <1>8, <1>9 DEF CustodyInv

\* A step of the loader: what it reads from a settled file is the one mail that
\* was ever in it, and a block it reads from no worker is about to empty.
LEMMA LoaderCustodyStep ==
  ASSUME TypeInv, TypeInv', NodesAccounted, WholeInv, WindowInv, CustodyInv,
         Loader, UNCHANGED enqVars
  PROVE  CustodyInv'
<1> USE StoreAssumption
<1>0. StoreTypeOK /\ DeqTypeOK /\ HolderInv /\ SizeInv
  BY DEF TypeInv, TypeOK, WindowInv
<1>1. UNCHANGED <<tape, mess, wpc, wnode, handled>> /\ Settled' = Settled
  <2>1. UNCHANGED <<tape, mess, wpc, wnode, handled>>
    BY DEF Loader, Receive, Idle, ScanTape, OpenScanMess, ScanMess, Query, Test,
           TakeMem, Pop, Read, PutToUsed, AddToHash, workerVars, storeVars
  <2> QED BY <2>1 DEF Settled, Saving, enqVars
<1>2. \A s, m : Holds(s, m)' <=> Holds(s, m)
  BY <1>1 DEF Holds, Content
<1>3. LoadReturns => lpc' \notin {"pop", "read", "put_used"}
  BY <1>0 DEF LoadReturns, DeqTypeOK
<1>4. Live \subseteq OnUsedList \cup Held /\ \A n \in Live : node[n].slot \in Slot
  <2>1. Live \subseteq OnUsedList \cup Held
    BY DEF Live, Held, HeldAt
  <2> QED BY <2>1, LiveSlots
<1>5. \A w \in Worker : wpc[w] = "erase" => wnode[w] \in Held
  BY DEF Held, HeldAt
<1>6. Live' = OnUsedList' \cup HeldAt({"serve", "erase"})
  BY <1>1 DEF Live, HeldAt
<1>7. CASE \/ Receive \/ Idle \/ ScanTape \/ OpenScanMess \/ ScanMess \/ Query
           \/ Test \/ TakeMem \/ AddToHash \/ (Pop /\ LoadReturns)
  <2>1. UNCHANGED <<used, node>>
    BY <1>3, <1>7 DEF Receive, Idle, ScanTape, OpenScanMess, ScanMess, Query, Test,
                TakeMem, AddToHash, Pop, listVars
  <2>2. lpc' \notin {"read", "put_used"}
    BY <1>3, <1>7 DEF Receive, Idle, ScanTape, OpenScanMess, ScanMess, Query,
                      Test, TakeMem, AddToHash, Pop
  <2>3. lpc' = "pop" /\ lslot'.type = "tape" => Content(lslot') \in Mail
    <3> SUFFICES ASSUME lpc' = "pop", lslot'.type = "tape"
                 PROVE  Content(lslot') \in Mail
      OBVIOUS
    <3>1. Test \/ TakeMem
      BY <1>3, <1>7 DEF Receive, Idle, ScanTape, OpenScanMess, ScanMess, Query,
                        AddToHash
    <3>2. ~ LoadReturns /\ lslot' = lslot /\ lslot \in Slot
      BY <1>0, <1>3, <3>1 DEF Test, TakeMem, HolderInv
    <3>3. Test
      BY <1>0, <3>1, <3>2 DEF TakeMem, SizeInv
    <3>4. Content(lslot) # NoMail
      BY <3>2, <3>3 DEF Test
    <3> QED BY <1>0, <3>2, <3>4, SlotCases DEF Content, StoreTypeOK
  <2>4. Live' = Live
    BY <1>6, <2>1 DEF Live, OnUsedList
  <2> QED BY <1>1, <1>2, <2>1, <2>2, <2>3, <2>4 DEF CustodyInv, ServedInv, Content
<1>8. CASE Pop /\ ~ LoadReturns
  <2>1. PICK n \in free :
          node' = [node EXCEPT ![n] =
                     [slot |-> lslot, mail |-> NoMail, size |-> lsize]]
    BY <1>8 DEF Pop
  <2>2. UNCHANGED <<used, lslot>> /\ lpc = "pop" /\ lpc' = "read" /\ n \in Node
    BY <1>0, <1>8 DEF Pop, DeqTypeOK
  <2>3. \A k \in OnUsedList \cup Held : node'[k] = node[k]
    BY <1>0, <2>1, <2>2 DEF DeqTypeOK, NodesAccounted
  <2>4. Live' = Live
    BY <1>6, <2>2 DEF Live, OnUsedList
  <2>5. ServedInv'
    BY <1>1, <1>5, <2>3 DEF CustodyInv, ServedInv
  <2> QED BY <1>1, <1>2, <1>4, <2>2, <2>3, <2>4, <2>5 DEF CustodyInv, Content
<1>9. CASE Read
  <2>1. /\ lpc = "read" /\ UNCHANGED used /\ lnode \in Node /\ lslot \in Slot
        /\ node[lnode].slot = lslot /\ Loading = {lnode}
    BY <1>0, <1>9 DEF Read, HolderInv, SizeInv, Loading
  <2>2. lnode \notin OnUsedList \cup Held
    BY <2>1 DEF NodesAccounted
  <2>3. \A k \in Node \ {lnode} : node'[k] = node[k]
    BY <1>0, <1>9 DEF Read, DeqTypeOK
  <2>4. OnUsedList \cup Held \subseteq Node \ {lnode}
    BY <2>2 DEF NodesAccounted
  <2>5. Live' = Live
    BY <1>6, <2>1 DEF Live, OnUsedList
  <2>6. ServedInv'
    BY <1>1, <1>5, <2>3, <2>4 DEF CustodyInv, ServedInv
  <2>7. lpc' \notin {"pop", "read"}
    BY <1>3, <1>9 DEF Read
  <2>8. lpc' = "put_used" => Holds(lslot', node'[lnode'].mail)
    <3> SUFFICES ASSUME lpc' = "put_used"
                 PROVE  Holds(lslot', node'[lnode'].mail)
      OBVIOUS
    <3>1. /\ lslot.type = "mess" => mess[lslot.at] \in Mail
          /\ node' = [node EXCEPT ![lnode].mail = Content(lslot)]
          /\ UNCHANGED <<lslot, lnode>>
      BY <1>3, <1>9 DEF Read
    <3>2. node'[lnode'].mail = Content(lslot)
      BY <1>0, <2>1, <3>1 DEF DeqTypeOK
    <3>3. CASE lslot.type = "tape"
      <4>1. Content(lslot) \in Mail
        BY <2>1, <3>3 DEF CustodyInv
      <4> QED BY <3>1, <3>2, <3>3, <4>1 DEF Holds
    <3>4. CASE lslot.type = "mess"
      <4>1. Content(lslot) \in Mail /\ lslot.at \in Settled
        BY <3>1, <3>4 DEF Content, WholeInv
      <4> QED BY <3>1, <3>2, <3>4, <4>1 DEF Holds
    <3> QED BY <2>1, <3>3, <3>4 DEF Slot
  <2> QED BY <1>2, <1>4, <2>3, <2>4, <2>5, <2>6, <2>7, <2>8 DEF CustodyInv
<1>10. CASE PutToUsed
  <2>1. /\ lpc = "put_used" /\ lpc' = "hash" /\ UNCHANGED node
        /\ used \in Seq(Node) /\ lnode \in Node /\ used' = Append(used, lnode)
        /\ node[lnode].slot = lslot
    BY <1>0, <1>10 DEF PutToUsed, HolderInv, DeqTypeOK, SizeInv
  <2>2. OnUsedList' = OnUsedList \cup {lnode}
    BY <2>1, AppendElems DEF OnUsedList, Elems
  <2>3. Live' = Live \cup {lnode}
    BY <1>6, <2>2 DEF Live
  <2>4. Holds(node[lnode].slot, node[lnode].mail)
    BY <2>1 DEF CustodyInv
  <2> QED BY <1>1, <1>2, <2>1, <2>3, <2>4 DEF CustodyInv, ServedInv
<1> QED BY <1>7, <1>8, <1>9, <1>10 DEF Loader

\* A step of a worker: it erases its node's slot, which no other node has when
\* it is a block, and which holds what the hooks have been given.
LEMMA WorkCustodyStep ==
  ASSUME TypeInv, TypeInv', NodesAccounted, WindowInv, CustodyInv,
         UNCHANGED enqVars, NEW w \in Worker, Work(w)
  PROVE  CustodyInv'
<1> USE StoreAssumption
<1>0. StoreTypeOK /\ DeqTypeOK /\ HolderInv /\ SizeInv /\ BlockInv
  BY DEF TypeInv, TypeOK, WindowInv
<1>1. UNCHANGED <<lpc, lslot, lnode>>
  BY DEF Work, Get, Serve, Erase, Unhash, ReturnMem, AppendFree, loaderVars
<1>2. /\ \A n : n \in Live <=>
           \/ n \in OnUsedList
           \/ \E v \in Worker : wpc[v] \in {"serve", "erase"} /\ wnode[v] = n
      /\ \A n : n \in Live' <=>
           \/ n \in OnUsedList'
           \/ \E v \in Worker : wpc'[v] \in {"serve", "erase"} /\ wnode'[v] = n
  BY DEF Live, HeldAt
<1>3. \A v \in Worker \ {w} : wpc'[v] = wpc[v] /\ wnode'[v] = wnode[v]
  BY <1>0 DEF Work, Get, Serve, Erase, Unhash, ReturnMem, AppendFree, DeqTypeOK
<1>4. wpc[w] # "get" =>
        /\ wnode[w] \in Node
        /\ wnode[w] \notin OnUsedList /\ wnode[w] \notin Loading
        /\ \A v \in Worker \ {w} : wpc[v] # "get" => wnode[v] # wnode[w]
  BY <1>0, HolderSets DEF NodesAccounted, HolderInv
<1>5. /\ \A n \in Live : n \in Keyed /\ node[n].slot \in Slot /\ node[n].mail \in Mail
      /\ lpc \in {"pop", "read", "put_used"} => lslot \in Slot
  BY LiveSlots DEF CustodyInv, Holds
<1>6. CASE Get(w)
  <2>1. /\ used \in Seq(Node) /\ used # <<>> /\ used' = Tail(used)
        /\ wnode'[w] = Head(used) /\ wpc'[w] = "serve"
        /\ UNCHANGED <<node, tape, mess, handled>>
    BY <1>0, <1>6 DEF Get, DeqTypeOK, storeVars
  <2>2. Head(used) \in Elems(used) /\ Elems(used') \subseteq Elems(used)
    BY <2>1, HeadElems
  <2>3. Live' \subseteq Live
    BY <1>2, <1>3, <2>1, <2>2 DEF OnUsedList, Elems
  <2>4. \A s, m : Holds(s, m)' <=> Holds(s, m)
    BY <2>1 DEF Holds, Content, Settled, Saving, enqVars
  <2>5. ServedInv'
    BY <1>3, <2>1 DEF CustodyInv, ServedInv
  <2> QED BY <1>1, <2>1, <2>3, <2>4, <2>5 DEF CustodyInv, Content
<1>7. CASE Serve(w)
  <2>1. /\ UNCHANGED <<used, node, wnode, tape, mess>>
        /\ wpc[w] = "serve" /\ wpc'[w] = "erase"
    BY <1>0, <1>7 DEF Serve, listVars, DeqTypeOK, storeVars
  <2>2. Live' \subseteq Live /\ wnode[w] \in Live
    BY <1>2, <1>3, <2>1 DEF OnUsedList
  <2>3. \A s, m : Holds(s, m)' <=> Holds(s, m)
    BY <2>1 DEF Holds, Content, Settled, Saving, enqVars
  <2>4. /\ \A m \in Mail : handled'[m] >= handled[m] /\ handled[m] \in Nat
                           /\ handled'[m] \in Nat
        /\ handled'[node[wnode[w]].mail] > 0
    BY <1>0, <1>5, <1>7, <2>2 DEF Serve, DeqTypeOK
  <2>5. ServedInv'
    <3> SUFFICES ASSUME NEW v \in Worker, wpc'[v] = "erase"
                 PROVE  handled'[node'[wnode'[v]].mail] > 0
      BY DEF ServedInv
    <3>1. CASE v = w
      BY <2>1, <2>4, <3>1
    <3>2. CASE v # w
      <4>1. wpc[v] = "erase" /\ wnode[v] \in Live
        BY <1>2, <1>3, <3>2
      <4>2. handled[node[wnode[v]].mail] > 0 /\ node[wnode[v]].mail \in Mail
        BY <1>5, <4>1 DEF CustodyInv, ServedInv
      <4> QED BY <2>1, <2>4, <4>2
    <3> QED BY <3>1, <3>2
  <2> QED BY <1>1, <2>1, <2>2, <2>3, <2>5 DEF CustodyInv, Content
<1>8. CASE Erase(w)
  <2>1. /\ UNCHANGED <<used, node, wnode, handled>> /\ EraseSlot(node[wnode[w]].slot)
        /\ wpc[w] = "erase" /\ wpc'[w] = "unhash"
    BY <1>0, <1>8 DEF Erase, listVars, DeqTypeOK
  <2>2. /\ Live' \subseteq Live /\ wnode[w] \in Live /\ wnode[w] \notin Live'
    BY <1>2, <1>3, <1>4, <2>1 DEF OnUsedList
  <2> PICK e : e = node[wnode[w]].slot
    OBVIOUS
  <2>3. e \in Slot /\ EraseSlot(e)
    BY <1>5, <2>1, <2>2
  <2>4. \A s \in Slot : Content(s)' \in {Content(s), NoMail}
                       /\ (s # e => Content(s)' = Content(s))
    BY <1>0, <2>3 DEF EraseSlot, Content, Slot, StoreTypeOK
  <2>5. Settled \subseteq Settled'
    <3>1. \A i \in ID : mess'[i] \in {mess[i], NoMail}
      BY <1>0, <2>3 DEF EraseSlot, StoreTypeOK
    <3> QED BY <3>1 DEF Settled, Saving, enqVars
  <2>6. \A s \in Slot : \A m :
          Holds(s, m) /\ (s.type = "tape" => s # e) => Holds(s, m)'
    BY <2>4, <2>5 DEF Holds
  <2>7. ASSUME NEW n \in Live'
        PROVE  Holds(node[n].slot, node[n].mail)'
    <3>1. n \in Live /\ n # wnode[w]
      BY <2>2
    <3>2. node[n].slot.type = "tape" => node[n].slot # e
      BY <1>0, <1>5, <2>2, <3>1 DEF BlockInv
    <3> PICK s, m : s = node[n].slot /\ m = node[n].mail
      OBVIOUS
    <3>3. s \in Slot /\ Holds(s, m) /\ (s.type = "tape" => s # e)
      BY <1>5, <3>1, <3>2 DEF CustodyInv
    <3>4. Holds(s, m)' /\ s = node'[n].slot /\ m = node'[n].mail
      BY <2>1, <2>6, <3>3
    <3> QED BY <3>4 DEF Holds, Content
  <2>8. lpc \in {"pop", "read", "put_used"} /\ lslot.type = "tape" => lslot # e
    BY <1>0, <1>5, <2>2 DEF BlockInv
  <2>9. (lpc = "put_used" => Holds(lslot, node[lnode].mail))'
    <3> SUFFICES ASSUME lpc = "put_used"
                 PROVE  Holds(lslot, node[lnode].mail)'
      BY <1>1
    <3> PICK s, m : s = lslot /\ m = node[lnode].mail
      OBVIOUS
    <3>1. s \in Slot /\ Holds(s, m) /\ (s.type = "tape" => s # e)
      BY <1>5, <2>8 DEF CustodyInv
    <3>2. Holds(s, m)' /\ s = lslot' /\ m = node'[lnode'].mail
      BY <1>1, <2>1, <2>6, <3>1
    <3> QED BY <3>2 DEF Holds, Content
  <2>10. (lpc \in {"pop", "read"} /\ lslot.type = "tape" => Content(lslot) \in Mail)'
    <3> SUFFICES ASSUME lpc \in {"pop", "read"}, lslot.type = "tape"
                 PROVE  Content(lslot)' \in Mail
      BY <1>1
    <3> PICK s : s = lslot
      OBVIOUS
    <3>1. s \in Slot /\ s # e /\ Content(s) \in Mail
      BY <1>5, <2>8 DEF CustodyInv
    <3>2. Content(s)' \in Mail /\ s = lslot'
      BY <1>1, <2>4, <3>1
    <3> QED BY <3>2 DEF Content
  <2>11. ServedInv'
    BY <1>3, <2>1 DEF CustodyInv, ServedInv
  <2> QED BY <2>7, <2>9, <2>10, <2>11 DEF CustodyInv
<1>9. CASE Unhash(w) \/ ReturnMem(w) \/ AppendFree(w)
  <2>1. /\ UNCHANGED <<used, tape, mess, handled>>
        /\ wpc[w] \in {"unhash", "mem", "append"}
        /\ wpc'[w] \notin {"serve", "erase"}
    BY <1>0, <1>9 DEF Unhash, ReturnMem, AppendFree, DeqTypeOK, storeVars
  <2>2. \A n \in Node \ {wnode[w]} : node'[n] = node[n]
    BY <1>0, <1>9 DEF Unhash, ReturnMem, AppendFree, DeqTypeOK
  <2>3. Live' = Live /\ Live \subseteq Node \ {wnode[w]}
    <3>1. OnUsedList' = OnUsedList
      BY <2>1 DEF OnUsedList
    <3>2. wnode[w] \notin Live
      BY <1>2, <1>4, <2>1
    <3>3. Live \subseteq OnUsedList \cup Held
      BY DEF Live, Held, HeldAt
    <3>4. \A v \in Worker :
            /\ wpc'[v] \in {"serve", "erase"} <=> wpc[v] \in {"serve", "erase"}
            /\ wpc[v] \in {"serve", "erase"} => wnode'[v] = wnode[v]
      BY <1>3, <2>1
    <3>5. \A n : n \in Live' <=> n \in Live
      BY <1>2, <3>1, <3>4
    <3> QED BY <3>2, <3>3, <3>5 DEF NodesAccounted
  <2>4. \A s, m : Holds(s, m)' <=> Holds(s, m)
    BY <2>1 DEF Holds, Content, Settled, Saving, enqVars
  <2>5. ServedInv'
    <3>1. \A v \in Worker : wpc'[v] = "erase" =>
            v # w /\ wnode'[v] = wnode[v] /\ wnode[v] \in Live
      BY <1>2, <1>3, <2>1
    <3> QED BY <1>3, <2>1, <2>2, <2>3, <3>1 DEF CustodyInv, ServedInv
  <2>6. lpc = "put_used" => node'[lnode] = node[lnode]
    BY <1>0, <1>4, <2>1, <2>2 DEF HolderInv, Loading
  <2> QED BY <1>1, <2>1, <2>2, <2>3, <2>4, <2>5, <2>6 DEF CustodyInv, Content
<1> QED BY <1>6, <1>7, <1>8, <1>9 DEF Work

\* The custody, through every step of the composition.
LEMMA CustodyStep ==
  ASSUME TypeInv, TypeInv', NodesAccounted, FilesInv, FilesInv', WholeInv,
         WindowInv, CustodyInv, MaxEnqRestarts = 0, [Next]_vars
  PROVE  CustodyInv'
<1>1. CASE Enqueue
  BY <1>1, EnqCustodyStep DEF Enqueue
<1>2. CASE Dequeue
  <2>1. ASSUME DeqRestart PROVE CustodyInv'
    <3>1. /\ lpc' = "recv" /\ used' = <<>> /\ \A w \in Worker : wpc'[w] = "get"
      BY <2>1 DEF DeqRestart
    <3>2. Live' = {}
      BY <3>1 DEF Live, OnUsedList, HeldAt
    <3> QED BY <3>1, <3>2 DEF CustodyInv, ServedInv
  <2> QED BY <1>2, <2>1, LoaderCustodyStep, WorkCustodyStep DEF Dequeue, DeqNext
<1>3. CASE UNCHANGED vars
  BY <1>3 DEF vars, storeVars, enqVars, deqVars, listVars, loaderVars,
     workerVars, CustodyInv, ServedInv, Live, OnUsedList, HeldAt, Holds,
     Content, Settled, Saving
<1> QED BY <1>1, <1>2, <1>3 DEF Next

\* What a worker erases is nothing, or its own node's mail, which the hooks have
\* been given.
LEMMA CustodyStoredStep ==
  ASSUME TypeInv, WindowInv, CustodyInv, AcceptedIsStored, DeqNext,
         UNCHANGED enqVars
  PROVE  AcceptedIsStored'
<1> USE StoreAssumption
<1>0. StoreTypeOK /\ DeqTypeOK
  BY DEF TypeInv, TypeOK
<1>1. \A m \in Mail : Saved(m)' <=> Saved(m)
  BY DEF enqVars, Saved
<1>2. CASE UNCHANGED <<tape, mess, handled>>
  BY <1>1, <1>2 DEF AcceptedIsStored, Stored, Content
<1>3. ASSUME NEW w \in Worker, Serve(w)
      PROVE  AcceptedIsStored'
  <2>1. UNCHANGED <<tape, mess>> /\ \A m \in Mail : handled'[m] = 0 => handled[m] = 0
    BY <1>0, <1>3 DEF Serve, storeVars, DeqTypeOK
  <2> QED BY <1>1, <2>1 DEF AcceptedIsStored, Stored, Content
<1>4. ASSUME NEW w \in Worker, Erase(w)
      PROVE  AcceptedIsStored'
  <2> DEFINE s == node[wnode[w]].slot
             k == node[wnode[w]].mail
  <2>1. wpc[w] = "erase" /\ EraseSlot(s) /\ UNCHANGED handled
    BY <1>4 DEF Erase
  <2>2. wnode[w] \in Live
    BY <2>1 DEF Live, HeldAt
  <2>3. s \in Slot /\ Content(s) \in {k, NoMail} /\ handled[k] > 0
    BY <2>1, <2>2, LiveSlots DEF CustodyInv, ServedInv, Holds, Slot
  <2>4. \A t \in Slot : t # s => Content(t)' = Content(t)
    BY <1>0, <2>1, <2>3 DEF EraseSlot, Content, Slot, StoreTypeOK
  <2>5. ASSUME NEW m \in Mail, Stored(m), handled[m] = 0
        PROVE  Stored(m)'
    <3>1. PICK t \in Slot : Content(t) = m
      BY <2>5 DEF Stored
    <3>2. t # s
      BY <2>3, <2>5, <3>1
    <3>3. Content(t)' = m
      BY <2>4, <3>1, <3>2
    <3> QED BY <3>3 DEF Stored, Content
  <2> QED BY <1>1, <2>1, <2>5 DEF AcceptedIsStored
<1>5. ASSUME NEW w \in Worker,
             Get(w) \/ Unhash(w) \/ ReturnMem(w) \/ AppendFree(w)
      PROVE  UNCHANGED <<tape, mess, handled>>
  BY <1>5 DEF Get, Unhash, ReturnMem, AppendFree, storeVars
<1>6. CASE Loader \/ DeqRestart
  BY <1>2, <1>6 DEF Loader, Receive, Idle, ScanTape, OpenScanMess, ScanMess,
     Query, Test, TakeMem, Pop, Read, PutToUsed, AddToHash, DeqRestart, storeVars
<1> QED BY <1>2, <1>3, <1>4, <1>5, <1>6 DEF DeqNext, Work

\* Each node is settled on its mail, as long as no restart of the smtp process
\* gives out the flush ID of a file that a node may still stand for.
THEOREM NodesSettled ==
  ASSUME MaxEnqRestarts = 0
  PROVE  Spec => []CustodyInv
<1>1. Init => CustodyInv
  BY DEF Init, DeqInit, CustodyInv, ServedInv, Live, OnUsedList, HeldAt
<1>2. TypeInv /\ TypeInv' /\ NodesAccounted /\ FilesInv /\ FilesInv' /\ WholeInv
        /\ WindowInv /\ CustodyInv /\ [Next]_vars => CustodyInv'
  BY CustodyStep
<1> QED BY <1>1, <1>2, TypeCorrect, NodesNeverLost, FilesHaveOwners,
           FilesSettle, NodesFit, PTL DEF Spec

\* No accepted mail is lost, whatever becomes of the keys and whatever dies on
\* the delivery side: a full hash table, a key added too late, a mail handled
\* twice cost the mail nothing.
THEOREM AcceptedNeverLostInOneLife ==
  ASSUME MaxEnqRestarts = 0
  PROVE  Spec => []AcceptedIsStored
<1>1. Init => AcceptedIsStored
  BY StoreAssumption DEF Init, EnqInit, AcceptedIsStored, Saved
<1>2. TypeInv /\ FilesInv /\ WindowInv /\ CustodyInv /\ AcceptedIsStored
        /\ [Next]_vars => AcceptedIsStored'
  <2> SUFFICES ASSUME TypeInv, FilesInv, WindowInv, CustodyInv,
                      AcceptedIsStored, [Next]_vars
               PROVE  AcceptedIsStored'
    OBVIOUS
  <2>1. CASE UNCHANGED vars
    BY <2>1 DEF vars, storeVars, enqVars, deqVars, AcceptedIsStored, Saved,
                Stored, Content
  <2> QED BY <2>1, EnqStoredStep, CustodyStoredStep DEF Next, Enqueue, Dequeue
<1> QED BY <1>1, <1>2, TypeCorrect, FilesHaveOwners, NodesFit, NodesSettled,
           PTL DEF Spec
=============================================================================
