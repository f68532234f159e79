--------------------------- MODULE MessageDequeue ---------------------------
(***************************************************************************)
(* The reading side of the mail queue, in the delivery process: a loader   *)
(* thread turns notices, and what an idle scan of the store finds, into    *)
(* MESSAGE nodes on the used list; the transporter's threads take nodes    *)
(* from it, hand the mail to the hooks and put the node back, which is     *)
(* also what erases the mail from the store.                               *)
(*                                                                         *)
(* There are four locks (free list, used list, hash tables, memory count)  *)
(* and no operation holds two of them: each critical section, and each     *)
(* access to the shared memory or the directory, is a step of its own.     *)
(***************************************************************************)
EXTENDS MailStore, Integers

CONSTANTS
  Worker,          \* threads of the transporter
  Node,            \* the MESSAGE structures: g_message_units of them
  NoNode,
  MaxMem,          \* g_max_memory, in units of 64K
  Units,           \* Units[m]: units of 64K that a mess file of m takes
  MaxDeqRestarts   \* bound: restarts of the delivery process

ASSUME DequeueAssumption ==
  /\ NoNode \notin Node
  /\ IsFiniteSet(Node)
  /\ MaxMem \in Nat
  /\ Cardinality(Node) = TapeUnits + MaxMem
  /\ Units \in [Mail -> 1 .. MaxMem]
  /\ MaxDeqRestarts \in Nat

VARIABLES
  free,         \* g_free_list; which node is taken makes no difference
  used,         \* g_used_list, in order
  node,         \* node[n]: the slot, the mail and the memory of node n
  hashed,       \* the keys of g_tape_hash and g_mess_hash
  current_mem,  \* g_current_mem, in units of 64K
  lpc,          \* program counter of the loader thread
  lslot,        \* the slot it is loading
  lsize,        \* the memory the file needs
  lseen,        \* the file as stat saw it, when it gave the size
  lnode,        \* the node it has taken
  lret,         \* where the load was called from
  scan_pos,     \* next block of the idle scan
  scan_mess,    \* the IDs the idle scan has still to look for
  cut,          \* mails read only as far as an older size said
  wpc,          \* wpc[w]: program counter of worker w
  wnode,        \* wnode[w]: the node it holds
  handled,      \* handled[m]: how often the hooks were given m
  deq_restarts  \* restarts so far

loaderVars ==
  <<lpc, lslot, lsize, lseen, lnode, lret, scan_pos, scan_mess, cut>>
workerVars == <<wpc, wnode>>
listVars   == <<free, used, node, hashed, current_mem>>
deqVars    == <<listVars, loaderVars, workerVars, handled, deq_restarts>>

\* int_hash_init(2*g_message_units + 1, ..) and (2*g_tape_units + 1, ..)
MessHashCap == 2 * (TapeUnits + MaxMem) + 1
TapeHashCap == 2 * TapeUnits + 1

FreshNode == [slot |-> NoSlot, mail |-> NoMail, size |-> 0]

DeqTypeOK ==
  /\ free \subseteq Node
  /\ used \in Seq(Node)
  /\ node \in [Node -> [slot : Slot \cup {NoSlot},
                        mail : Mail \cup {NoMail, Incomplete}, size : Nat]]
  /\ hashed \subseteq Slot
  /\ current_mem \in Int
  /\ lpc \in {"recv", "idle", "scan_tape", "scan_mess", "query", "test",
              "mem", "pop", "read", "put_used", "hash"}
  /\ lslot \in Slot \cup {NoSlot}
  /\ lsize \in Nat
  /\ lseen \in {"whole", "part"}
  /\ lnode \in Node \cup {NoNode}
  /\ lret \in {"recv", "scan_tape", "scan_mess"}
  /\ scan_pos \in 0 .. TapeUnits
  /\ scan_mess \subseteq ID
  /\ cut \subseteq Mail
  /\ wpc \in [Worker -> {"get", "serve", "erase", "unhash", "mem", "append"}]
  /\ wnode \in [Worker -> Node \cup {NoNode}]
  /\ handled \in [Mail -> Nat]
  /\ deq_restarts \in 0 .. MaxDeqRestarts

DeqInit ==
  /\ free = Node
  /\ used = <<>>
  /\ node = [n \in Node |-> FreshNode]
  /\ hashed = {}
  /\ current_mem = 0
  /\ lpc = "recv"
  /\ lslot = NoSlot
  /\ lsize = 0
  /\ lseen = "whole"
  /\ lnode = NoNode
  /\ lret = "recv"
  /\ scan_pos = 0
  /\ scan_mess = {}
  /\ cut = {}
  /\ wpc = [w \in Worker |-> "get"]
  /\ wnode = [w \in Worker |-> NoNode]
  /\ handled = [m \in Mail |-> 0]
  /\ deq_restarts = 0

-----------------------------------------------------------------------------
(* The loader: receiving notices.                                          *)

Receive ==
  /\ lpc = "recv"
  /\ \/ /\ msgq # <<>>
        /\ lslot' = Head(msgq)
        /\ msgq' = Tail(msgq)
        /\ lpc' = "query"
        /\ lret' = "recv"
     \/ /\ msgq = <<>>
        /\ lpc' = "idle"
        /\ UNCHANGED <<lslot, lret, msgq>>
  /\ UNCHANGED <<lsize, lseen, lnode, scan_pos, scan_mess, listVars,
                 workerVars, cut, handled, deq_restarts, tape, mess>>

\* Mutant: the store is never scanned.
IdleForEver ==
  /\ lpc = "idle"
  /\ lpc' = "recv"
  /\ UNCHANGED <<lslot, lsize, lseen, lnode, lret, scan_pos, scan_mess,
                 listVars, workerVars, cut, handled, deq_restarts, storeVars>>

\* After the pause: scan the store only when every node is on the free list.
Idle ==
  /\ lpc = "idle"
  /\ lpc' = IF free = Node THEN "scan_tape" ELSE "recv"
  /\ UNCHANGED <<lslot, lsize, lseen, lnode, lret, scan_pos, scan_mess,
                 listVars, workerVars, cut, handled, deq_restarts, storeVars>>

(* The idle scan.                                                          *)

ScanTape ==
  /\ lpc = "scan_tape"
  /\ scan_pos < TapeUnits
  /\ scan_pos' = scan_pos + 1
  /\ \/ /\ tape[scan_pos] # NoMail
        /\ lslot' = Block(scan_pos)
        /\ lret' = "scan_tape"
        /\ lpc' = "query"
     \/ /\ tape[scan_pos] = NoMail
        /\ UNCHANGED <<lslot, lret, lpc>>
  /\ UNCHANGED <<lsize, lseen, lnode, scan_mess, listVars, workerVars, cut,
                 handled, deq_restarts, storeVars>>

\* seekdir: readdir is to give every file that is there when it gets to it, and
\* may do so before or after a file that comes meanwhile is there.
OpenScanMess ==
  /\ lpc = "scan_tape"
  /\ scan_pos = TapeUnits
  /\ scan_mess' = ID
  /\ scan_pos' = 0
  /\ lpc' = "scan_mess"
  /\ UNCHANGED <<lslot, lsize, lseen, lnode, lret, listVars, workerVars, cut,
                 handled, deq_restarts, storeVars>>

\* Mutant: the length word of a file is not looked at.
ScanAnyMess ==
  /\ lpc = "scan_mess"
  /\ \/ /\ scan_mess = {} \/ current_mem = MaxMem
        /\ scan_mess' = {}
        /\ lpc' = "recv"
        /\ UNCHANGED <<lslot, lret>>
     \/ \E i \in scan_mess :
        /\ scan_mess' = scan_mess \ {i}
        /\ lslot' = File(i)
        /\ lret' = "scan_mess"
        /\ lpc' = "query"
  /\ UNCHANGED <<lsize, lseen, lnode, scan_pos, listVars, workerVars, cut,
                 handled, deq_restarts, storeVars>>

\* One directory entry, in any order; if there is a file, it is loaded when its
\* length word is not zero.  The scan ends early when the memory is used up.
ScanMess ==
  /\ lpc = "scan_mess"
  /\ \/ /\ scan_mess = {} \/ current_mem = MaxMem
        /\ scan_mess' = {}
        /\ lpc' = "recv"
        /\ UNCHANGED <<lslot, lret>>
     \/ /\ current_mem # MaxMem
        /\ \E i \in scan_mess :
             /\ scan_mess' = scan_mess \ {i}
             /\ \/ /\ mess[i] \in Mail
                   /\ lslot' = File(i)
                   /\ lret' = "scan_mess"
                   /\ lpc' = "query"
                \/ /\ mess[i] \notin Mail
                   /\ UNCHANGED <<lslot, lret, lpc>>
  /\ UNCHANGED <<lsize, lseen, lnode, scan_pos, listVars, workerVars, cut,
                 handled, deq_restarts, storeVars>>

-----------------------------------------------------------------------------
(* The loader: load_from_tape and load_from_mess.                          *)

\* return, to the notice loop or to the scan.
LoadReturns ==
  /\ lpc' = lret
  /\ lret' = "recv"
  /\ lslot' = NoSlot
  /\ lsize' = 0
  /\ lseen' = "whole"
  /\ lnode' = NoNode

\* Mutant: the hash table is not asked.
QueryBlind ==
  /\ lpc = "query"
  /\ lpc' = "test"
  /\ UNCHANGED <<lslot, lsize, lseen, lnode, lret, scan_pos, scan_mess,
                 listVars, workerVars, cut, handled, deq_restarts, storeVars>>

\* int_hash_query, under g_hash_mutex: a slot with a key is being handled.
Query ==
  /\ lpc = "query"
  /\ \/ /\ lslot \in hashed
        /\ LoadReturns
     \/ /\ lslot \notin hashed
        /\ lpc' = "test"
        /\ UNCHANGED <<lslot, lsize, lseen, lnode, lret>>
  /\ UNCHANGED <<scan_pos, scan_mess, listVars, workerVars, cut, handled,
                 deq_restarts, storeVars>>

\* Is there anything in the slot: the block's length word, or stat, whose
\* size is also how much will be read.  An unfinished file may have any size
\* so far.
Test ==
  /\ lpc = "test"
  /\ \/ /\ Content(lslot) = NoMail
        /\ LoadReturns
     \/ /\ Content(lslot) # NoMail
        /\ \/ /\ lslot.type = "tape"
              /\ lpc' = "pop"
              /\ lsize' = 0
           \/ /\ lslot.type = "mess"
              /\ lpc' = "mem"
              /\ lsize' \in IF Content(lslot) = Incomplete THEN 1 .. MaxMem
                            ELSE {Units[Content(lslot)]}
        /\ lseen' = IF Content(lslot) = Incomplete THEN "part" ELSE "whole"
        /\ UNCHANGED <<lslot, lnode, lret>>
  /\ UNCHANGED <<scan_pos, scan_mess, listVars, workerVars, cut, handled,
                 deq_restarts, storeVars>>

\* Mutant: the limit is not looked at.
TakeAnyMem ==
  /\ lpc = "mem"
  /\ current_mem' = current_mem + lsize
  /\ lpc' = "pop"
  /\ UNCHANGED <<lslot, lsize, lseen, lnode, lret, scan_pos, scan_mess, free,
                 used, node, hashed, workerVars, cut, handled, deq_restarts,
                 storeVars>>

\* get_from_free, first half, under g_mess_mutex.
TakeMem ==
  /\ lpc = "mem"
  /\ \/ /\ current_mem + lsize > MaxMem
        /\ LoadReturns
        /\ UNCHANGED current_mem
     \/ /\ current_mem + lsize <= MaxMem
        /\ current_mem' = current_mem + lsize
        /\ lpc' = "pop"
        /\ UNCHANGED <<lslot, lsize, lseen, lnode, lret>>
  /\ UNCHANGED <<scan_pos, scan_mess, free, used, node, hashed, workerVars,
                 cut, handled, deq_restarts, storeVars>>

\* Mutant: an empty free list is not noticed.
PopUnchecked ==
  /\ lpc = "pop"
  /\ \E n \in IF free = {} THEN {NoNode} ELSE free :
       /\ free' = free \ {n}
       /\ node' = [node EXCEPT ![n] =
                     [slot |-> lslot, mail |-> NoMail, size |-> lsize]]
       /\ lnode' = n
  /\ lpc' = "read"
  /\ UNCHANGED <<lslot, lsize, lseen, lret, scan_pos, scan_mess, used, hashed,
                 current_mem, workerVars, cut, handled, deq_restarts, storeVars>>

\* get_from_free, second half, under g_free_mutex.  With no node left the
\* load is given up, and the memory just taken is not given back.
Pop ==
  /\ lpc = "pop"
  /\ \/ /\ free = {}
        /\ LoadReturns
        /\ UNCHANGED <<free, node>>
     \/ \E n \in free :
        /\ free' = free \ {n}
        /\ node' = [node EXCEPT ![n] =
                      [slot |-> lslot, mail |-> NoMail, size |-> lsize]]
        /\ lnode' = n
        /\ lpc' = "read"
        /\ UNCHANGED <<lslot, lsize, lseen, lret>>
  /\ UNCHANGED <<scan_pos, scan_mess, used, hashed, current_mem, workerVars,
                 cut, handled, deq_restarts, storeVars>>

\* Point into the block, or read as much of the file as stat said.  A file
\* that is gone, or whose length word is zero, puts the node back (put_to_free,
\* whose two critical sections are one step here: only the loader takes memory
\* and nodes).  The length word does not tell that the file has grown since.
Read ==
  /\ lpc = "read"
  /\ \/ /\ lslot.type = "mess" => mess[lslot.at] \in Mail
        /\ node' = [node EXCEPT ![lnode].mail = Content(lslot)]
        /\ lpc' = "put_used"
        /\ cut' = cut \cup {m \in Mail : lseen = "part" /\ Content(lslot) = m}
        /\ UNCHANGED <<free, current_mem, lslot, lsize, lseen, lnode, lret>>
     \/ /\ lslot.type = "mess"
        /\ mess[lslot.at] \notin Mail
        /\ current_mem' = current_mem - lsize
        /\ free' = free \cup {lnode}
        /\ node' = [node EXCEPT ![lnode] = FreshNode]
        /\ LoadReturns
        /\ UNCHANGED cut
  /\ UNCHANGED <<scan_pos, scan_mess, used, hashed, workerVars, handled,
                 deq_restarts, storeVars>>

\* put_to_used, under g_used_mutex; from here a worker may have the node.
PutToUsed ==
  /\ lpc = "put_used"
  /\ used' = Append(used, lnode)
  /\ lpc' = "hash"
  /\ UNCHANGED <<lslot, lsize, lseen, lnode, lret, scan_pos, scan_mess, free,
                 node, hashed, current_mem, workerVars, cut, handled,
                 deq_restarts, storeVars>>

\* int_hash_add refuses a key when the table is full.
HasRoom(s) ==
  Cardinality({k \in hashed : k.type = s.type})
    < (IF s.type = "mess" THEN MessHashCap ELSE TapeHashCap)

AddToHash ==
  /\ lpc = "hash"
  /\ hashed' = IF HasRoom(lslot) THEN hashed \cup {lslot} ELSE hashed
  /\ LoadReturns
  /\ UNCHANGED <<scan_pos, scan_mess, free, used, node, current_mem,
                 workerVars, cut, handled, deq_restarts, storeVars>>

Loader == \/ Receive \/ Idle \/ ScanTape \/ OpenScanMess \/ ScanMess
          \/ Query \/ Test \/ TakeMem \/ Pop \/ Read \/ PutToUsed \/ AddToHash

-----------------------------------------------------------------------------
(* The workers: a transporter thread with a message.                       *)

\* message_dequeue_get, under g_used_mutex.  The transporter's thread that calls it
\* may as well be asleep (Transporter).
Get(w) ==
  /\ wpc[w] = "get"
  /\ used # <<>>
  /\ wnode' = [wnode EXCEPT ![w] = Head(used)]
  /\ used' = Tail(used)
  /\ wpc' = [wpc EXCEPT ![w] = "serve"]
  /\ UNCHANGED <<free, node, hashed, current_mem, loaderVars, handled,
                 deq_restarts, storeVars>>

\* pass_mpc_hooks: the mail is delivered, handed on, or kept in save/ when
\* no hook takes it.  Either way the queue is done with it.
Serve(w) ==
  /\ wpc[w] = "serve"
  /\ handled' = [m \in Mail |->
       IF m = node[wnode[w]].mail THEN handled[m] + 1 ELSE handled[m]]
  /\ wpc' = [wpc EXCEPT ![w] = "erase"]
  /\ UNCHANGED <<listVars, wnode, loaderVars, deq_restarts, storeVars>>

\* message_dequeue_put: first the store,
Erase(w) ==
  /\ wpc[w] = "erase"
  /\ EraseSlot(node[wnode[w]].slot)
  /\ wpc' = [wpc EXCEPT ![w] = "unhash"]
  /\ UNCHANGED <<listVars, wnode, loaderVars, handled, deq_restarts, msgq>>

\* then the key, under g_hash_mutex,
Unhash(w) ==
  /\ wpc[w] = "unhash"
  /\ hashed' = hashed \ {node[wnode[w]].slot}
  /\ wpc' = [wpc EXCEPT ![w] =
       IF node[wnode[w]].slot.type = "mess" THEN "mem" ELSE "append"]
  /\ UNCHANGED <<free, used, node, current_mem, wnode, loaderVars, handled,
                 deq_restarts, storeVars>>

\* then, in put_to_free, the memory, under g_mess_mutex,
ReturnMem(w) ==
  /\ wpc[w] = "mem"
  /\ current_mem' = current_mem - node[wnode[w]].size
  /\ wpc' = [wpc EXCEPT ![w] = "append"]
  /\ UNCHANGED <<free, used, node, hashed, wnode, loaderVars, handled,
                 deq_restarts, storeVars>>

\* Mutant: the node is not put on the free list.
AppendNothing(w) ==
  /\ wpc[w] = "append"
  /\ wnode' = [wnode EXCEPT ![w] = NoNode]
  /\ wpc' = [wpc EXCEPT ![w] = "get"]
  /\ UNCHANGED <<listVars, loaderVars, handled, deq_restarts, storeVars>>

\* and the node, under g_free_mutex.  What a free node still holds is not
\* read again.
AppendFree(w) ==
  /\ wpc[w] = "append"
  /\ free' = free \cup {wnode[w]}
  /\ node' = [node EXCEPT ![wnode[w]] = FreshNode]
  /\ wnode' = [wnode EXCEPT ![w] = NoNode]
  /\ wpc' = [wpc EXCEPT ![w] = "get"]
  /\ UNCHANGED <<used, hashed, current_mem, loaderVars, handled, deq_restarts,
                 storeVars>>

Work(w) == \/ Get(w) \/ Serve(w) \/ Erase(w) \/ Unhash(w) \/ ReturnMem(w)
           \/ AppendFree(w)

-----------------------------------------------------------------------------
\* The delivery process dies at any point and is started again: its memory
\* is gone, the store is as it was.
DeqRestart ==
  /\ deq_restarts < MaxDeqRestarts
  /\ free' = Node
  /\ used' = <<>>
  /\ node' = [n \in Node |-> FreshNode]
  /\ hashed' = {}
  /\ current_mem' = 0
  /\ lpc' = "recv"
  /\ lslot' = NoSlot
  /\ lsize' = 0
  /\ lseen' = "whole"
  /\ lnode' = NoNode
  /\ lret' = "recv"
  /\ scan_pos' = 0
  /\ scan_mess' = {}
  /\ wpc' = [w \in Worker |-> "get"]
  /\ wnode' = [w \in Worker |-> NoNode]
  /\ deq_restarts' = deq_restarts + 1
  /\ UNCHANGED <<cut, handled, storeVars>>

DeqNext == Loader \/ (\E w \in Worker : Work(w)) \/ DeqRestart

-----------------------------------------------------------------------------
(* Where the nodes are.                                                    *)

\* The loader's node, until it is on the used list.
Loading == IF lpc \in {"read", "put_used"} THEN {lnode} ELSE {}

OnUsedList == {used[i] : i \in 1 .. Len(used)}

\* The nodes that workers at one of these steps hold.
HeldAt(steps) == {wnode[w] : w \in {v \in Worker : wpc[v] \in steps}}
Held == HeldAt({"serve", "erase", "unhash", "mem", "append"})

\* Nodes a worker has, or may take, to handle a mail still in the store.
Live == OnUsedList \cup HeldAt({"serve", "erase"})

\* Nodes whose key is, or is about to be, in the hash table.
Keyed == OnUsedList \cup HeldAt({"serve", "erase", "unhash"})

\* Nodes whose memory is counted.
Counted == Loading \cup OnUsedList
             \cup HeldAt({"serve", "erase", "unhash", "mem"})
=============================================================================
