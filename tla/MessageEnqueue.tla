--------------------------- MODULE MessageEnqueue ---------------------------
(***************************************************************************)
(* The writing side of the mail queue, in the smtp process: the contexts   *)
(* hand mails (or, for large ones, parts of mails) to the flusher, whose   *)
(* single plugin thread saves each one in a tape block or in a mess file,  *)
(* sends a notice and feeds the result back to the waiting context, which  *)
(* answers the client.                                                     *)
(***************************************************************************)
EXTENDS MailStore

CONSTANTS
  Small,           \* mails shorter than 64K: candidates for a tape block
  Overlong,        \* small mails that turn out not to fit in a block
  MaxEnqRestarts   \* bound: restarts of the smtp process

ASSUME EnqueueAssumption ==
  /\ Small \subseteq Mail
  /\ Overlong \subseteq Small
  /\ MaxEnqRestarts \in Nat

VARIABLES
  current_ID,    \* the last flush ID given out
  flush_queue,   \* entities waiting for the flushing thread
  flush_ID,      \* flush_ID[m]: the ID of m's context, 0 when it has none
  flush_ptr,     \* the mails whose mess file is open
  flush_action,  \* flush_action[m]: what the context last asked for
  client,        \* client[m]: how far the client that sends m has come
  fpc,           \* program counter of the flushing thread
  fmail,         \* the mail it works on
  fslot,         \* the slot it writes, or the block it looks at
  fresult,       \* flush_result
  body_read,     \* mails whose stream a failed tape save has used up
  enq_restarts   \* restarts so far

enqVars == <<current_ID, flush_queue, flush_ID, flush_ptr, flush_action,
             client, fpc, fmail, fslot, fresult, body_read, enq_restarts>>

EnqTypeOK ==
  /\ current_ID \in 0 .. MaxID
  /\ flush_queue \in Seq(Mail)
  /\ flush_ID \in [Mail -> 0 .. MaxID]
  /\ flush_ptr \subseteq Mail
  /\ flush_action \in [Mail -> {"none", "part", "whole"}]
  /\ client \in
       [Mail -> {"composing", "flushing", "accepted", "refused", "dropped"}]
  /\ fpc \in {"idle", "find", "tape", "open", "body", "notify", "feedback"}
  /\ fmail \in Mail \cup {NoMail}
  /\ fslot \in Slot \cup {NoSlot}
  /\ fresult \in {"none", "ok", "fail"}
  /\ body_read \subseteq Mail
  /\ enq_restarts \in 0 .. MaxEnqRestarts

EnqInit ==
  /\ current_ID = 0
  /\ flush_queue = <<>>
  /\ flush_ID = [m \in Mail |-> 0]
  /\ flush_ptr = {}
  /\ flush_action = [m \in Mail |-> "none"]
  /\ client = [m \in Mail |-> "composing"]
  /\ fpc = "idle"
  /\ fmail = NoMail
  /\ fslot = NoSlot
  /\ fresult = "none"
  /\ body_read = {}
  /\ enq_restarts = 0

-----------------------------------------------------------------------------
(* The contexts.                                                           *)

\* flusher_put_to_queue: the context gets a flush ID the first time, and
\* sleeps until it is fed back.  current_ID < MaxID is the bound.
PutToQueue(m, action) ==
  /\ client[m] = "composing"
  /\ action = "part" => m \notin Small
  /\ \/ /\ flush_ID[m] = 0
        /\ current_ID < MaxID
        /\ current_ID' = current_ID + 1
        /\ flush_ID' = [flush_ID EXCEPT ![m] = current_ID + 1]
     \/ /\ flush_ID[m] # 0
        /\ UNCHANGED <<current_ID, flush_ID>>
  /\ flush_action' = [flush_action EXCEPT ![m] = action]
  /\ flush_queue' = Append(flush_queue, m)
  /\ client' = [client EXCEPT ![m] = "flushing"]
  /\ UNCHANGED <<flush_ptr, fpc, fmail, fslot, fresult, body_read,
                 enq_restarts, storeVars>>

\* The connection ends, or the mail is rejected, after part of it has been
\* flushed: message_enqueue_cancel removes the unfinished file.
Cancel(m) ==
  /\ client[m] = "composing"
  /\ flush_ID[m] # 0
  /\ mess' = [mess EXCEPT ![flush_ID[m]] = NoMail]
  /\ flush_ptr' = flush_ptr \ {m}
  /\ flush_ID' = [flush_ID EXCEPT ![m] = 0]
  /\ client' = [client EXCEPT ![m] = "dropped"]
  /\ UNCHANGED <<current_ID, flush_queue, flush_action, fpc, fmail, fslot,
                 fresult, body_read, enq_restarts, tape, msgq>>

-----------------------------------------------------------------------------
(* The flushing thread.                                                    *)

\* Mutant: the length word is not looked at.
AllBlocks == Pos

FreeBlocks == {p \in Pos : tape[p] = NoMail}

\* get_from_queue, then the choice between tape (g_with_tape) and mess.
Take ==
  /\ fpc = "idle"
  /\ flush_queue # <<>>
  /\ LET m == Head(flush_queue)
         fits == flush_action[m] = "whole" /\ m \in Small /\ Pos # {}
     IN  /\ fmail' = m
         /\ \/ /\ m \notin flush_ptr
               /\ fits
               /\ fpc' = "find"
               /\ fslot' = Block(0)
            \/ /\ ~ (m \notin flush_ptr /\ fits)
               /\ fpc' = IF m \in flush_ptr THEN "body" ELSE "open"
               /\ fslot' = fslot
  /\ flush_queue' = Tail(flush_queue)
  /\ UNCHANGED <<current_ID, flush_ID, flush_ptr, flush_action, client,
                 fresult, body_read, enq_restarts, storeVars>>

\* Block by block, while the delivery process frees some.  The search always starts
\* at block 0: line 487 assigns g_tape_units to g_last_pos where it means to
\* compare, and then resets it.
FindBlock ==
  /\ fpc = "find"
  /\ \/ /\ fslot.at \in FreeBlocks
        /\ fpc' = "tape"
        /\ UNCHANGED fslot
     \/ /\ fslot.at \notin FreeBlocks
        /\ fslot.at + 1 \in Pos
        /\ fslot' = Block(fslot.at + 1)
        /\ UNCHANGED fpc
     \/ /\ fslot.at \notin FreeBlocks
        /\ fslot.at + 1 \notin Pos
        /\ fpc' = "open"
        /\ UNCHANGED fslot
  /\ UNCHANGED <<current_ID, flush_queue, flush_ID, flush_ptr, flush_action,
                 client, fmail, fresult, body_read, enq_restarts, storeVars>>

\* The mail is copied behind the length word, which is written last.  When
\* the recipients do not fit (-4), or the last line has no end (-3), the copy
\* is given up, but only after the stream has been read to its end.
WriteBlock ==
  /\ fpc = "tape"
  /\ \/ /\ fmail \notin Overlong
        /\ tape' = [tape EXCEPT ![fslot.at] = fmail]
        /\ fpc' = "notify"
        /\ UNCHANGED body_read
     \/ /\ fmail \in Overlong
        /\ body_read' = body_read \cup {fmail}
        /\ fpc' = "open"
        /\ UNCHANGED tape
  /\ UNCHANGED <<current_ID, flush_queue, flush_ID, flush_ptr, flush_action,
                 client, fmail, fslot, fresult, enq_restarts, mess, msgq>>

\* fopen(name, "w") creates or truncates the file; a zero length word goes
\* in first.
OpenFile ==
  /\ fpc = "open"
  /\ mess' = [mess EXCEPT ![flush_ID[fmail]] = Incomplete]
  /\ flush_ptr' = flush_ptr \cup {fmail}
  /\ fpc' = "body"
  /\ UNCHANGED <<current_ID, flush_queue, flush_ID, flush_action, client,
                 fmail, fslot, fresult, body_read, enq_restarts, tape, msgq>>

\* Mutant: the error path forgets the feedback.
OpenFailsSilently ==
  /\ fpc = "open"
  /\ fpc' = "idle"
  /\ fmail' = NoMail
  /\ UNCHANGED <<current_ID, flush_queue, flush_ID, flush_ptr, flush_action,
                 client, fslot, fresult, body_read, enq_restarts, storeVars>>

OpenFails ==
  /\ fpc = "open"
  /\ fresult' = "fail"
  /\ fpc' = "feedback"
  /\ UNCHANGED <<current_ID, flush_queue, flush_ID, flush_ptr, flush_action,
                 client, fmail, fslot, body_read, enq_restarts, storeVars>>

\* A part of a mail: the file stays open, its length word zero.
WritePart ==
  /\ fpc = "body"
  /\ flush_action[fmail] = "part"
  /\ fresult' = "ok"
  /\ fpc' = "feedback"
  /\ UNCHANGED <<current_ID, flush_queue, flush_ID, flush_ptr, flush_action,
                 client, fmail, fslot, body_read, enq_restarts, storeVars>>

\* The rest of a mail: envelope, then the length word, then fclose.
WriteWhole ==
  /\ fpc = "body"
  /\ flush_action[fmail] = "whole"
  /\ mess' = [mess EXCEPT ![flush_ID[fmail]] = fmail]
  /\ flush_ptr' = flush_ptr \ {fmail}
  /\ fslot' = File(flush_ID[fmail])
  /\ fpc' = "notify"
  /\ UNCHANGED <<current_ID, flush_queue, flush_ID, flush_action, client,
                 fmail, fresult, body_read, enq_restarts, tape, msgq>>

\* REMOVE_MESS: a short write anywhere.
WriteFails ==
  /\ fpc = "body"
  /\ mess' = [mess EXCEPT ![flush_ID[fmail]] = NoMail]
  /\ flush_ptr' = flush_ptr \ {fmail}
  /\ fresult' = "fail"
  /\ fpc' = "feedback"
  /\ UNCHANGED <<current_ID, flush_queue, flush_ID, flush_action, client,
                 fmail, fslot, body_read, enq_restarts, tape, msgq>>

Notify ==
  /\ fpc = "notify"
  /\ SendNotice(fslot)
  /\ fresult' = "ok"
  /\ fpc' = "feedback"
  /\ UNCHANGED <<current_ID, flush_queue, flush_ID, flush_ptr, flush_action,
                 client, fmail, fslot, body_read, enq_restarts, tape, mess>>

\* feedback_entity turns the context, which answers 250 or 451 and clears
\* its flusher record, or goes on reading after a part.
Feedback ==
  /\ fpc = "feedback"
  /\ \/ /\ fresult = "ok"
        /\ flush_action[fmail] = "part"
        /\ client' = [client EXCEPT ![fmail] = "composing"]
        /\ UNCHANGED <<flush_ID, flush_action>>
     \/ /\ fresult = "fail" \/ flush_action[fmail] = "whole"
        /\ client' = [client EXCEPT ![fmail] =
                        IF fresult = "ok" THEN "accepted" ELSE "refused"]
        /\ flush_ID' = [flush_ID EXCEPT ![fmail] = 0]
        /\ flush_action' = [flush_action EXCEPT ![fmail] = "none"]
  /\ fpc' = "idle"
  /\ fmail' = NoMail
  /\ fslot' = NoSlot
  /\ fresult' = "none"
  /\ UNCHANGED <<current_ID, flush_queue, flush_ptr, body_read, enq_restarts,
                 storeVars>>

-----------------------------------------------------------------------------
(* The smtp process dies and is started again.                             *)

\* Mutants: a restart that does not look for files, and one that takes every
\* file for an unfinished one.
NoIDs   == {}
FileIDs == {i \in ID : mess[i] # NoMail}

CompleteIDs   == {i \in ID : mess[i] \in Mail}
IncompleteIDs == {i \in ID : mess[i] = Incomplete}

\* The flush IDs found in the tape.  A block is read with the layout of an
\* int length word, but written with a size_t one, so that on a 64-bit build
\* the number found is made of the last bytes of the mail: any number.
TapeMax == IF FreeBlocks = Pos THEN {0} ELSE 0 .. MaxID

\* retrieve_max_ID: the next ID follows the largest one found.  A file with
\* a zero length word is removed when its ID is larger than every ID seen
\* before it, and readdir gives the files in any order; a file whose length
\* word has not even left stdio's buffer is empty, and stays.
EnqRestart ==
  /\ enq_restarts < MaxEnqRestarts
  /\ \E t \in TapeMax :
       /\ current_ID' \in CompleteIDs \cup {t}
       /\ \A i \in CompleteIDs \cup {t} : i <= current_ID'
       /\ \E gone \in SUBSET {i \in IncompleteIDs : i > t} :
            mess' = [i \in ID |-> IF i \in gone THEN NoMail ELSE mess[i]]
  /\ flush_queue' = <<>>
  /\ flush_ID' = [m \in Mail |-> 0]
  /\ flush_ptr' = {}
  /\ flush_action' = [m \in Mail |-> "none"]
  /\ client' = [m \in Mail |->
       IF client[m] = "flushing" \/ flush_ID[m] # 0 THEN "dropped"
       ELSE client[m]]
  /\ fpc' = "idle"
  /\ fmail' = NoMail
  /\ fslot' = NoSlot
  /\ fresult' = "none"
  /\ body_read' = body_read
  /\ enq_restarts' = enq_restarts + 1
  /\ UNCHANGED <<tape, msgq>>

-----------------------------------------------------------------------------
FlushThread == \/ Take \/ FindBlock \/ WriteBlock \/ OpenFile \/ OpenFails
               \/ WritePart \/ WriteWhole \/ WriteFails \/ Notify \/ Feedback

Clients == \E m \in Mail :
  \/ \E action \in {"part", "whole"} : PutToQueue(m, action)
  \/ Cancel(m)

EnqNext == Clients \/ FlushThread \/ EnqRestart

\* A mail the queue has taken over: its client has been told so, or will be.
Saved(m) ==
  \/ client[m] = "accepted"
  \/ /\ fmail = m
     /\ \/ fpc = "notify"
        \/ fpc = "feedback" /\ fresult = "ok" /\ flush_action[m] = "whole"
=============================================================================
