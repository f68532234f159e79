------------------------------ MODULE MailStore ------------------------------
(***************************************************************************)
(* The part of the MTA's mail queue that two processes share: the smtp     *)
(* process (flusher plugin message_enqueue) writes it, the delivery        *)
(* process (message_dequeue) reads and clears it, and it outlives both.    *)
(*                                                                         *)
(*  - the tape: a shared memory segment of TapeUnits blocks of 128K.  The  *)
(*    first word of a block is the mail's length; zero means free.         *)
(*  - the mess directory: one file per flush ID.  A file whose first word  *)
(*    is zero is not complete yet.                                         *)
(*  - the System V message queue, which only says where a new mail is.     *)
(*                                                                         *)
(* A mail is a value; what a block or a file holds is the mail.            *)
(***************************************************************************)
EXTENDS Naturals, Sequences, FiniteSets

CONSTANTS
  Mail,        \* the mails clients hand to the smtp process
  NoMail,      \* an empty block, or a file that does not exist
  Incomplete,  \* a mess file whose length word is still zero
  TapeUnits,   \* blocks of the tape
  MaxID,       \* bound: the largest flush ID a behaviour uses
  MsgCap       \* notices the kernel queue takes before msgsnd fails

ASSUME StoreAssumption ==
  /\ NoMail \notin Mail
  /\ Incomplete \notin Mail
  /\ NoMail # Incomplete
  /\ TapeUnits \in Nat
  /\ MaxID \in Nat
  /\ MsgCap \in Nat

VARIABLES
  tape,   \* tape[p]: the mail in block p, NoMail when its length word is 0
  mess,   \* mess[i]: the file mess/i
  msgq    \* the notices sent and not yet received

storeVars == <<tape, mess, msgq>>

Pos == 0 .. TapeUnits - 1
ID  == 1 .. MaxID

\* Where a mail is stored; also the body of a notice (MSG_BUFF).
Slot == [type : {"tape"}, at : Pos] \cup [type : {"mess"}, at : ID]

NoSlot   == [type |-> "none", at |-> 0]
Block(p) == [type |-> "tape", at |-> p]
File(i)  == [type |-> "mess", at |-> i]

\* What slot s holds now.
Content(s) == IF s.type = "tape" THEN tape[s.at] ELSE mess[s.at]

\* Some slot holds the whole of m.
Stored(m) == \E s \in Slot : Content(s) = m

StoreTypeOK ==
  /\ tape \in [Pos -> Mail \cup {NoMail}]
  /\ mess \in [ID -> Mail \cup {NoMail, Incomplete}]
  /\ msgq \in Seq(Slot)
  /\ Len(msgq) <= MsgCap

StoreInit ==
  /\ tape = [p \in Pos |-> NoMail]
  /\ mess = [i \in ID |-> NoMail]
  /\ msgq = <<>>

\* msgsnd(.., IPC_NOWAIT): a full queue refuses the notice and the caller
\* does not look at the result.
SendNotice(s) ==
  msgq' = IF Len(msgq) < MsgCap THEN Append(msgq, s) ELSE msgq

\* Mutant: the mail stays where it is.
EraseNothing(s) == UNCHANGED <<tape, mess>>

\* *pstart = 0, or remove(name).
EraseSlot(s) ==
  IF s.type = "tape"
  THEN tape' = [tape EXCEPT ![s.at] = NoMail] /\ UNCHANGED mess
  ELSE mess' = [mess EXCEPT ![s.at] = NoMail] /\ UNCHANGED tape
=============================================================================
