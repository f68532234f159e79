----------------------------- MODULE MCDbEngine -------------------------------
(***************************************************************************)
(* Instances of DbEngine for TLC: two users and a populating thread, all   *)
(* of them after the one mailbox with a search folder.                     *)
(***************************************************************************)
EXTENDS DbEngine

CONSTANTS d1, u1, u2, p1

MCDir == {d1}
MCUser == {u1, u2}
MCPopulator == {p1}
MCThread == MCUser \cup MCPopulator
MCFolder == {"results"}
MCFolderDir == [f \in MCFolder |-> d1]
=============================================================================
