----------------------------- MODULE MCMailQueue -----------------------------
(* Small instances of the mail queue for TLC.                              *)
EXTENDS MailQueue, TLC

CONSTANTS m1, m2, m3, n1, n2, n3, w1, w2

\* Files of one unit of 64K each, but m3's of two.
MCUnits == [m \in Mail |-> IF m = m3 THEN 2 ELSE 1]
MCOneUnit == [m \in Mail |-> 1]

MCSymmetry == Permutations(Node) \cup Permutations(Worker)
=============================================================================
