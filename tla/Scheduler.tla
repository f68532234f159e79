------------------------------ MODULE Scheduler ------------------------------
(***************************************************************************)
(* What a server asks of the contexts pool: a context is free, being       *)
(* accepted by a listener, parked until something happens to it, runnable, *)
(* or running in one worker, and it moves between these in a fixed way.    *)
(***************************************************************************)
CONSTANTS Context, Worker

VARIABLE place   \* place[c]

Move(S, from, to) ==
  /\ S # {}
  /\ \A c \in S : place[c] = from
  /\ place' = [c \in Context |-> IF c \in S THEN to ELSE place[c]]

Init == place = [c \in Context |-> "free"]

\* A listener takes a context for a connection, and parks it or puts it back.
Accept(c) ==
  \/ Move({c}, "free", "accepted")
  \/ Move({c}, "accepted", "parked")
  \/ Move({c}, "accepted", "free")

\* Data, a timeout, a signal or a wake-up; a timeout may move several.
Rouse == \E S \in SUBSET Context : Move(S, "parked", "runnable")

\* A worker takes a context, and gives it back, parks it or ends it.
Run(c) ==
  \/ Move({c}, "runnable", "running")
  \/ \E to \in {"runnable", "parked", "free"} : Move({c}, "running", to)

Next == Rouse \/ \E c \in Context : Accept(c) \/ Run(c)

Spec == Init /\ [][Next]_place
=============================================================================
