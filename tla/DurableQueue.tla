---------------------------- MODULE DurableQueue ----------------------------
(***************************************************************************)
(* What the mail queue promises, whatever it is made of.  A mail is stored *)
(* once; it leaves the store only after the hooks have been given it; they *)
(* are given it at most once in each life of the delivery process; and the *)
(* client is told 250 only for a mail that is stored or already handled.   *)
(***************************************************************************)
EXTENDS Naturals

CONSTANT Mail

VARIABLES
  stored,    \* the mails in the store
  accepted,  \* the mails whose client has been told 250
  handled,   \* handled[m]: how often the hooks were given m
  lives      \* how often the delivery process has been restarted

vars == <<stored, accepted, handled, lives>>

Init ==
  /\ stored = {}
  /\ accepted = {}
  /\ handled = [m \in Mail |-> 0]
  /\ lives = 0

Store(m) ==
  /\ m \notin stored
  /\ m \notin accepted
  /\ handled[m] = 0
  /\ stored' = stored \cup {m}
  /\ UNCHANGED <<accepted, handled, lives>>

Accept(m) ==
  /\ m \in stored \/ handled[m] > 0
  /\ accepted' = accepted \cup {m}
  /\ UNCHANGED <<stored, handled, lives>>

Handle(m) ==
  /\ m \in stored
  /\ handled[m] <= lives
  /\ handled' = [handled EXCEPT ![m] = @ + 1]
  /\ UNCHANGED <<stored, accepted, lives>>

Discard(m) ==
  /\ m \in stored
  /\ handled[m] > 0
  /\ stored' = stored \ {m}
  /\ UNCHANGED <<accepted, handled, lives>>

NewLife ==
  /\ lives' = lives + 1
  /\ UNCHANGED <<stored, accepted, handled>>

Next ==
  \/ \E m \in Mail : Store(m) \/ Accept(m) \/ Handle(m) \/ Discard(m)
  \/ NewLife

Spec == Init /\ [][Next]_vars
=============================================================================
