----------------------------- MODULE MailCustody -----------------------------
(***************************************************************************)
(* What the delivery process promises for the mails in the mail queue,     *)
(* whatever threads, contexts and files it does it with.  A mail leaves    *)
(* the mail queue for the cache queue or for an end; it leaves the cache   *)
(* queue for an end, only; until the first mishap (the process dies, or a  *)
(* file cannot be removed) it goes into the cache queue once and has one   *)
(* end; a death ends a mail only where the cache queue is about to bounce  *)
(* it, and only the cache queue mangles one.                               *)
(***************************************************************************)
EXTENDS Naturals

CONSTANT Mail

VARIABLES
  queued,     \* the mails in the mail queue
  cached,     \* the mails in the cache queue, or in its thread's hands
  delivered, bounced, given_up,   \* the ends of a mail
  mangled,    \* its end when it has been read cut
  dropped,    \* the end a death makes
  mishaps     \* how many there have been

outcomes == <<delivered, bounced, given_up, mangled>>
vars == <<queued, cached, outcomes, dropped, mishaps>>

Ended == delivered \cup bounced \cup given_up \cup mangled

Init ==
  /\ queued = Mail /\ cached = {}
  /\ delivered = {} /\ bounced = {} /\ given_up = {} /\ mangled = {}
  /\ dropped = {}
  /\ mishaps = 0

\* The hook saves it for later.
Cache(m) ==
  /\ m \in queued
  /\ mishaps = 0 => m \notin cached \cup Ended
  /\ cached' = cached \cup {m}
  /\ UNCHANGED <<queued, outcomes, dropped, mishaps>>

\* Its end, by the hook or by the cache queue.
Open(m) == m \in queued \cup cached /\ (mishaps = 0 => m \notin Ended)

Deliver(m) ==
  /\ Open(m)
  /\ delivered' = delivered \cup {m}
  /\ UNCHANGED <<queued, cached, bounced, given_up, mangled, dropped, mishaps>>

Refuse(m) ==
  /\ Open(m)
  /\ \/ bounced' = bounced \cup {m} /\ UNCHANGED given_up
     \/ given_up' = given_up \cup {m} /\ UNCHANGED bounced
  /\ cached' \in {cached, cached \ {m}}
  /\ UNCHANGED <<queued, delivered, mangled, dropped, mishaps>>

\* What the cache queue has read of it is taken for the mail.
Mangle(m) ==
  /\ m \in cached /\ Open(m)
  /\ mangled' = mangled \cup {m}
  /\ cached' \in {cached, cached \ {m}}
  /\ UNCHANGED <<queued, delivered, bounced, given_up, dropped, mishaps>>

\* The cache queue's file of a mail that has been sent is removed.
Uncache(m) ==
  /\ m \in cached /\ m \in delivered \cup mangled
  /\ cached' = cached \ {m}
  /\ UNCHANGED <<queued, outcomes, dropped, mishaps>>

\* The transporter puts the mail back, and message_dequeue erases it.
Erase(m) ==
  /\ m \in queued /\ m \in cached \cup Ended \cup dropped
  /\ queued' = queued \ {m}
  /\ UNCHANGED <<cached, outcomes, dropped, mishaps>>

Mishap ==
  /\ mishaps' = mishaps + 1
  /\ \/ UNCHANGED <<cached, dropped>>
     \/ \E m \in cached : /\ dropped' = dropped \cup {m}
                          /\ cached' \in {cached, cached \ {m}}
  /\ UNCHANGED <<queued, outcomes>>

Next ==
  \/ \E m \in Mail : \/ Cache(m) \/ Deliver(m) \/ Refuse(m) \/ Mangle(m)
                     \/ Uncache(m) \/ Erase(m)
  \/ Mishap

Spec == Init /\ [][Next]_vars
=============================================================================
