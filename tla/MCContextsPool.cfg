\* Two contexts, two workers; one thread of each other kind.
CONSTANTS
  Context = {c1, c2}
  Worker = {w1, w2}
  Listener = {l1}
  Caller = {k1}
  NoContext = NoContext
SPECIFICATION FairSpec
INVARIANTS
  TypeOK
  OnePlace
  TypeTells
  WaitingIsRegistered
  NoDeafContext
PROPERTIES
  IsScheduler
  ReadyIsServed
  WaitersAreServed
