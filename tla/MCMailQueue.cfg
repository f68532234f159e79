\* Three mails of one unit each, two of them small, for one tape block and the
\* memory of one file: as many nodes as the code allots, and mail for one more.
\* Two workers; no restarts.
SPECIFICATION Spec
CONSTANTS
  m1 = m1  m2 = m2  m3 = m3
  n1 = n1  n2 = n2  n3 = n3
  w1 = w1  w2 = w2
  Mail = {m1, m2, m3}
  NoMail = NoMail
  Incomplete = Incomplete
  TapeUnits = 1
  MaxID = 3
  MsgCap = 1
  Small = {m1, m2}
  Overlong = {}
  MaxEnqRestarts = 0
  Worker = {w1, w2}
  Node = {n1, n2}
  NoNode = NoNode
  MaxMem = 1
  Units <- MCOneUnit
  MaxDeqRestarts = 0
SYMMETRY MCSymmetry
CHECK_DEADLOCK FALSE
INVARIANTS
  TypeOK
  AcceptedIsStored
  NodeKeepsItsSlot
  OneNodePerSlot
  HandledOncePerLife
  NodesAccounted
  MemoryBounded
  MailsReadWhole
PROPERTIES
  OnlyTwoWindows
