\* Two small mails, one of which does not fit in a block.
SPECIFICATION Spec
CONSTANTS
  m1 = m1  m2 = m2  m3 = m3
  n1 = n1  n2 = n2  n3 = n3
  w1 = w1  w2 = w2
  Mail = {m1, m2}
  NoMail = NoMail
  Incomplete = Incomplete
  TapeUnits = 1
  MaxID = 3
  MsgCap = 1
  Small = {m1, m2}
  Overlong = {m2}
  MaxEnqRestarts = 0
  Worker = {w1}
  Node = {n1, n2}
  NoNode = NoNode
  MaxMem = 1
  Units <- MCUnits
  MaxDeqRestarts = 0
CHECK_DEADLOCK FALSE
INVARIANTS
  AcceptedWhole
