\* Two mails that are files; each process dies at most once, anywhere,
\* and starts again.
SPECIFICATION Spec
CONSTANTS
  m1 = m1  m2 = m2  m3 = m3
  n1 = n1  n2 = n2  n3 = n3
  w1 = w1  w2 = w2
  Mail = {m1, m2}
  NoMail = NoMail
  Incomplete = Incomplete
  TapeUnits = 1
  MaxID = 3
  MsgCap = 1
  Small = {}
  Overlong = {}
  MaxEnqRestarts = 1
  Worker = {w1, w2}
  Node = {n1, n2}
  NoNode = NoNode
  MaxMem = 1
  Units <- MCUnits
  MaxDeqRestarts = 1
SYMMETRY MCSymmetry
CHECK_DEADLOCK FALSE
PROPERTIES
  KeepsPromise
