\* Two mails, a small one and one whose file takes all the memory there is for
\* file mails; each process dies at most once, anywhere,
\* and starts again.
SPECIFICATION Spec
CONSTANTS
  m1 = m1  m2 = m2  m3 = m3
  n1 = n1  n2 = n2  n3 = n3
  w1 = w1  w2 = w2
  Mail = {m1, m3}
  NoMail = NoMail
  Incomplete = Incomplete
  TapeUnits = 1
  MaxID = 3
  MsgCap = 1
  Small = {m1}
  Overlong = {}
  MaxEnqRestarts = 1
  Worker = {w1, w2}
  Node = {n1, n2, n3}
  NoNode = NoNode
  MaxMem = 2
  Units <- MCUnits
  MaxDeqRestarts = 1
SYMMETRY MCSymmetry
CHECK_DEADLOCK FALSE
PROPERTIES
  KeepsPromise
  FlushGoesOn
