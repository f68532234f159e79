\* Two file mails and one restart of the smtp process: a flush ID that is given
\* out again while a notice for the old file is still queued.
SPECIFICATION Spec
CONSTANTS
  m1 = m1  m2 = m2  m3 = m3
  n1 = n1  n2 = n2  n3 = n3
  w1 = w1  w2 = w2
  Mail = {m1, m2}
  NoMail = NoMail
  Incomplete = Incomplete
  TapeUnits = 1
  MaxID = 3
  MsgCap = 1
  Small = {}
  Overlong = {}
  MaxEnqRestarts = 1
  Worker = {w1}
  Node = {n1, n2}
  NoNode = NoNode
  MaxMem = 1
  Units <- MCOneUnit
  MaxDeqRestarts = 0
CHECK_DEADLOCK FALSE
INVARIANTS
  MailsReadWhole
