\* One mail and one thread, no mishap: a file that is finished between its stat
\* and its read.
SPECIFICATION Spec
CONSTANTS
  Mail = {m1}
  NoMsg = NoMsg
  NoFile = NoFile
  Thread = {t1}
  First = {t1}
  MaxNotServed = 1
  FreeNum = 2
  Retries = 2
  MaxMessID = 1
  MaxMishaps = 0
INVARIANTS
  MailsSentWhole
