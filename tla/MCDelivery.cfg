\* One mail, two threads of which one is always there, two contexts of which the
\* cache queue keeps one; one file; one mishap, anywhere.
SPECIFICATION FairSpec
CONSTANTS
  Mail = {m1}
  NoMsg = NoMsg
  NoFile = NoFile
  Thread = {t1, t2}
  First = {t1}
  MaxNotServed = 1
  FreeNum = 2
  Retries = 2
  MaxMessID = 1
  MaxMishaps = 1
INVARIANTS
  TypeOK
  ContextsAccounted
  MailKept
  OneOutcome
PROPERTIES
  KeepsCustody
  QueuedIsServed
  CachedIsSettled
