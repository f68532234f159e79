\* Two users and a populating thread after one mailbox with a search folder.
SPECIFICATION FairSpec
CONSTANTS
  d1 = d1 u1 = u1 u2 = u2 p1 = p1
  Dir <- MCDir
  User <- MCUser
  Populator <- MCPopulator
  Thread <- MCThread
  Unloader = {a}
  NoDir = NoDir
  NoSearch = NoSearch
  MaxWaiting = 1
  TableSize = 1
  MaxTries = 1
  Folder <- MCFolder
  FolderDir <- MCFolderDir
  Scopes = 2
  Pieces = 2
  Tables = 2
  MaxCriteria = 2
INVARIANTS
  TypeOK
  ReferencesExact
  NothingFreedInUse
  UsersBounded
  UnloadedIsClosed
  OnlyOvertakenSearchesLinger
CHECK_DEADLOCK FALSE
PROPERTIES
  PopulatingIsTold
  PopulatingGoesOn
  SearchEnds
  RequestEnds
  StopEnds
