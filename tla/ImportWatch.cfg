SPECIFICATION FairSpec
CONSTANTS
  NumFiles = 2
  NumServices = 2
  Configured = {1, 2}
  Earlier = {2}
  FromOne = {2}
  PageSize = 1
  MaxRecords = 3
  MaxFaults = 2
INVARIANTS
  TypeOK
  KeptUntilTaken
  PagesExist
PROPERTIES
  ImportNoticed
  NoneOverlooked
CHECK_DEADLOCK FALSE
