SPECIFICATION FairSpec
CONSTANTS
  Calls = {c1, c2}
  Entries = {ours, other, file}
  Folders = {ours, other}
  Top = Top
  NoEntry = NoEntry
INVARIANTS
  TypeOK
  RefusedIsNotAdded
  NothingOfBadRequests
PROPERTY
  EveryCallAnswered
CHECK_DEADLOCK FALSE
