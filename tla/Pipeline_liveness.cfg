SPECIFICATION FairSpec
CONSTANTS
  Instances = {i1}
  Transfers = {t1, t2}
  NoInstance = NoInstance
  NoTransfer = NoTransfer
  Seeding = TRUE
  Discord = TRUE
  Earlier = {}
  FaultKinds = {}
  MaxFaults = 0
INVARIANTS
  SeedingHonoured
  DownloadedIsFollowed
PROPERTIES
  ClaimReleased
  WaitingIsClaimed
  ImportedIsCleaned
