SPECIFICATION FairSpec
CONSTANTS
  Instances = {i1}
  Transfers = {t1}
  NoInstance = NoInstance
  NoTransfer = NoTransfer
  Seeding = FALSE
  Discord = FALSE
  Earlier = {}
  FaultKinds = {"crash"}
  MaxFaults = 1
PROPERTY
  ImportedIsCleaned
