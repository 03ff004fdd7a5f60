SPECIFICATION Spec
CONSTANTS
  Transfers <- MCTransfers
  Nodes <- MCNodes
  Names <- MCNames
  Root <- MCRoot
  Home <- MCHome
  Children <- MCChildren
  Kind <- MCKind
  NodeName <- MCNodeName
  TransferName <- MCTransferName
  NoTransfer = NoTransfer
  MaxFaults = 2
INVARIANTS
  TypeOK
  AdvertisedIsWritten
  UnbrokenIsWhole
  PathsInTree
PROPERTY
  OnlyOwnOutput
