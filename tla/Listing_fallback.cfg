SPECIFICATION Spec
CONSTANTS
  Transfers <- MCTransfers
  Nodes <- MCNodes
  Names <- MCNames
  Root <- MCRoot
  Home <- MCHome
  Children <- MCChildren
  Kind <- MCKind
  NodeName <- MCNodeName
  TransferName <- MCTransferName
  NoTransfer = NoTransfer
  MaxFaults = 1
INVARIANT
  AdvertisedExists
