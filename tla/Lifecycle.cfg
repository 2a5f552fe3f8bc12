SPECIFICATION Spec
CONSTANTS
  NumPieces = 3
  StartPort = 63333
INVARIANTS
  TypeOK
  CompletedLeavesNothing
  SuccessMeansComplete
PROPERTIES
  NoPeersAfterDisconnect
  DownloadEnds
CHECK_DEADLOCK FALSE
