SPECIFICATION Spec
CONSTANTS
  Peer = {p1, p2}
  NumPieces = 2
  NumBlocks <- LastPieceShort
  Leftover = {0}
  FarReach = {}
  MaxQueue = 2
  MaxPriority = 2
  MaxMisses = 1
CONSTRAINT DownloadSide
VIEW StoredState
SYMMETRY PeerSymmetry
INVARIANTS
  TypeOK
  FinishedIsVerified
  CompletedPiecesIsFinished
  QueueEntryIncomplete
  QueuedIsCounted
PROPERTIES
  RequestOnlyUnchoked
  ImplementsDownload
CHECK_DEADLOCK FALSE
