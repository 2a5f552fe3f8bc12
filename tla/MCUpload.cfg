SPECIFICATION Spec
CONSTANTS
  Peer = {p1, p2}
  NumPieces = 2
  NumBlocks <- LastPieceShort
  Leftover = {0}
  FarReach = {}
  MaxQueue = 1
  MaxPriority = 1
  MaxMisses = 0
CONSTRAINT UploadSide
VIEW StoredState
SYMMETRY PeerSymmetry
PROPERTIES
  ServedIsVerified
  ImplementsDownload
CHECK_DEADLOCK FALSE
