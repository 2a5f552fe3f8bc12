SPECIFICATION Spec
CONSTANTS
  Peer = {p1, p2}
  NumPieces = 2
  NumBlocks <- LastPieceShort
  Leftover = {0}
  FarReach = {0}
  MaxQueue = 1
  MaxPriority = 1
  MaxMisses = 0
CONSTRAINT UploadSide
VIEW StoredState
SYMMETRY PeerSymmetry
PROPERTIES
  ServedIsVerified
CHECK_DEADLOCK FALSE
