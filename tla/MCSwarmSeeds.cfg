SPECIFICATION SwarmSpec
CONSTANTS
  p1 = p1
  p2 = p2
  Peer = {p1, p2}
  NumPieces = 3
  NumBlocks <- LastPieceShort
  Leftover = {0}
  FarReach = {}
  MaxQueue = 1
  MaxPriority = 9
  MaxMisses = 9
  InitiallyHas <- Seeds
  MayGain = FALSE
  MaxChokes = 0
INVARIANTS
  NoHashMiss
PROPERTIES
  DownloadCompletes
CHECK_DEADLOCK FALSE
