SPECIFICATION SwarmSpec
CONSTANTS
  p1 = p1
  p2 = p2
  Peer = {p1, p2}
  NumPieces = 2
  NumBlocks <- LastPieceShort
  Leftover = {}
  FarReach = {}
  MaxQueue = 1
  MaxPriority = 9
  MaxMisses = 9
  InitiallyHas <- OneHasMore
  MayGain = FALSE
  MaxChokes = 0
PROPERTIES
  DownloadCompletes
CHECK_DEADLOCK FALSE
