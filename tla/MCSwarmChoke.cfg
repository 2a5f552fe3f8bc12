SPECIFICATION SwarmSpec
CONSTANTS
  p1 = p1
  p2 = p2
  Peer = {p1, p2}
  NumPieces = 2
  NumBlocks <- LastPieceShort
  Leftover = {}
  FarReach = {}
  MaxQueue = 1
  MaxPriority = 9
  MaxMisses = 9
  InitiallyHas <- OneHasMore
  MayGain = TRUE
  MaxChokes = 2
INVARIANTS
  QueuedIsPending
CHECK_DEADLOCK FALSE
