SPECIFICATION SwarmSpec
CONSTANTS
  p1 = p1
  p2 = p2
  Peer = {p1}
  NumPieces = 1
  NumBlocks <- ThreeBlocks
  Leftover = {}
  FarReach = {}
  MaxQueue = 1
  MaxPriority = 9
  MaxMisses = 9
  InitiallyHas <- Seeds
  MayGain = FALSE
  MaxChokes = 1
INVARIANTS
  HaveBlocksIsHeld
CHECK_DEADLOCK FALSE
