SPECIFICATION Spec
CONSTANTS
  MaxWrites = 3
INVARIANTS
  TypeOK
  UsesLivePeer
  HeardOfAgain
  ReadsItsOwn
PROPERTIES
  BrokenIsClosed
CHECK_DEADLOCK FALSE
