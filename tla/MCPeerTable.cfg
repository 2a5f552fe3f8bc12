SPECIFICATION Spec
CONSTANTS
  Session = {s1, s2, s3}
  Address = {a1, a2}
  ZeroAddress = zero
SYMMETRY TableSymmetry
INVARIANTS
  TypeOK
  ListedWasEstablished
  PendingIsBlackListed
  OneSessionPerAddress
  EstablishedIsListed
  EstablishedMayReturn
CHECK_DEADLOCK FALSE
