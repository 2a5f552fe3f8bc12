SPECIFICATION Spec
CONSTANTS
  MAX_BLOCK_REQUEST_SIZE = 3
  MaxSize = 17
  PieceLengths = {2, 3, 5, 7}
  MaxPieces = 9
  Metainfo <- SmallFiles
  Content <- Position
INVARIANTS
  TypeOK
  NeverDropped
  BlocksMakeThePiece
  WholeFile
PROPERTIES
  Completes
  TransferIsDownload
CHECK_DEADLOCK FALSE
