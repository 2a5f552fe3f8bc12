----------------------------- MODULE MCTransfer -----------------------------
(***************************************************************************)
(* Small instances of Transfer.                                            *)
(***************************************************************************)
EXTENDS Transfer

CONSTANTS MaxSize,         \* bound on the length of the file
          PieceLengths,    \* the piece lengths tried
          MaxPieces        \* bound on the number of pieces

\* All files up to the bounds: last pieces that are shorter or not, last blocks that
\* are shorter or not, pieces smaller than a block.
SmallFiles ==
  {m \in [totalSize : 1 .. MaxSize, pieceLength : PieceLengths, pieces : 1 .. MaxPieces] :
     WellFormed(m)}

\* Any byte but 0 at each position, all different.
Position(p) == p + 1

=============================================================================
