------------------------------ MODULE MCSwarm ------------------------------
(***************************************************************************)
(* Small instances of Swarm.                                               *)
(***************************************************************************)
EXTENDS Swarm

CONSTANTS p1, p2   \* the remote peers

\* The first piece has two blocks, the (short) last piece one.
LastPieceShort == [i \in Pieces |-> IF i = NumPieces - 1 THEN 1 ELSE 2]

\* One piece, of three blocks.
ThreeBlocks == [i \in Pieces |-> 3]

\* Where the pieces are: at every peer; the first at both and the others at one.
Seeds == [p \in Peer |-> Pieces]
OneHasMore == [p \in Peer |-> IF p = p1 THEN Pieces ELSE {0}]

=============================================================================
