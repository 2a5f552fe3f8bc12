------------------------------ MODULE Download ------------------------------
(***************************************************************************)
(* What the piece exchange promises, whatever the peers send and however   *)
(* the writes to the file go: pieces are obtained one at a time, each once *)
(* and counted once, each only with the right bytes in the file; an        *)
(* obtained piece is never lost or overwritten; only obtained pieces are   *)
(* served.  What the file holds at first counts for nothing.  Exchange.tla *)
(* and Transfer.tla implement this module.                                 *)
(***************************************************************************)
EXTENDS Integers

CONSTANT Piece

VARIABLES
  obtained,   \* the pieces the program says it has
  count,      \* how many it says it has
  stored,     \* the pieces whose right bytes are in the file
  served      \* the pieces of which the last step sent a block to a peer

vars == <<obtained, count, stored, served>>

Init ==
  /\ obtained = {}
  /\ count = 0
  /\ stored \in SUBSET Piece
  /\ served = {}

Obtain(i) ==
  /\ i \notin obtained
  /\ obtained' = obtained \cup {i}
  /\ count' = count + 1
  /\ stored' = stored \cup {i}
  /\ served' = {}

Serve(i) ==
  /\ i \in obtained
  /\ served' = {i}
  /\ UNCHANGED <<obtained, count, stored>>

\* A step that obtains nothing, a failed write among them: it may spoil what the
\* file holds of a piece that is still missing.
Work ==
  /\ \E kept \in SUBSET stored : obtained \cap stored \subseteq kept /\ stored' = kept
  /\ served' = {}
  /\ UNCHANGED <<obtained, count>>

Next == Work \/ \E i \in Piece : Obtain(i) \/ Serve(i)

Spec == Init /\ [][Next]_vars

=============================================================================
