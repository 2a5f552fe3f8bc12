---------------------------- MODULE MCPeerTable ----------------------------
(***************************************************************************)
(* Small instances of PeerTable.                                           *)
(***************************************************************************)
EXTENDS PeerTable

TableSymmetry == Permutations(Session) \cup Permutations(Address)

=============================================================================
