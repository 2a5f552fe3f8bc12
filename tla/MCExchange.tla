----------------------------- MODULE MCExchange -----------------------------
(***************************************************************************)
(* Small instances of Exchange.                                            *)
(***************************************************************************)
EXTENDS Exchange

\* The first piece has two blocks, the (short) last piece one.
LastPieceShort == [i \in Pieces |-> IF i = NumPieces - 1 THEN 1 ELSE 2]

\* `sent` is written by every step and read by none: states that differ only in
\* it are explored once (properties of steps still see it).
StoredState == <<torrentVars, peerVars>>

\* The download side: peers that take an interest in us, or announce a piece the
\* torrent does not have, are not followed further.
DownloadSide == \A p \in Peer : "PEER_INTERESTED" \notin state[p] /\ has[p] \subseteq Pieces

\* The upload side: a session with a wrong block in its queue is not followed
\* further.
UploadSide == \A p \in Peer : \A k \in DOMAIN queue[p] : queue[p][k].bad = {}

PeerSymmetry == Permutations(Peer)

=============================================================================
