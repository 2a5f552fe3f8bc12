------------------------------ MODULE Exchange ------------------------------
(***************************************************************************)
(* The piece exchange of yTorrent: class Torrent's table of pieces and the *)
(* message handlers of class Peer (src/torrent/peer.cpp, torrent.cpp).     *)
(*                                                                         *)
(* All handlers run on the one thread that executes g_io_context.run(), so *)
(* a handler is one action.  The remote side is left open: any message of  *)
(* the wire protocol may arrive on an open session at any time.  Swarm.tla *)
(* closes the system with remote peers that follow the protocol.           *)
(*                                                                         *)
(* Data abstraction.  Of a block only its slot and whether its bytes are   *)
(* the right ones are kept; the hash of a piece matches iff every slot     *)
(* holds the right bytes.  The REQUEST (CANCEL) messages that requestPiece *)
(* (sendCancelRequest) writes, one per block of the piece, are one entry   *)
(* of `sent`.  Which peer an address finds is left open (PeerTable.tla).   *)
(***************************************************************************)
EXTENDS Integers, FiniteSets, SequencesExt

CONSTANTS
  Peer,         \* Peer objects that may hold a session at the same time
  NumPieces,    \* pieces.size()
  NumBlocks,    \* number of blocks of each piece (sendPieceRequest: numBlocks)
  Leftover,     \* the pieces an earlier run, perhaps cut short, left in the file
  FarReach,     \* pieces that begin more than 2^32 - MAX_BLOCK_REQUEST_SIZE bytes before
                \* the end of the file: none, when the file is small
  MaxQueue,     \* bound: BITFIELD is not delivered to a longer pieceQueue
  MaxPriority,  \* bound on Torrent::Piece::priority
  MaxMisses     \* bound on pieceHashMisses

Pieces == 0 .. NumPieces - 1
Blocks(i) == 0 .. NumBlocks[i] - 1

ASSUME ExchangeAssumption ==
  /\ NumPieces \in Nat
  /\ NumBlocks \in [Pieces -> Nat \ {0}]
  /\ Leftover \subseteq Pieces
  /\ FarReach \subseteq Pieces
  /\ MaxQueue \in Nat
  /\ MaxPriority \in Nat
  /\ MaxMisses \in Nat

VARIABLES
  finished,         \* indexes whose pieces[i].finished (and bitfield bit) is set
  completedPieces,  \* Torrent::completedPieces
  pieceHashMisses,  \* Torrent::pieceHashMisses
  priority,         \* pieces[i].priority: how often piece i was requested
  disk,             \* what the file holds at the place of each piece
  terminated,       \* an exception escaped the io thread: std::terminate
  activePeers,      \* Torrent::activePeers
  open,             \* whether the socket of the session is open
  state,            \* Peer::state, the flags that are set
  has,              \* Peer::hasPieceIndexes
  queue,            \* Peer::pieceQueue
  sent              \* what the last step wrote to each socket

torrentVars == <<finished, completedPieces, pieceHashMisses, priority, disk, terminated>>
peerVars == <<activePeers, open, state, has, queue>>
vars == <<torrentVars, peerVars, sent>>

(***************************************************************************)
(* Values.  An entry of pieceQueue is a Peer::Piece: `held` are the slots  *)
(* of blocks[] that were filled, `bad` those filled with wrong bytes.      *)
(***************************************************************************)
Flag == {"AM_CHOKING", "AM_INTERESTED", "PEER_CHOKING", "PEER_INTERESTED"}
InitialState == {"AM_CHOKING", "PEER_CHOKING"}

Entry == [index : Pieces, haveBlocks : Nat, held : SUBSET Nat, bad : SUBSET Nat]
NewEntry(i) == [index |-> i, haveBlocks |-> 0, held |-> {}, bad |-> {}]

MessageType == {"interested", "unchoke", "bitfield", "have", "request", "cancel", "piece"}
Message == [type : MessageType, index : 0 .. NumPieces]
Msg(t, i) == [type |-> t, index |-> i]
Signal(t) == Msg(t, NumPieces)   \* a message without a piece index

\* A PIECE message is named by the piece its bytes are of; Stray holds bytes from
\* somewhere else in the file than the piece it was asked for.
Stray == Signal("piece")

Silent == [q \in Peer |-> <<>>]
Write(p, messages) == [Silent EXCEPT ![p] = messages]

DiskContent == {"unverified", "verified"}

-----------------------------------------------------------------------------
\* parseFile opens a file that exists with what it holds, and looks at none of it:
\* every piece counts as missing.
InitialDisk == [i \in Pieces |-> IF i \in Leftover THEN "verified" ELSE "unverified"]

Init ==
  /\ finished = {}
  /\ completedPieces = 0
  /\ pieceHashMisses = 0
  /\ priority = [i \in Pieces |-> 0]
  /\ disk = InitialDisk
  /\ terminated = FALSE
  /\ activePeers = {}
  /\ open = [p \in Peer |-> FALSE]
  /\ state = [p \in Peer |-> InitialState]
  /\ has = [p \in Peer |-> {}]
  /\ queue = [p \in Peer |-> <<>>]
  /\ sent = Silent

(***************************************************************************)
(* A handshake is accepted and Torrent::handshaked lists the peer.  Only a *)
(* session the other side opened is sent our bitfield (Peer::authenticate).*)
(***************************************************************************)
Handshaked(p, incoming) ==
  /\ ~terminated /\ ~open[p] /\ p \notin activePeers
  /\ open' = [open EXCEPT ![p] = TRUE]
  /\ activePeers' = activePeers \cup {p}
  /\ sent' = IF incoming THEN Write(p, <<Signal("bitfield")>>) ELSE Silent
  /\ UNCHANGED <<torrentVars, state, has, queue>>

(***************************************************************************)
(* Peer::handleError: removePeer, then disconnect.  removePeer unlists the *)
(* first listed peer of the same address.  That need not be p: a host may  *)
(* have two sessions, and the address of every socket that is closed or    *)
(* whose remote end is gone reads 0.  Any listed peer may be the one, and  *)
(* a peer may go on exchanging unlisted.  The fields of a closed session   *)
(* are not read again and are reset here, where the code destroys the Peer *)
(* with its last reference.                                                *)
(***************************************************************************)
CloseSession(p) ==
  /\ open' = [open EXCEPT ![p] = FALSE]
  /\ state' = [state EXCEPT ![p] = InitialState]
  /\ has' = [has EXCEPT ![p] = {}]
  /\ queue' = [queue EXCEPT ![p] = <<>>]
  /\ sent' = Silent
  /\ UNCHANGED torrentVars

HandleError(p) ==
  /\ \E listed \in activePeers \cup {p} : activePeers' = activePeers \ {listed}
  /\ CloseSession(p)

\* Guard of every handler: a read completed on an open socket.  (In the code a
\* handler that was queued when a failed write closed the socket still runs after
\* it, which Connection.tla models; here it can only run before.)
Receiving(p) == ~terminated /\ open[p]

\* A read or write failed, or the message had an impossible size.
SessionError(p) == Receiving(p) /\ HandleError(p)

\* A session that was never listed fails (connect, handshake): removePeer runs
\* for it too, and may find another peer under the address it looks for.
Unlist(q) ==
  /\ ~terminated /\ q \in activePeers
  /\ activePeers' = activePeers \ {q}
  /\ sent' = Silent
  /\ UNCHANGED <<torrentVars, open, state, has, queue>>

-----------------------------------------------------------------------------
(***************************************************************************)
(* Torrent::selectPieceAndRequest followed by Peer::sendPieceRequest.  The *)
(* loop returns the first piece never requested, else the first of those   *)
(* requested least often: in both cases the least priority, then the least *)
(* index.  `q` is p's queue, `done` the finished pieces and `said` what    *)
(* the handler has written so far.                                         *)
(***************************************************************************)
Candidates(pieces, done) == (pieces \cap Pieces) \ done

Best(S) == CHOOSE i \in S : \A j \in S :
             priority[i] < priority[j] \/ (priority[i] = priority[j] /\ i <= j)

\* Mutants: the request counter is set, not increased; a choking peer is asked.
SendPieceRequestCountsOnce(p, i, q, said) ==
  /\ priority' = [priority EXCEPT ![i] = 1]
  /\ queue' = [queue EXCEPT ![p] = Append(q, NewEntry(i))]
  /\ state' = [state EXCEPT ![p] = @ \cup {"AM_INTERESTED"}]
  /\ sent' = [said EXCEPT ![p] = @ \o <<Signal("interested"), Msg("request", i)>>]

SendPieceRequestWhileChoked(p, i, q, said) ==
  /\ priority[i] < MaxPriority
  /\ priority' = [priority EXCEPT ![i] = @ + 1]
  /\ queue' = [queue EXCEPT ![p] = Append(q, NewEntry(i))]
  /\ state' = [state EXCEPT ![p] = @ \cup {"AM_INTERESTED"}]
  /\ sent' = [said EXCEPT ![p] = @ \o <<Signal("interested"), Msg("request", i)>>]

SendPieceRequest(p, i, q, said) ==
  /\ priority[i] < MaxPriority
  /\ priority' = [priority EXCEPT ![i] = @ + 1]
  /\ queue' = [queue EXCEPT ![p] = Append(q, NewEntry(i))]
  /\ state' = [state EXCEPT ![p] = @ \cup {"AM_INTERESTED"}]
  /\ sent' = [said EXCEPT ![p] = @ \o IF "PEER_CHOKING" \in state[p]
                                      THEN <<Signal("interested")>>
                                      ELSE <<Signal("interested"), Msg("request", i)>>]

SelectPieceAndRequest(p, q, pieces, done, said) ==
  \/ /\ Candidates(pieces, done) # {}
     /\ SendPieceRequest(p, Best(Candidates(pieces, done)), q, said)
  \/ /\ Candidates(pieces, done) = {}
     /\ queue' = [queue EXCEPT ![p] = q]
     /\ sent' = said
     /\ UNCHANGED <<priority, state>>

\* Mutant: the last missing piece is not asked for.
RequestNextButLast(p, q, pieces, done, completed, said) ==
  \/ /\ completed + 1 # NumPieces
     /\ SelectPieceAndRequest(p, q, pieces, done, said)
  \/ /\ completed + 1 = NumPieces
     /\ queue' = [queue EXCEPT ![p] = q]
     /\ sent' = said
     /\ UNCHANGED <<priority, state>>

\* The callers ask for another piece only while the download is incomplete.
RequestNext(p, q, pieces, done, completed, said) ==
  \/ /\ completed # NumPieces
     /\ SelectPieceAndRequest(p, q, pieces, done, said)
  \/ /\ completed = NumPieces
     /\ queue' = [queue EXCEPT ![p] = q]
     /\ sent' = said
     /\ UNCHANGED <<priority, state>>

-----------------------------------------------------------------------------
(***************************************************************************)
(* Peer::handleMessage, one action per message type.                       *)
(***************************************************************************)
Choke(p) ==
  /\ Receiving(p)
  /\ state' = [state EXCEPT ![p] = @ \cup {"PEER_CHOKING"}]
  /\ sent' = Silent
  /\ UNCHANGED <<torrentVars, activePeers, open, has, queue>>

\* Mutant: what was queued is not requested when the choke ends.
UnchokeForgets(p) ==
  /\ Receiving(p)
  /\ state' = [state EXCEPT ![p] = @ \ {"PEER_CHOKING"}]
  /\ sent' = Silent
  /\ UNCHANGED <<torrentVars, activePeers, open, has, queue>>

\* Every block of every queued piece is requested, those already held too.
Unchoke(p) ==
  /\ Receiving(p)
  /\ state' = [state EXCEPT ![p] = @ \ {"PEER_CHOKING"}]
  /\ sent' = Write(p, [k \in DOMAIN queue[p] |-> Msg("request", queue[p][k].index)])
  /\ UNCHANGED <<torrentVars, activePeers, open, has, queue>>

Interested(p) ==
  /\ Receiving(p)
  /\ state' = [state EXCEPT ![p] = (@ \ {"AM_CHOKING"}) \cup {"PEER_INTERESTED"}]
  /\ sent' = IF "AM_CHOKING" \in state[p] THEN Write(p, <<Signal("unchoke")>>) ELSE Silent
  /\ UNCHANGED <<torrentVars, activePeers, open, has, queue>>

NotInterested(p) ==
  /\ Receiving(p)
  /\ state' = [state EXCEPT ![p] = @ \ {"PEER_INTERESTED"}]
  /\ sent' = Silent
  /\ UNCHANGED <<torrentVars, activePeers, open, has, queue>>

\* HAVE records the index, in range or not, and never starts a request.
Have(p, i) ==
  /\ Receiving(p)
  /\ has' = [has EXCEPT ![p] = @ \cup {i}]
  /\ sent' = Silent
  /\ UNCHANGED <<torrentVars, activePeers, open, state, queue>>

\* Bits beyond the last piece are dropped before they reach `pieces`.
Bitfield(p, pieces) ==
  /\ Receiving(p)
  /\ Len(queue[p]) < MaxQueue
  /\ has' = [has EXCEPT ![p] = @ \cup pieces]
  /\ RequestNext(p, queue[p], has[p] \cup pieces, finished, completedPieces, Silent)
  /\ UNCHANGED <<finished, completedPieces, pieceHashMisses, disk, terminated, activePeers, open>>

-----------------------------------------------------------------------------
(***************************************************************************)
(* REQUEST.  `range` classifies begin and length as the checks of the code *)
(* do: "oversized" is longer than MAX_BLOCK_REQUEST_SIZE; of the others,   *)
(* "overrun" is found to end beyond the piece, "legal" lies in the piece,  *)
(* and "wrapped" begins so near 2^32 that begin + length, a sum of 32      *)
(* bits, comes out as an end inside the piece.  For an index out of range  *)
(* pieceDone reads past the end of `pieces`: either answer is possible.    *)
(***************************************************************************)
RequestRange == {"legal", "overrun", "wrapped", "oversized"}

MayRequest(p, range) ==
  /\ "PEER_INTERESTED" \in state[p]
  /\ "AM_CHOKING" \notin state[p]
  /\ range # "oversized"

RequestRefused(p, range) ==
  /\ Receiving(p) /\ ~MayRequest(p, range)
  /\ HandleError(p)

RequestIgnored(p, i, range) ==
  /\ Receiving(p) /\ MayRequest(p, range)
  /\ i \notin finished
  /\ sent' = Silent
  /\ UNCHANGED <<torrentVars, peerVars>>

\* handleBlockRequest disconnects the peer and leaves it in activePeers.
RequestDisconnects(p, i, range) ==
  /\ Receiving(p) /\ MayRequest(p, range)
  /\ i \notin Pieces \/ (i \in finished /\ range = "overrun")
  /\ CloseSession(p)
  /\ UNCHANGED activePeers

\* What fread may find at begin + pIndex * pieceLength, a sum of 64 bits: nothing,
\* or, for a request whose end wrapped, what the file holds 4 GiB further on.  A
\* read that comes out short is sent as if it were whole.
BlockRead(i, range) ==
  {<<>>} \cup (IF range = "legal" THEN {<<Msg("piece", i)>>} ELSE {})
         \cup (IF range = "wrapped" /\ i \in FarReach THEN {<<Stray>>} ELSE {})

\* Mutant: blocks of pieces that are not finished are served.
RequestServedUnchecked(p, i, range) ==
  /\ Receiving(p) /\ MayRequest(p, range)
  /\ i \in Pieces /\ range \in {"legal", "wrapped"}
  /\ \E block \in BlockRead(i, range) : sent' = Write(p, block)
  /\ UNCHANGED <<torrentVars, peerVars>>

RequestServed(p, i, range) ==
  /\ Receiving(p) /\ MayRequest(p, range)
  /\ i \in finished /\ range \in {"legal", "wrapped"}
  /\ \E block \in BlockRead(i, range) : sent' = Write(p, block)
  /\ UNCHANGED <<torrentVars, peerVars>>

-----------------------------------------------------------------------------
(***************************************************************************)
(* PIECE_BLOCK for slot b of piece i; `good` when the bytes are right.     *)
(***************************************************************************)
\* find_if over pieceQueue: the position of the first entry of piece i, or 0.
Position(p, i) == SelectInSeq(queue[p], LAMBDA e : e.index = i)

\* A block of a piece that is not queued, or a slot the piece does not have.
BlockRefused(p, i, b) ==
  /\ Receiving(p)
  /\ Position(p, i) = 0 \/ b \notin Blocks(i)
  /\ HandleError(p)

\* Another peer finished the piece first: cancel it and ask for no other.
BlockCancelled(p, i, b) ==
  /\ Receiving(p)
  /\ Position(p, i) # 0 /\ b \in Blocks(i)
  /\ i \in finished
  /\ queue' = [queue EXCEPT ![p] = RemoveAt(@, Position(p, i))]
  /\ sent' = Write(p, <<Msg("cancel", i)>>)
  /\ UNCHANGED <<torrentVars, activePeers, open, state, has>>

\* The entry after the block is stored: the counter grows on every arrival.
Store(e, b, good) ==
  [index |-> e.index,
   haveBlocks |-> e.haveBlocks + 1,
   held |-> e.held \cup {b},
   bad |-> IF good THEN e.bad \ {b} ELSE e.bad \cup {b}]

\* Mutant: a piece that another peer finished first is accepted again.
AcceptingFinished(p, i, b) ==
  /\ Receiving(p)
  /\ Position(p, i) # 0 /\ b \in Blocks(i)

Accepting(p, i, b) ==
  /\ Receiving(p)
  /\ Position(p, i) # 0 /\ b \in Blocks(i)
  /\ i \notin finished

Stored(p, i, b, good) == Store(queue[p][Position(p, i)], b, good)

\* Mutant: the last block is stored and the piece is not assembled.
BlockStoredPastLast(p, i, b, good) ==
  /\ Accepting(p, i, b)
  /\ Stored(p, i, b, good).haveBlocks <= NumBlocks[i]
  /\ queue' = [queue EXCEPT ![p][Position(p, i)] = Stored(p, i, b, good)]
  /\ sent' = Silent
  /\ UNCHANGED <<torrentVars, activePeers, open, state, has>>

BlockStored(p, i, b, good) ==
  /\ Accepting(p, i, b)
  /\ Stored(p, i, b, good).haveBlocks # NumBlocks[i]
  /\ queue' = [queue EXCEPT ![p][Position(p, i)] = Stored(p, i, b, good)]
  /\ sent' = Silent
  /\ UNCHANGED <<torrentVars, activePeers, open, state, has>>

\* What the concatenated slots amount to, and Torrent::checkPieceHash of it.
Content(e) ==
  IF e.held = Blocks(e.index) /\ e.bad = {} THEN "verified" ELSE "unverified"
\* Mutant: a complete piece is taken without comparing its hash.
HashUnchecked(e) == e.haveBlocks = NumBlocks[e.index]
HashMatches(e) == Content(e) = "verified"

\* Mutant: the piece is assembled one block early.
LastBlockEarly(p, i, b, good) ==
  /\ Accepting(p, i, b)
  /\ Stored(p, i, b, good).haveBlocks + 1 >= NumBlocks[i]

LastBlock(p, i, b, good) ==
  /\ Accepting(p, i, b)
  /\ Stored(p, i, b, good).haveBlocks = NumBlocks[i]

\* The piece is thrown away and the peer is asked for another one.
PieceMismatch(p, i, b, good) ==
  /\ LastBlock(p, i, b, good)
  /\ ~HashMatches(Stored(p, i, b, good))
  /\ pieceHashMisses < MaxMisses
  /\ pieceHashMisses' = pieceHashMisses + 1
  /\ RequestNext(p, RemoveAt(queue[p], Position(p, i)), has[p],
                 finished, completedPieces, Silent)
  /\ UNCHANGED <<finished, completedPieces, disk, terminated, activePeers, open, has>>

\* handlePieceCompleted tells every listed peer we do not choke.
HaveBroadcast(i) ==
  [q \in Peer |-> IF q \in activePeers /\ open[q] /\ "AM_CHOKING" \notin state[q]
                  THEN <<Msg("have", i)>> ELSE <<>>]

PieceCompleted(p, i, b, good) ==
  /\ LastBlock(p, i, b, good)
  /\ HashMatches(Stored(p, i, b, good))
  /\ disk' = [disk EXCEPT ![i] = Content(Stored(p, i, b, good))]
  /\ finished' = finished \cup {i}
  /\ completedPieces' = completedPieces + 1
  /\ RequestNext(p, RemoveAt(queue[p], Position(p, i)), has[p],
                 finished \cup {i}, completedPieces + 1, HaveBroadcast(i))
  /\ UNCHANGED <<pieceHashMisses, terminated, activePeers, open, has>>

\* Mutant: the piece is marked before it is written.
DiskFailureAfterMark(p, i, b, good) ==
  /\ LastBlock(p, i, b, good)
  /\ HashMatches(Stored(p, i, b, good))
  /\ disk' = [disk EXCEPT ![i] = "unverified"]
  /\ finished' = finished \cup {i}
  /\ completedPieces' = completedPieces + 1
  /\ terminated' = TRUE
  /\ sent' = Silent
  /\ UNCHANGED <<pieceHashMisses, priority, peerVars>>

\* fseek or fwrite fails, perhaps half way: the exception leaves the io thread.
\* Idealised: fwrite buffers, and a failure that only shows when the buffer is
\* written out later, after the piece was marked, is not modelled.
DiskFailure(p, i, b, good) ==
  /\ LastBlock(p, i, b, good)
  /\ HashMatches(Stored(p, i, b, good))
  /\ disk' = [disk EXCEPT ![i] = "unverified"]
  /\ terminated' = TRUE
  /\ sent' = Silent
  /\ UNCHANGED <<finished, completedPieces, pieceHashMisses, priority, peerVars>>

-----------------------------------------------------------------------------
\* The block slots a message may name: one beyond the piece's last included.
PieceBlock(p, i, b, good) ==
  \/ BlockRefused(p, i, b)
  \/ BlockCancelled(p, i, b)
  \/ BlockStored(p, i, b, good)
  \/ PieceMismatch(p, i, b, good)
  \/ PieceCompleted(p, i, b, good)
  \/ DiskFailure(p, i, b, good)

Request(p, i, range) ==
  \/ RequestRefused(p, range)
  \/ RequestIgnored(p, i, range)
  \/ RequestDisconnects(p, i, range)
  \/ RequestServed(p, i, range)

Next ==
  \E p \in Peer :
    \/ \E incoming \in BOOLEAN : Handshaked(p, incoming)
    \/ SessionError(p)
    \/ Unlist(p)
    \/ Choke(p)
    \/ Unchoke(p)
    \/ Interested(p)
    \/ NotInterested(p)
    \/ \E i \in 0 .. NumPieces : Have(p, i)
    \/ \E pieces \in SUBSET Pieces : Bitfield(p, pieces)
    \/ \E i \in 0 .. NumPieces, range \in RequestRange : Request(p, i, range)
    \/ \E i \in Pieces, good \in BOOLEAN :
         \E b \in 0 .. NumBlocks[i] : PieceBlock(p, i, b, good)

Spec == Init /\ [][Next]_vars

-----------------------------------------------------------------------------
(***************************************************************************)
(* Properties.                                                             *)
(***************************************************************************)
\* Every variable has the type its declaration in the code gives it, and the
\* count the main loop compares with != (download()) never passes its target.
TypeOK ==
  /\ finished \in SUBSET Pieces
  /\ completedPieces \in 0 .. NumPieces
  /\ pieceHashMisses \in Nat
  /\ priority \in [Pieces -> Nat]
  /\ disk \in [Pieces -> DiskContent]
  /\ terminated \in BOOLEAN
  /\ activePeers \in SUBSET Peer
  /\ open \in [Peer -> BOOLEAN]
  /\ state \in [Peer -> SUBSET Flag]
  /\ has \in [Peer -> SUBSET (0 .. NumPieces)]
  /\ queue \in [Peer -> Seq(Entry)]
  /\ sent \in [Peer -> Seq(Message)]

\* A piece that is marked finished (advertised, served, never requested again)
\* has been written to the file with the content its hash stands for.
FinishedIsVerified == \A i \in finished : disk[i] = "verified"

\* completedPieces counts each finished piece once, however many peers were
\* asked for it: download() waits for this counter to equal pieces.size().
CompletedPiecesIsFinished == completedPieces = Cardinality(finished)

\* A queued piece is still waited for: the arrival counter that triggers the
\* assembly is short of its target, and no entry has all its slots filled without
\* having been assembled.
WaitingEntry ==
  {e \in Entry : /\ e.held \subseteq Blocks(e.index)
                 /\ Cardinality(e.held) <= e.haveBlocks
                 /\ e.haveBlocks < NumBlocks[e.index]}

QueueEntryIncomplete == queue \in [Peer -> Seq(WaitingEntry)]

\* priority[i] is at least the number of peers piece i is queued at, so a piece
\* somebody was asked for is never taken for an untouched one.
QueuedIsCounted ==
  \A i \in Pieces :
    Cardinality({x \in Peer \X (1 .. MaxQueue) :
                   /\ x[2] \in DOMAIN queue[x[1]]
                   /\ queue[x[1]][x[2]].index = i}) <= priority[i]

Says(p, t) == \E k \in DOMAIN sent'[p] : sent'[p][k].type = t

\* No REQUEST is written to a peer that chokes us (requestPiece reports that as
\* an error of ours and drops the session).
RequestOnlyUnchoked ==
  [][\A p \in Peer : Says(p, "request") => open[p] /\ "PEER_CHOKING" \notin state'[p]]_vars

\* A block sent to a peer holds bytes of the piece it was asked for, and only of
\* a piece whose bytes were verified: what pieceDone and the range check of
\* handleBlockRequest are there for.  It holds of files without a FarReach.
ServedIsVerified ==
  [][\A p \in Peer : \A k \in DOMAIN sent'[p] :
       sent'[p][k].type = "piece" => /\ sent'[p][k].index \in Pieces
                                     /\ disk[sent'[p][k].index] = "verified"]_vars

\* The pieces of which a block was written to some peer; NumPieces stands for a
\* block that is not of the piece it was asked for.
Served(messages) ==
  {i \in 0 .. NumPieces :
     \E p \in Peer : \E k \in DOMAIN messages[p] : messages[p][k] = Msg("piece", i)}

\* Each step obtains one new piece, with its bytes in the file, or serves a piece
\* that was obtained, or does neither: a failed write, a hash mismatch, a lost
\* session or a duplicate block takes nothing back and counts nothing twice.
D == INSTANCE Download WITH
       Piece <- Pieces, obtained <- finished, count <- completedPieces,
       stored <- {i \in Pieces : disk[i] = "verified"}, served <- Served(sent)

ImplementsDownload == D!Spec

=============================================================================
