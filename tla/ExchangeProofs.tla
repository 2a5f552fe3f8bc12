--------------------------- MODULE ExchangeProofs ---------------------------
(***************************************************************************)
(* Proofs about Exchange for any number of peers, pieces and blocks.       *)
(*                                                                         *)
(* The inductive invariant is the conjunction of the invariants the runs   *)
(* check.  None is inductive alone: the count stays within its type        *)
(* because it is the cardinality of a set of pieces, that it grows with    *)
(* the set rests on the pieceDone check, and the assembly is reached       *)
(* exactly at the last block because a queued entry is short of it.        *)
(*                                                                         *)
(* The properties of steps follow from that invariant and from what a step *)
(* may write: neither a REQUEST nor a block; or REQUESTs to one open,      *)
(* unchoked peer; or one block, of a finished piece unless the request     *)
(* reached beyond a piece of FarReach (Servable).                          *)
(***************************************************************************)
EXTENDS Exchange, ListLemmas, FiniteSetTheorems

IInv ==
  /\ TypeOK
  /\ FinishedIsVerified
  /\ CompletedPiecesIsFinished
  /\ QueueEntryIncomplete

\* Every queue of messages, one per socket, that a handler may have written.
Writes == [Peer -> Seq(Message)]

-----------------------------------------------------------------------------
(***************************************************************************)
(* The messages of the handlers are messages.                              *)
(***************************************************************************)
LEMMA MessageTypes ==
  /\ \A t \in MessageType : Signal(t) \in Message
  /\ \A t \in MessageType, i \in Pieces : Msg(t, i) \in Message
BY ExchangeAssumption DEF Signal, Msg, Message, Pieces

LEMMA SilentType == Silent \in Writes
BY DEF Silent, Writes

LEMMA WriteType ==
  ASSUME NEW p \in Peer, NEW messages \in Seq(Message)
  PROVE  Write(p, messages) \in Writes
BY SilentType DEF Write, Silent, Writes

(***************************************************************************)
(* selectPieceAndRequest picks one of the candidates.                      *)
(***************************************************************************)
LEMMA BestIsCandidate ==
  ASSUME TypeOK, NEW S \in SUBSET Pieces, S # {}
  PROVE  Best(S) \in S
<1> DEFINE ranks == {priority[i] : i \in S}
<1>1. Pieces \subseteq Nat /\ \A i \in S : priority[i] \in Nat
  BY ExchangeAssumption DEF TypeOK, Pieces
<1>2. PICK r \in ranks : \A x \in ranks : r <= x
  <2>1. ranks \in SUBSET Nat /\ ranks # {}
    BY <1>1
  <2> HIDE DEF ranks
  <2> QED
    BY <2>1, LeastNat
<1> DEFINE ties == {i \in S : priority[i] = r}
<1>3. PICK i \in ties : \A j \in ties : i <= j
  <2>1. ties \in SUBSET Nat /\ ties # {}
    BY <1>1, <1>2
  <2> HIDE DEF ties
  <2> QED
    BY <2>1, LeastNat
<1>4. \A j \in S : priority[i] < priority[j] \/ (priority[i] = priority[j] /\ i <= j)
  BY <1>1, <1>2, <1>3
<1> QED
  BY <1>3, <1>4 DEF Best

(***************************************************************************)
(* A position that find_if returns is one of the queue, of that piece.     *)
(***************************************************************************)
LEMMA PositionInQueue ==
  ASSUME TypeOK, NEW p \in Peer, NEW i, Position(p, i) # 0
  PROVE  /\ Position(p, i) \in DOMAIN queue[p]
         /\ queue[p][Position(p, i)].index = i
<1> DEFINE found == {k \in 1 .. Len(queue[p]) : queue[p][k].index = i}
<1>1. queue[p] \in Seq(Entry)
  BY DEF TypeOK
<1>2. DOMAIN queue[p] = 1 .. Len(queue[p]) /\ Len(queue[p]) \in Nat
  BY <1>1, LenProperties
<1>3. Position(p, i) = IF found # {} THEN Min(found) ELSE 0
  BY DEF Position, SelectInSeq
<1>4. found # {} /\ found \in SUBSET Nat
  BY <1>2, <1>3
<1>5. Position(p, i) \in found
  BY <1>3, <1>4, MinInSet
<1> QED
  BY <1>2, <1>5

-----------------------------------------------------------------------------
(***************************************************************************)
(* What asking for a piece leaves behind.                                  *)
(***************************************************************************)
LEMMA NewEntryWaits ==
  ASSUME NEW i \in Pieces
  PROVE  NewEntry(i) \in WaitingEntry
BY ExchangeAssumption, FS_EmptySet DEF NewEntry, WaitingEntry, Entry

\* What is written are messages of a set M that has INTERESTED and, unless the peer
\* chokes us, REQUEST.
LEMMA RequestNextWrites ==
  ASSUME TypeOK, NEW p \in Peer, NEW q, NEW pieces, NEW done, NEW completed,
         NEW M, NEW said \in [Peer -> Seq(M)],
         Signal("interested") \in M,
         "PEER_CHOKING" \in state[p] \/ \A i \in Pieces : Msg("request", i) \in M,
         RequestNext(p, q, pieces, done, completed, said)
  PROVE  sent' \in [Peer -> Seq(M)]
<1>1. CASE sent' = said
  BY <1>1
<1>2. CASE /\ Candidates(pieces, done) # {}
           /\ SendPieceRequest(p, Best(Candidates(pieces, done)), q, said)
  <2> DEFINE i == Best(Candidates(pieces, done))
             more == IF "PEER_CHOKING" \in state[p]
                     THEN <<Signal("interested")>>
                     ELSE <<Signal("interested"), Msg("request", i)>>
  <2>1. more \in Seq(M)
    <3>1. i \in Pieces
      BY <1>2, BestIsCandidate DEF Candidates
    <3> HIDE DEF i
    <3> QED
      BY <3>1
  <2>2. sent' = [said EXCEPT ![p] = @ \o more]
    BY <1>2 DEF SendPieceRequest
  <2> HIDE DEF more
  <2>3. said[p] \o more \in Seq(M)
    BY <2>1, ConcatProperties
  <2> QED
    BY <2>2, <2>3
<1> QED
  BY <1>1, <1>2 DEF RequestNext, SelectPieceAndRequest

LEMMA RequestNextType ==
  ASSUME TypeOK, QueueEntryIncomplete, NEW p \in Peer, NEW q \in Seq(WaitingEntry),
         NEW pieces, NEW done, NEW completed, NEW said \in Writes,
         RequestNext(p, q, pieces, done, completed, said)
  PROVE  /\ priority' \in [Pieces -> Nat]
         /\ state' \in [Peer -> SUBSET Flag]
         /\ queue' \in [Peer -> Seq(WaitingEntry)]
         /\ sent' \in Writes
<1>1. sent' \in Writes
  BY RequestNextWrites, MessageTypes DEF Writes, MessageType
<1>2. CASE /\ queue' = [queue EXCEPT ![p] = q]
           /\ sent' = said
           /\ UNCHANGED <<priority, state>>
  BY <1>2 DEF TypeOK, QueueEntryIncomplete
<1>3. CASE /\ Candidates(pieces, done) # {}
           /\ SendPieceRequest(p, Best(Candidates(pieces, done)), q, said)
  <2> DEFINE i == Best(Candidates(pieces, done))
  <2>1. i \in Pieces
    BY <1>3, BestIsCandidate DEF Candidates
  <2> HIDE DEF i
  <2>2. priority' \in [Pieces -> Nat]
    BY <1>3, <2>1 DEF SendPieceRequest, TypeOK, i
  <2>3. state' \in [Peer -> SUBSET Flag]
    BY <1>3 DEF SendPieceRequest, TypeOK, Flag
  <2>4. queue' \in [Peer -> Seq(WaitingEntry)]
    <3>1. Append(q, NewEntry(i)) \in Seq(WaitingEntry)
      BY <2>1, NewEntryWaits
    <3> QED
      BY <1>3, <3>1 DEF SendPieceRequest, QueueEntryIncomplete, i
  <2> QED
    BY <1>1, <2>2, <2>3, <2>4
<1> QED
  BY <1>2, <1>3 DEF RequestNext, SelectPieceAndRequest

(***************************************************************************)
(* A block that is accepted is stored in the entry of its piece, and the   *)
(* arrival counter is then at most the number of blocks.                   *)
(***************************************************************************)
LEMMA StoredType ==
  ASSUME TypeOK, QueueEntryIncomplete, NEW p \in Peer, NEW i \in Pieces, NEW b,
         NEW good \in BOOLEAN, Accepting(p, i, b)
  PROVE  /\ Position(p, i) \in DOMAIN queue[p]
         /\ Stored(p, i, b, good) \in Entry
         /\ Stored(p, i, b, good).index = i
         /\ Stored(p, i, b, good).held \subseteq Blocks(i)
         /\ Cardinality(Stored(p, i, b, good).held) <= Stored(p, i, b, good).haveBlocks
         /\ Stored(p, i, b, good).haveBlocks <= NumBlocks[i]
<1> DEFINE e == queue[p][Position(p, i)]
           s == Stored(p, i, b, good)
<1>1. Position(p, i) \in DOMAIN queue[p] /\ e.index = i /\ b \in Blocks(i)
  BY PositionInQueue DEF Accepting
<1>2. e \in WaitingEntry
  <2>1. queue[p] \in Seq(WaitingEntry)
    BY DEF QueueEntryIncomplete
  <2> QED
    BY <1>1, <2>1, LenProperties, ElementOfSeq
<1>3. /\ s.index = e.index
      /\ s.haveBlocks = e.haveBlocks + 1
      /\ s.held = e.held \cup {b}
      /\ s \in Entry
  <2>1. b \in Nat
    BY <1>1, ExchangeAssumption DEF Blocks, Pieces
  <2>2. e \in Entry
    BY <1>2 DEF WaitingEntry
  <2> HIDE DEF e
  <2>3. /\ Store(e, b, good) \in Entry
        /\ Store(e, b, good).index = e.index
        /\ Store(e, b, good).haveBlocks = e.haveBlocks + 1
        /\ Store(e, b, good).held = e.held \cup {b}
    BY <2>1, <2>2 DEF Store, Entry
  <2> QED
    BY <2>3 DEF Stored, e
<1>4. e.haveBlocks \in Nat /\ NumBlocks[i] \in Nat /\ e.haveBlocks < NumBlocks[i]
  BY <1>1, <1>2, ExchangeAssumption DEF WaitingEntry, Entry
<1>5. IsFiniteSet(e.held) /\ Cardinality(e.held) \in Nat
  <2>1. e.held \in SUBSET Blocks(i)
    BY <1>1, <1>2 DEF WaitingEntry
  <2>2. IsFiniteSet(Blocks(i))
    BY <1>4, FS_Interval DEF Blocks
  <2> QED
    BY <2>1, <2>2, FS_Subset, FS_CardinalityType
<1>6. Cardinality(s.held) <= Cardinality(e.held) + 1
  <2>1. Cardinality(e.held \cup {b}) <= Cardinality(e.held) + 1
    <3> HIDE DEF e
    <3>1. \/ Cardinality(e.held \cup {b}) = Cardinality(e.held)
          \/ Cardinality(e.held \cup {b}) = Cardinality(e.held) + 1
      BY <1>5, FS_AddElement
    <3> QED
      BY <1>5, <3>1
  <2> QED
    BY <1>3, <2>1
<1>7. s.held \subseteq Blocks(i) /\ Cardinality(e.held) <= e.haveBlocks
  BY <1>1, <1>2, <1>3 DEF WaitingEntry
<1>8. Cardinality(s.held) \in Nat
  BY <1>3, <1>5, FS_AddElement, FS_CardinalityType
<1>9. Cardinality(s.held) <= s.haveBlocks /\ s.haveBlocks <= NumBlocks[i]
  BY <1>3, <1>4, <1>5, <1>6, <1>7, <1>8
<1> QED
  BY <1>1, <1>3, <1>7, <1>9

\* erase leaves a queue of waiting entries.
LEMMA RestOfQueue ==
  ASSUME TypeOK, QueueEntryIncomplete, NEW p \in Peer, NEW i, Position(p, i) # 0
  PROVE  RemoveAt(queue[p], Position(p, i)) \in Seq(WaitingEntry)
<1>1. queue[p] \in Seq(WaitingEntry)
  BY DEF QueueEntryIncomplete
<1> QED
  BY <1>1, PositionInQueue, RemoveAtProperties

\* A queue of waiting entries has the type of pieceQueue.
LEMMA WaitingIsEntry ==
  ASSUME NEW q \in Seq(WaitingEntry)
  PROVE  q \in Seq(Entry)
<1>1. WaitingEntry \subseteq Entry
  BY DEF WaitingEntry
<1> QED
  BY <1>1, SeqMonotonic

\* finished is a finite set, and the count of its elements is in its type.
LEMMA FinishedCount ==
  ASSUME NEW S \in SUBSET Pieces
  PROVE  IsFiniteSet(S) /\ Cardinality(S) \in 0 .. NumPieces
<1>1. IsFiniteSet(Pieces) /\ Cardinality(Pieces) = NumPieces
  BY ExchangeAssumption, FS_Interval DEF Pieces
<1>2. IsFiniteSet(S) /\ Cardinality(S) <= NumPieces
  BY <1>1, FS_Subset
<1> QED
  BY <1>2, FS_CardinalityType, ExchangeAssumption

-----------------------------------------------------------------------------
(***************************************************************************)
(* The parts of the inductive invariant: what the torrent holds, and what  *)
(* the sessions hold.                                                      *)
(***************************************************************************)
TorrentInv ==
  /\ finished \in SUBSET Pieces
  /\ completedPieces \in 0 .. NumPieces
  /\ pieceHashMisses \in Nat
  /\ disk \in [Pieces -> DiskContent]
  /\ terminated \in BOOLEAN
  /\ FinishedIsVerified
  /\ CompletedPiecesIsFinished

SessionInv ==
  /\ priority \in [Pieces -> Nat]
  /\ activePeers \in SUBSET Peer
  /\ open \in [Peer -> BOOLEAN]
  /\ state \in [Peer -> SUBSET Flag]
  /\ has \in [Peer -> SUBSET (0 .. NumPieces)]
  /\ queue \in [Peer -> Seq(WaitingEntry)]
  /\ sent \in Writes

LEMMA PartsOfIInv ==
  /\ IInv <=> TorrentInv /\ SessionInv
  /\ IInv' <=> TorrentInv' /\ SessionInv'
<1>1. \A f \in [Peer -> Seq(WaitingEntry)] : f \in [Peer -> Seq(Entry)]
  BY WaitingIsEntry
<1>2. IInv <=> TorrentInv /\ SessionInv
  BY <1>1 DEF IInv, TorrentInv, SessionInv, TypeOK, QueueEntryIncomplete, Writes
<1>3. IInv' <=> TorrentInv' /\ SessionInv'
  BY <1>1 DEF IInv, TorrentInv, SessionInv, TypeOK, QueueEntryIncomplete, Writes
<1> QED
  BY <1>2, <1>3

LEMMA TorrentUntouched ==
  ASSUME TorrentInv, UNCHANGED <<finished, completedPieces, pieceHashMisses, disk, terminated>>
  PROVE  TorrentInv'
BY DEF TorrentInv, FinishedIsVerified, CompletedPiecesIsFinished

LEMMA InitIInv == Init => IInv
<1> SUFFICES ASSUME Init  PROVE TorrentInv /\ SessionInv
  BY PartsOfIInv
<1>1. TorrentInv
  <2>1. 0 \in 0 .. NumPieces
    BY ExchangeAssumption
  <2>2. CompletedPiecesIsFinished
    BY FS_EmptySet DEF Init, CompletedPiecesIsFinished
  <2> QED
    BY <2>1, <2>2 DEF Init, InitialDisk, TorrentInv, FinishedIsVerified, DiskContent
<1>2. SessionInv
  BY SilentType DEF Init, SessionInv, InitialState, Flag
<1> QED
  BY <1>1, <1>2

(***************************************************************************)
(* The end of a session.                                                   *)
(***************************************************************************)
LEMMA CloseSessionKeepsIInv ==
  ASSUME IInv, NEW p \in Peer, CloseSession(p), activePeers' \in SUBSET Peer
  PROVE  IInv'
<1>1. TorrentInv /\ SessionInv
  BY PartsOfIInv
<1>2. TorrentInv'
  BY <1>1, TorrentUntouched DEF CloseSession, torrentVars
<1>3. SessionInv'
  BY <1>1, SilentType DEF SessionInv, CloseSession, InitialState, Flag, torrentVars
<1> QED
  BY <1>2, <1>3, PartsOfIInv

LEMMA HandleErrorKeepsIInv ==
  ASSUME IInv, NEW p \in Peer, HandleError(p)
  PROVE  IInv'
BY CloseSessionKeepsIInv DEF HandleError, IInv, TypeOK

(***************************************************************************)
(* Handlers that change neither the torrent nor the queues.                *)
(***************************************************************************)
LEMMA QuietHandlersKeepIInv ==
  ASSUME IInv, NEW p \in Peer,
         \/ \E incoming \in BOOLEAN : Handshaked(p, incoming)
         \/ Unlist(p) \/ Choke(p) \/ Unchoke(p) \/ Interested(p) \/ NotInterested(p)
         \/ \E i \in 0 .. NumPieces : Have(p, i)
  PROVE  IInv'
<1> USE DEF torrentVars
<1>1. TorrentInv /\ SessionInv
  BY PartsOfIInv
<1>2. TorrentInv'
  BY <1>1, TorrentUntouched
     DEF Handshaked, Unlist, Choke, Unchoke, Interested, NotInterested, Have
<1>3. UNCHANGED <<priority, queue>>
  BY DEF Handshaked, Unlist, Choke, Unchoke, Interested, NotInterested, Have
<1>4. ASSUME NEW t \in MessageType  PROVE Write(p, <<Signal(t)>>) \in Writes
  <2>1. <<Signal(t)>> \in Seq(Message)
    BY <1>4, MessageTypes
  <2> QED
    BY <2>1, WriteType
<1>5. SessionInv'
  <2>1. CASE \E incoming \in BOOLEAN : Handshaked(p, incoming)
    BY <1>1, <1>4, <2>1, SilentType DEF Handshaked, SessionInv, MessageType
  <2>2. CASE Unlist(p)
    BY <1>1, <2>2, SilentType DEF Unlist, SessionInv
  <2>3. CASE Choke(p)
    BY <1>1, <2>3, SilentType DEF Choke, SessionInv, Flag
  <2>4. CASE Unchoke(p)
    <3> DEFINE messages == [k \in DOMAIN queue[p] |-> Msg("request", queue[p][k].index)]
    <3>1. messages \in Seq(Message)
      <4>1. queue[p] \in Seq(Entry)
        BY DEF IInv, TypeOK
      <4>2. Len(queue[p]) \in Nat /\ DOMAIN queue[p] = 1 .. Len(queue[p])
        BY <4>1, LenProperties
      <4>3. \A k \in DOMAIN queue[p] : Msg("request", queue[p][k].index) \in Message
        <5>1. ASSUME NEW k \in DOMAIN queue[p]  PROVE queue[p][k].index \in Pieces
          <6>1. queue[p][k] \in Entry
            BY <4>1, <4>2, ElementOfSeq
          <6> QED
            BY <6>1 DEF Entry
        <5> QED
          BY <5>1, MessageTypes DEF MessageType
      <4>4. messages \in [1 .. Len(queue[p]) -> Message]
        BY <4>2, <4>3
      <4> QED
        BY <4>2, <4>4
    <3>2. sent' \in Writes
      BY <2>4, <3>1, WriteType DEF Unchoke
    <3> QED
      BY <1>1, <2>4, <3>2 DEF Unchoke, SessionInv
  <2>5. CASE Interested(p)
    BY <1>1, <1>4, <2>5, SilentType DEF Interested, SessionInv, Flag, MessageType
  <2>6. CASE NotInterested(p)
    BY <1>1, <2>6, SilentType DEF NotInterested, SessionInv
  <2>7. CASE \E i \in 0 .. NumPieces : Have(p, i)
    BY <1>1, <2>7, SilentType DEF Have, SessionInv
  <2> QED
    BY <2>1, <2>2, <2>3, <2>4, <2>5, <2>6, <2>7
<1> QED
  BY <1>2, <1>5, PartsOfIInv

(***************************************************************************)
(* REQUEST.                                                                *)
(***************************************************************************)
LEMMA RequestKeepsIInv ==
  ASSUME IInv, NEW p \in Peer, NEW i \in 0 .. NumPieces, NEW range \in RequestRange,
         Request(p, i, range)
  PROVE  IInv'
<1>1. CASE RequestRefused(p, range)
  BY <1>1, HandleErrorKeepsIInv DEF RequestRefused
<1>2. CASE RequestDisconnects(p, i, range)
  BY <1>2, CloseSessionKeepsIInv DEF RequestDisconnects, IInv, TypeOK
<1>3. CASE RequestIgnored(p, i, range) \/ RequestServed(p, i, range)
  <2>1. TorrentInv /\ SessionInv
    BY PartsOfIInv
  <2>2. UNCHANGED <<torrentVars, peerVars>>
    BY <1>3 DEF RequestIgnored, RequestServed
  <2>3. sent' \in Writes
    <3>1. CASE RequestIgnored(p, i, range)
      BY <3>1, SilentType DEF RequestIgnored
    <3>2. CASE RequestServed(p, i, range)
      <4>1. i \in Pieces
        BY <3>2 DEF RequestServed, IInv, TypeOK
      <4>2. Msg("piece", i) \in Message /\ Stray \in Message
        BY <4>1, MessageTypes DEF MessageType, Stray
      <4>3. PICK block \in BlockRead(i, range) : sent' = Write(p, block)
        BY <3>2 DEF RequestServed
      <4>4. block \in {<<>>, <<Msg("piece", i)>>, <<Stray>>}
        BY DEF BlockRead
      <4>5. /\ <<>> \in Seq(Message) /\ <<Msg("piece", i)>> \in Seq(Message)
            /\ <<Stray>> \in Seq(Message)
        BY <4>2
      <4> QED
        BY <4>3, <4>4, <4>5, WriteType
    <3> QED
      BY <1>3, <3>1, <3>2
  <2>4. TorrentInv'
    BY <2>1, <2>2, TorrentUntouched DEF torrentVars
  <2>5. SessionInv'
    BY <2>1, <2>2, <2>3 DEF SessionInv, torrentVars, peerVars
  <2> QED
    BY <2>4, <2>5, PartsOfIInv
<1> QED
  BY <1>1, <1>2, <1>3 DEF Request

(***************************************************************************)
(* BITFIELD.                                                               *)
(***************************************************************************)
LEMMA BitfieldKeepsIInv ==
  ASSUME IInv, NEW p \in Peer, NEW pieces \in SUBSET Pieces, Bitfield(p, pieces)
  PROVE  IInv'
<1>1. TorrentInv /\ SessionInv
  BY PartsOfIInv
<1>2. TorrentInv'
  BY <1>1, TorrentUntouched DEF Bitfield
<1>3. /\ priority' \in [Pieces -> Nat]
      /\ state' \in [Peer -> SUBSET Flag]
      /\ queue' \in [Peer -> Seq(WaitingEntry)]
      /\ sent' \in Writes
  <2>1. queue[p] \in Seq(WaitingEntry)
    BY <1>1 DEF SessionInv
  <2> QED
    BY <2>1, RequestNextType, SilentType DEF Bitfield, IInv
<1>4. has' \in [Peer -> SUBSET (0 .. NumPieces)]
  <2>1. pieces \subseteq 0 .. NumPieces
    BY ExchangeAssumption DEF Pieces
  <2> QED
    BY <1>1, <2>1 DEF Bitfield, SessionInv
<1>5. SessionInv'
  BY <1>1, <1>3, <1>4 DEF Bitfield, SessionInv
<1> QED
  BY <1>2, <1>5, PartsOfIInv

(***************************************************************************)
(* PIECE_BLOCK.                                                            *)
(***************************************************************************)
LEMMA BlockCancelledKeepsIInv ==
  ASSUME IInv, NEW p \in Peer, NEW i \in Pieces, NEW b, BlockCancelled(p, i, b)
  PROVE  IInv'
<1>1. TorrentInv /\ SessionInv
  BY PartsOfIInv
<1>2. TorrentInv'
  BY <1>1, TorrentUntouched DEF BlockCancelled, torrentVars
<1>3. RemoveAt(queue[p], Position(p, i)) \in Seq(WaitingEntry)
  BY RestOfQueue DEF IInv, BlockCancelled
<1>4. sent' \in Writes
  <2>1. <<Msg("cancel", i)>> \in Seq(Message)
    BY MessageTypes DEF MessageType
  <2> QED
    BY <2>1, WriteType DEF BlockCancelled
<1>5. SessionInv'
  BY <1>1, <1>3, <1>4 DEF BlockCancelled, SessionInv, torrentVars
<1> QED
  BY <1>2, <1>5, PartsOfIInv

LEMMA BlockStoredKeepsIInv ==
  ASSUME IInv, NEW p \in Peer, NEW i \in Pieces, NEW b, NEW good \in BOOLEAN,
         BlockStored(p, i, b, good)
  PROVE  IInv'
<1> DEFINE k == Position(p, i)
           s == Stored(p, i, b, good)
<1>1. TorrentInv /\ SessionInv
  BY PartsOfIInv
<1>2. TorrentInv'
  BY <1>1, TorrentUntouched DEF BlockStored, torrentVars
<1>3. k \in DOMAIN queue[p] /\ s \in WaitingEntry
  <2>1. Accepting(p, i, b) /\ s.haveBlocks # NumBlocks[i]
    BY DEF BlockStored
  <2>2. /\ k \in DOMAIN queue[p]
        /\ s \in Entry
        /\ s.index = i
        /\ s.held \subseteq Blocks(i)
        /\ Cardinality(s.held) <= s.haveBlocks
        /\ s.haveBlocks <= NumBlocks[i]
    BY <2>1, StoredType DEF IInv
  <2>3. s.haveBlocks \in Nat /\ NumBlocks[i] \in Nat
    BY <2>2, ExchangeAssumption DEF Entry
  <2> HIDE DEF s
  <2>4. s.haveBlocks < NumBlocks[i]
    BY <2>1, <2>2, <2>3
  <2> QED
    BY <2>2, <2>4 DEF WaitingEntry
<1>4. [queue[p] EXCEPT ![k] = s] \in Seq(WaitingEntry)
  <2>1. queue[p] \in Seq(WaitingEntry)
    BY <1>1 DEF SessionInv
  <2> HIDE DEF k, s
  <2> QED
    BY <1>3, <2>1, LenProperties, ExceptSeq
<1>5. queue' = [queue EXCEPT ![p] = [queue[p] EXCEPT ![k] = s]]
  BY DEF BlockStored
<1>6. SessionInv'
  <2> HIDE DEF k, s
  <2> QED
    BY <1>1, <1>4, <1>5, SilentType DEF BlockStored, SessionInv, torrentVars
<1> QED
  BY <1>2, <1>6, PartsOfIInv

\* After the last block the queue loses the entry and may gain a new one.
LEMMA LastBlockSession ==
  ASSUME IInv, NEW p \in Peer, NEW i \in Pieces, NEW b, NEW good \in BOOLEAN,
         LastBlock(p, i, b, good),
         NEW done, NEW completed, NEW said \in Writes,
         RequestNext(p, RemoveAt(queue[p], Position(p, i)), has[p], done, completed, said),
         UNCHANGED <<activePeers, open, has>>
  PROVE  SessionInv'
<1>1. SessionInv
  BY PartsOfIInv
<1>2. RemoveAt(queue[p], Position(p, i)) \in Seq(WaitingEntry)
  BY RestOfQueue DEF IInv, LastBlock, Accepting
<1>3. /\ priority' \in [Pieces -> Nat]
      /\ state' \in [Peer -> SUBSET Flag]
      /\ queue' \in [Peer -> Seq(WaitingEntry)]
      /\ sent' \in Writes
  BY <1>2, RequestNextType DEF IInv
<1> QED
  BY <1>1, <1>3 DEF SessionInv

LEMMA PieceMismatchKeepsIInv ==
  ASSUME IInv, NEW p \in Peer, NEW i \in Pieces, NEW b, NEW good \in BOOLEAN,
         PieceMismatch(p, i, b, good)
  PROVE  IInv'
<1>1. TorrentInv
  BY PartsOfIInv
<1>2. TorrentInv'
  BY <1>1 DEF PieceMismatch, TorrentInv, FinishedIsVerified, CompletedPiecesIsFinished
<1>3. SessionInv'
  BY LastBlockSession, SilentType DEF PieceMismatch
<1> QED
  BY <1>2, <1>3, PartsOfIInv

LEMMA PieceCompletedKeepsIInv ==
  ASSUME IInv, NEW p \in Peer, NEW i \in Pieces, NEW b, NEW good \in BOOLEAN,
         PieceCompleted(p, i, b, good)
  PROVE  IInv'
<1>1. TorrentInv
  BY PartsOfIInv
<1>2. i \notin finished
  BY DEF PieceCompleted, LastBlock, Accepting
<1>3. disk' = [disk EXCEPT ![i] = "verified"]
  BY DEF PieceCompleted, HashMatches
<1>4. finished' = finished \cup {i} /\ completedPieces' = completedPieces + 1
  BY DEF PieceCompleted
<1>5. completedPieces' = Cardinality(finished') /\ completedPieces' \in 0 .. NumPieces
  <2>1. IsFiniteSet(finished) /\ completedPieces = Cardinality(finished)
    BY <1>1, FinishedCount DEF TorrentInv, CompletedPiecesIsFinished
  <2>2. Cardinality(finished \cup {i}) = Cardinality(finished) + 1
    BY <1>2, <2>1, FS_AddElement
  <2>3. finished \cup {i} \in SUBSET Pieces
    BY <1>1 DEF TorrentInv
  <2>4. Cardinality(finished \cup {i}) \in 0 .. NumPieces
    BY <2>3, FinishedCount
  <2> QED
    BY <1>4, <2>1, <2>2, <2>4
<1>6. TorrentInv'
  <2>1. \A j \in finished' : disk'[j] = "verified"
    BY <1>1, <1>3, <1>4 DEF TorrentInv, FinishedIsVerified
  <2>2. finished' \in SUBSET Pieces /\ disk' \in [Pieces -> DiskContent]
    BY <1>1, <1>3, <1>4 DEF TorrentInv, DiskContent
  <2>3. pieceHashMisses' \in Nat /\ terminated' \in BOOLEAN
    BY <1>1 DEF TorrentInv, PieceCompleted
  <2> QED
    BY <1>5, <2>1, <2>2, <2>3 DEF TorrentInv, FinishedIsVerified, CompletedPiecesIsFinished
<1>7. HaveBroadcast(i) \in Writes
  <2>1. <<Msg("have", i)>> \in Seq(Message) /\ <<>> \in Seq(Message)
    BY MessageTypes DEF MessageType
  <2> QED
    BY <2>1 DEF HaveBroadcast, Writes
<1>8. SessionInv'
  BY <1>7, LastBlockSession DEF PieceCompleted
<1> QED
  BY <1>6, <1>8, PartsOfIInv

LEMMA DiskFailureKeepsIInv ==
  ASSUME IInv, NEW p \in Peer, NEW i \in Pieces, NEW b, NEW good \in BOOLEAN,
         DiskFailure(p, i, b, good)
  PROVE  IInv'
<1>1. TorrentInv /\ SessionInv
  BY PartsOfIInv
<1>2. i \notin finished
  BY DEF DiskFailure, LastBlock, Accepting
<1>3. TorrentInv'
  BY <1>1, <1>2
     DEF DiskFailure, TorrentInv, FinishedIsVerified, CompletedPiecesIsFinished, DiskContent
<1>4. SessionInv'
  BY <1>1, SilentType DEF DiskFailure, SessionInv, peerVars
<1> QED
  BY <1>3, <1>4, PartsOfIInv

-----------------------------------------------------------------------------
LEMMA StutterKeepsIInv == IInv /\ UNCHANGED vars => IInv'
BY PartsOfIInv, TorrentUntouched DEF SessionInv, vars, torrentVars, peerVars

LEMMA NextKeepsIInv ==
  ASSUME IInv, Next
  PROVE  IInv'
<1> PICK p \in Peer :
      \/ \E incoming \in BOOLEAN : Handshaked(p, incoming)
      \/ SessionError(p)
      \/ Unlist(p)
      \/ Choke(p)
      \/ Unchoke(p)
      \/ Interested(p)
      \/ NotInterested(p)
      \/ \E i \in 0 .. NumPieces : Have(p, i)
      \/ \E pieces \in SUBSET Pieces : Bitfield(p, pieces)
      \/ \E i \in 0 .. NumPieces, range \in RequestRange : Request(p, i, range)
      \/ \E i \in Pieces, good \in BOOLEAN :
           \E b \in 0 .. NumBlocks[i] : PieceBlock(p, i, b, good)
  BY DEF Next
<1>1. CASE SessionError(p)
  BY <1>1, HandleErrorKeepsIInv DEF SessionError
<1>2. CASE \/ \E incoming \in BOOLEAN : Handshaked(p, incoming)
           \/ Unlist(p) \/ Choke(p) \/ Unchoke(p) \/ Interested(p) \/ NotInterested(p)
           \/ \E i \in 0 .. NumPieces : Have(p, i)
  BY <1>2, QuietHandlersKeepIInv
<1>3. CASE \E pieces \in SUBSET Pieces : Bitfield(p, pieces)
  BY <1>3, BitfieldKeepsIInv
<1>4. CASE \E i \in 0 .. NumPieces, range \in RequestRange : Request(p, i, range)
  BY <1>4, RequestKeepsIInv
<1>5. CASE \E i \in Pieces, good \in BOOLEAN :
            \E b \in 0 .. NumBlocks[i] : PieceBlock(p, i, b, good)
  <2> PICK i \in Pieces, good \in BOOLEAN :
             \E b \in 0 .. NumBlocks[i] : PieceBlock(p, i, b, good)
    BY <1>5
  <2> PICK b \in 0 .. NumBlocks[i] : PieceBlock(p, i, b, good)
    OBVIOUS
  <2>1. CASE BlockRefused(p, i, b)
    BY <2>1, HandleErrorKeepsIInv DEF BlockRefused
  <2>2. CASE BlockCancelled(p, i, b)
    BY <2>2, BlockCancelledKeepsIInv
  <2>3. CASE BlockStored(p, i, b, good)
    BY <2>3, BlockStoredKeepsIInv
  <2>4. CASE PieceMismatch(p, i, b, good)
    BY <2>4, PieceMismatchKeepsIInv
  <2>5. CASE PieceCompleted(p, i, b, good)
    BY <2>5, PieceCompletedKeepsIInv
  <2>6. CASE DiskFailure(p, i, b, good)
    BY <2>6, DiskFailureKeepsIInv
  <2> QED
    BY <2>1, <2>2, <2>3, <2>4, <2>5, <2>6 DEF PieceBlock
<1> QED
  BY <1>1, <1>2, <1>3, <1>4, <1>5

\* The inductive invariant holds in every reachable state.
THEOREM ExchangeInvariant == Spec => []IInv
<1>1. Init => IInv
  BY InitIInv
<1>2. IInv /\ [Next]_vars => IInv'
  BY NextKeepsIInv, StutterKeepsIInv
<1> QED
  BY <1>1, <1>2, PTL DEF Spec

\* Every variable keeps its type, and the counter of download() its bound.
THEOREM ExchangeTypeOK == Spec => []TypeOK
BY ExchangeInvariant, PTL DEF IInv

\* Whatever the peers send, a piece that counts as finished is in the file with
\* the bytes its hash stands for.
THEOREM FinishedPiecesVerified == Spec => []FinishedIsVerified
BY ExchangeInvariant, PTL DEF IInv

\* The counter download() waits for is the number of finished pieces.
THEOREM CountMatchesFinished == Spec => []CompletedPiecesIsFinished
BY ExchangeInvariant, PTL DEF IInv

\* No entry of a pieceQueue reaches its block count without being assembled.
THEOREM QueuedPiecesWait == Spec => []QueueEntryIncomplete
BY ExchangeInvariant, PTL DEF IInv

-----------------------------------------------------------------------------
(***************************************************************************)
(* What a step writes.                                                     *)
(***************************************************************************)
NotServing == {m \in Message : m.type # "piece"}
Plain == {m \in NotServing : m.type # "request"}

\* The three kinds of steps.
WritesPlain == sent' \in [Peer -> Seq(Plain)]

Asks(p) ==
  /\ open[p] /\ "PEER_CHOKING" \notin state'[p]
  /\ sent' \in [Peer -> Seq(NotServing)]
  /\ \A r \in Peer \ {p} : sent'[r] \in Seq(Plain)

\* What a block that is sent may be of: a finished piece, or, once a piece of
\* FarReach is finished, none that was asked for (Stray).
Servable == finished \cup {i \in {NumPieces} : finished \cap FarReach # {}}

Serves(p, i) ==
  /\ sent' = Write(p, <<Msg("piece", i)>>)
  /\ UNCHANGED torrentVars

-----------------------------------------------------------------------------
(***************************************************************************)
(* Messages and their kinds.                                               *)
(***************************************************************************)
LEMMA PlainMessages ==
  /\ \A t \in MessageType \ {"request", "piece"} : Signal(t) \in Plain
  /\ \A t \in MessageType \ {"request", "piece"}, i \in Pieces : Msg(t, i) \in Plain
  /\ \A i \in Pieces : Msg("request", i) \in NotServing
  /\ Plain \subseteq NotServing
<1>1. \A t, i : Msg(t, i).type = t /\ Signal(t).type = t
  BY DEF Msg, Signal
<1> QED
  BY <1>1, MessageTypes DEF Plain, NotServing, MessageType

LEMMA PlainWrites ==
  /\ Silent \in [Peer -> Seq(Plain)]
  /\ \A p \in Peer, m \in Plain : Write(p, <<m>>) \in [Peer -> Seq(Plain)]
<1>1. Silent \in [Peer -> Seq(Plain)]
  BY DEF Silent
<1>2. \A m \in Plain : <<m>> \in Seq(Plain)
  OBVIOUS
<1> QED
  BY <1>1, <1>2 DEF Write

LEMMA PlainIsNotServing ==
  ASSUME NEW messages \in [Peer -> Seq(Plain)]
  PROVE  messages \in [Peer -> Seq(NotServing)]
<1>1. Seq(Plain) \subseteq Seq(NotServing)
  BY PlainMessages, SeqMonotonic
<1> QED
  BY <1>1

-----------------------------------------------------------------------------
(***************************************************************************)
(* The kind of each handler.                                               *)
(***************************************************************************)
\* Asking for another piece, after plain messages, is plain or asks one peer.
LEMMA RequestNextKind ==
  ASSUME TypeOK, NEW p \in Peer, open[p], NEW q, NEW pieces, NEW done, NEW completed,
         NEW said \in [Peer -> Seq(Plain)],
         RequestNext(p, q, pieces, done, completed, said)
  PROVE  WritesPlain \/ Asks(p)
<1>1. Signal("interested") \in Plain
  BY PlainMessages DEF MessageType
<1>2. CASE "PEER_CHOKING" \in state[p]
  BY <1>1, <1>2, RequestNextWrites DEF WritesPlain
<1>3. CASE "PEER_CHOKING" \notin state[p]
  <2>1. "PEER_CHOKING" \notin state'[p]
    BY <1>3 DEF RequestNext, SelectPieceAndRequest, SendPieceRequest, TypeOK
  <2>2. \A r \in Peer \ {p} : sent'[r] = said[r]
    BY DEF RequestNext, SelectPieceAndRequest, SendPieceRequest
  <2>3. sent' \in [Peer -> Seq(NotServing)]
    BY <1>1, RequestNextWrites, PlainIsNotServing, PlainMessages
  <2> QED
    BY <2>1, <2>2, <2>3 DEF Asks
<1> QED
  BY <1>2, <1>3

LEMMA UnchokeKind ==
  ASSUME TypeOK, NEW p \in Peer, Unchoke(p)
  PROVE  Asks(p)
<1> DEFINE messages == [k \in DOMAIN queue[p] |-> Msg("request", queue[p][k].index)]
<1>1. messages \in Seq(NotServing)
  <2>1. queue[p] \in Seq(Entry)
    BY DEF TypeOK
  <2>2. Len(queue[p]) \in Nat /\ DOMAIN queue[p] = 1 .. Len(queue[p])
    BY <2>1, LenProperties
  <2>3. ASSUME NEW k \in DOMAIN queue[p]
        PROVE  Msg("request", queue[p][k].index) \in NotServing
    <3>1. queue[p][k] \in Entry
      BY <2>1, <2>2, ElementOfSeq
    <3> QED
      BY <3>1, PlainMessages DEF Entry
  <2>4. messages \in [1 .. Len(queue[p]) -> NotServing]
    BY <2>2, <2>3
  <2> QED
    BY <2>2, <2>4
<1>2. sent' = Write(p, messages)
  BY DEF Unchoke
<1>3. Silent \in [Peer -> Seq(Plain)] /\ Silent \in [Peer -> Seq(NotServing)]
  BY PlainWrites, PlainIsNotServing
<1>4. sent' \in [Peer -> Seq(NotServing)] /\ \A r \in Peer \ {p} : sent'[r] \in Seq(Plain)
  <2> HIDE DEF messages
  <2> QED
    BY <1>1, <1>2, <1>3 DEF Write
<1>5. open[p] /\ "PEER_CHOKING" \notin state'[p]
  BY DEF Unchoke, Receiving, TypeOK
<1> QED
  BY <1>4, <1>5 DEF Asks

LEMMA BlockKind ==
  ASSUME TypeOK, NEW p \in Peer, NEW i \in Pieces, NEW b, NEW good,
         PieceBlock(p, i, b, good)
  PROVE  WritesPlain \/ Asks(p)
<1>1. CASE BlockRefused(p, i, b) \/ BlockStored(p, i, b, good) \/ DiskFailure(p, i, b, good)
  BY <1>1, PlainWrites
     DEF BlockRefused, HandleError, CloseSession, BlockStored, DiskFailure, WritesPlain
<1>2. CASE BlockCancelled(p, i, b)
  BY <1>2, PlainWrites, PlainMessages DEF BlockCancelled, WritesPlain, MessageType
<1>3. CASE PieceMismatch(p, i, b, good)
  <2>1. open[p]
    BY <1>3 DEF PieceMismatch, LastBlock, Accepting, Receiving
  <2> QED
    BY <1>3, <2>1, RequestNextKind, PlainWrites DEF PieceMismatch
<1>4. CASE PieceCompleted(p, i, b, good)
  <2>1. open[p]
    BY <1>4 DEF PieceCompleted, LastBlock, Accepting, Receiving
  <2>2. HaveBroadcast(i) \in [Peer -> Seq(Plain)]
    <3>1. <<Msg("have", i)>> \in Seq(Plain) /\ <<>> \in Seq(Plain)
      BY PlainMessages DEF MessageType
    <3> QED
      BY <3>1 DEF HaveBroadcast
  <2> QED
    BY <1>4, <2>1, <2>2, RequestNextKind DEF PieceCompleted
<1> QED
  BY <1>1, <1>2, <1>3, <1>4 DEF PieceBlock

LEMMA StepKind ==
  ASSUME IInv, Next
  PROVE  \/ WritesPlain
         \/ \E p \in Peer : Asks(p)
         \/ \E p \in Peer, i \in Servable : Serves(p, i)
<1>1. TypeOK
  BY DEF IInv
<1> PICK p \in Peer :
      \/ \E incoming \in BOOLEAN : Handshaked(p, incoming)
      \/ SessionError(p)
      \/ Unlist(p)
      \/ Choke(p)
      \/ Unchoke(p)
      \/ Interested(p)
      \/ NotInterested(p)
      \/ \E i \in 0 .. NumPieces : Have(p, i)
      \/ \E pieces \in SUBSET Pieces : Bitfield(p, pieces)
      \/ \E i \in 0 .. NumPieces, range \in RequestRange : Request(p, i, range)
      \/ \E i \in Pieces, good \in BOOLEAN :
           \E b \in 0 .. NumBlocks[i] : PieceBlock(p, i, b, good)
  BY DEF Next
<1>2. CASE \/ \E incoming \in BOOLEAN : Handshaked(p, incoming)
           \/ SessionError(p) \/ Unlist(p) \/ Choke(p) \/ Interested(p) \/ NotInterested(p)
           \/ \E i \in 0 .. NumPieces : Have(p, i)
  <2>1. Write(p, <<Signal("bitfield")>>) \in [Peer -> Seq(Plain)]
    BY PlainWrites, PlainMessages DEF MessageType
  <2>2. Write(p, <<Signal("unchoke")>>) \in [Peer -> Seq(Plain)]
    BY PlainWrites, PlainMessages DEF MessageType
  <2> QED
    BY <1>2, <2>1, <2>2, PlainWrites
       DEF Handshaked, SessionError, HandleError, CloseSession, Unlist, Choke, Interested,
           NotInterested, Have, WritesPlain
<1>3. CASE Unchoke(p)
  BY <1>1, <1>3, UnchokeKind
<1>4. CASE \E pieces \in SUBSET Pieces : Bitfield(p, pieces)
  <2>1. open[p]
    BY <1>4 DEF Bitfield, Receiving
  <2> QED
    BY <1>1, <1>4, <2>1, RequestNextKind, PlainWrites DEF Bitfield
<1>5. CASE \E i \in 0 .. NumPieces, range \in RequestRange : Request(p, i, range)
  <2> PICK i \in 0 .. NumPieces, range \in RequestRange : Request(p, i, range)
    BY <1>5
  <2>1. CASE RequestServed(p, i, range)
    <3>1. PICK block \in BlockRead(i, range) : sent' = Write(p, block)
      BY <2>1 DEF RequestServed
    <3>2. CASE block = <<>>
      <4>1. sent' \in [Peer -> Seq(Plain)]
        BY <3>1, <3>2, PlainWrites DEF Write
      <4> QED
        BY <4>1 DEF WritesPlain
    <3>3. CASE block = <<Msg("piece", i)>>
      BY <2>1, <3>1, <3>3 DEF RequestServed, Serves, Servable
    <3>4. CASE i \in FarReach /\ block = <<Stray>>
      <4>1. NumPieces \in Servable
        BY <2>1, <3>4 DEF RequestServed, Servable
      <4>2. Stray = Msg("piece", NumPieces)
        BY DEF Stray, Signal
      <4>3. Serves(p, NumPieces)
        BY <2>1, <3>1, <3>4, <4>2 DEF RequestServed, Serves
      <4> QED
        BY <4>1, <4>3
    <3> QED
      BY <3>1, <3>2, <3>3, <3>4 DEF BlockRead
  <2>2. CASE \/ RequestRefused(p, range) \/ RequestIgnored(p, i, range)
             \/ RequestDisconnects(p, i, range)
    BY <2>2, PlainWrites
       DEF RequestRefused, HandleError, CloseSession, RequestIgnored, RequestDisconnects,
           WritesPlain
  <2> QED
    BY <2>1, <2>2 DEF Request
<1>6. CASE \E i \in Pieces, good \in BOOLEAN :
            \E b \in 0 .. NumBlocks[i] : PieceBlock(p, i, b, good)
  BY <1>1, <1>6, BlockKind
<1> QED
  BY <1>2, <1>3, <1>4, <1>5, <1>6

-----------------------------------------------------------------------------
(***************************************************************************)
(* The properties of steps.                                                *)
(***************************************************************************)
LEMMA PlainSays ==
  ASSUME NEW p \in Peer, sent'[p] \in Seq(Plain)
  PROVE  ~Says(p, "request") /\ ~Says(p, "piece")
<1>1. ASSUME NEW k \in DOMAIN sent'[p]  PROVE sent'[p][k] \in Plain
  BY LenProperties, ElementOfSeq
<1> QED
  BY <1>1 DEF Says, Plain, NotServing

LEMMA NotServingSays ==
  ASSUME NEW p \in Peer, sent'[p] \in Seq(NotServing)
  PROVE  ~Says(p, "piece")
<1>1. ASSUME NEW k \in DOMAIN sent'[p]  PROVE sent'[p][k] \in NotServing
  BY LenProperties, ElementOfSeq
<1> QED
  BY <1>1 DEF Says, NotServing

\* What a step that serves a block writes.
LEMMA ServesSays ==
  ASSUME NEW p \in Peer, NEW i, Serves(p, i), NEW q \in Peer,
         NEW k \in DOMAIN sent'[q]
  PROVE  q = p /\ sent'[q][k] = Msg("piece", i)
<1>1. sent' = [r \in Peer |-> IF r = p THEN <<Msg("piece", i)>> ELSE <<>>]
  BY DEF Serves, Write, Silent
<1>2. q = p
  BY <1>1
<1>3. sent'[q] = <<Msg("piece", i)>>
  BY <1>1, <1>2
<1> QED
  BY <1>2, <1>3

\* No step writes a REQUEST to a peer that chokes us after it, or to a closed one.
THEOREM RequestsOnlyUnchoked == Spec => RequestOnlyUnchoked
<1> DEFINE Allowed == \A p \in Peer : Says(p, "request") =>
                        open[p] /\ "PEER_CHOKING" \notin state'[p]
<1>1. ASSUME IInv, Next  PROVE Allowed
  <2>1. CASE WritesPlain
    BY <2>1, PlainSays DEF WritesPlain
  <2>2. ASSUME NEW p \in Peer, Asks(p)  PROVE Allowed
    BY <2>2, PlainSays DEF Asks
  <2>3. ASSUME NEW p \in Peer, NEW i \in Servable, Serves(p, i)  PROVE Allowed
    <3>1. Msg("piece", i).type # "request"
      BY DEF Msg
    <3>2. \A q \in Peer : ~Says(q, "request")
      BY <2>3, <3>1, ServesSays DEF Says
    <3> QED
      BY <3>2
  <2> QED
    BY <1>1, <2>1, <2>2, <2>3, StepKind
<1>2. IInv /\ [Next]_vars => [Allowed]_vars
  BY <1>1
<1>3. Spec => [][Allowed]_vars
  BY <1>2, ExchangeInvariant, PTL DEF Spec
<1> QED
  BY <1>3 DEF RequestOnlyUnchoked

\* Every block that is written to a peer holds bytes of the piece it was asked for,
\* and those were verified, when no piece begins so far before the end of the file
\* that a request whose end wraps in 32 bits finds bytes there.
THEOREM ServedPiecesVerified ==
  ASSUME FarReach = {}
  PROVE  Spec => ServedIsVerified
<1> DEFINE Allowed == \A p \in Peer : \A k \in DOMAIN sent'[p] :
                        sent'[p][k].type = "piece" =>
                          /\ sent'[p][k].index \in Pieces
                          /\ disk[sent'[p][k].index] = "verified"
<1>1. ASSUME IInv, Next  PROVE Allowed
  <2>1. CASE WritesPlain
    BY <2>1, PlainSays DEF WritesPlain, Says
  <2>2. ASSUME NEW p \in Peer, Asks(p)  PROVE Allowed
    BY <2>2, NotServingSays DEF Asks, Says
  <2>3. ASSUME NEW p \in Peer, NEW i \in Servable, Serves(p, i)  PROVE Allowed
    <3>1. i \in finished
      BY DEF Servable
    <3>2. Msg("piece", i).index = i /\ i \in Pieces /\ disk[i] = "verified"
      BY <1>1, <3>1 DEF Msg, IInv, TypeOK, FinishedIsVerified
    <3> QED
      BY <2>3, <3>2, ServesSays
  <2> QED
    BY <1>1, <2>1, <2>2, <2>3, StepKind
<1>2. IInv /\ [Next]_vars => [Allowed]_vars
  BY <1>1
<1>3. Spec => [][Allowed]_vars
  BY <1>2, ExchangeInvariant, PTL DEF Spec
<1> QED
  BY <1>3 DEF ServedIsVerified

-----------------------------------------------------------------------------
(***************************************************************************)
(* The exchange implements the abstract download.                          *)
(***************************************************************************)
StoredPieces == {i \in Pieces : disk[i] = "verified"}

Obtains(i) ==
  /\ i \in Pieces \ finished
  /\ finished' = finished \cup {i}
  /\ completedPieces' = completedPieces + 1
  /\ disk' = [disk EXCEPT ![i] = "verified"]

Spoils(i) ==
  /\ i \in Pieces \ finished
  /\ disk' = [disk EXCEPT ![i] = "unverified"]
  /\ UNCHANGED <<finished, completedPieces>>

LEMMA TorrentSteps ==
  ASSUME Next
  PROVE  \/ UNCHANGED <<finished, completedPieces, disk>>
         \/ \E i \in Pieces : Obtains(i) \/ Spoils(i)
<1> USE DEF torrentVars
<1> PICK p \in Peer :
      \/ \E incoming \in BOOLEAN : Handshaked(p, incoming)
      \/ SessionError(p)
      \/ Unlist(p)
      \/ Choke(p)
      \/ Unchoke(p)
      \/ Interested(p)
      \/ NotInterested(p)
      \/ \E i \in 0 .. NumPieces : Have(p, i)
      \/ \E pieces \in SUBSET Pieces : Bitfield(p, pieces)
      \/ \E i \in 0 .. NumPieces, range \in RequestRange : Request(p, i, range)
      \/ \E i \in Pieces, good \in BOOLEAN :
           \E b \in 0 .. NumBlocks[i] : PieceBlock(p, i, b, good)
  BY DEF Next
<1>1. CASE ~ \E i \in Pieces, good \in BOOLEAN :
               \E b \in 0 .. NumBlocks[i] : PieceBlock(p, i, b, good)
  BY <1>1
     DEF Handshaked, SessionError, HandleError, CloseSession, Unlist, Choke, Unchoke,
         Interested, NotInterested, Have, Bitfield, Request, RequestRefused,
         RequestIgnored, RequestDisconnects, RequestServed
<1>2. ASSUME NEW i \in Pieces, NEW good \in BOOLEAN, NEW b \in 0 .. NumBlocks[i],
             PieceBlock(p, i, b, good)
      PROVE  UNCHANGED <<finished, completedPieces, disk>> \/ Obtains(i) \/ Spoils(i)
  <2>1. CASE PieceCompleted(p, i, b, good)
    BY <2>1 DEF PieceCompleted, LastBlock, Accepting, HashMatches, Obtains
  <2>2. CASE DiskFailure(p, i, b, good)
    BY <2>2 DEF DiskFailure, LastBlock, Accepting, Spoils
  <2>3. CASE \/ BlockRefused(p, i, b) \/ BlockCancelled(p, i, b)
             \/ BlockStored(p, i, b, good) \/ PieceMismatch(p, i, b, good)
    BY <2>3 DEF BlockRefused, HandleError, CloseSession, BlockCancelled, BlockStored,
                PieceMismatch
  <2> QED
    BY <1>2, <2>1, <2>2, <2>3 DEF PieceBlock
<1> QED
  BY <1>1, <1>2

\* The pieces served by a step, spelt out.
LEMMA ServedByMessages ==
  /\ Served(sent)' = {i \in 0 .. NumPieces :
                       \E p \in Peer : \E k \in DOMAIN sent'[p] : sent'[p][k] = Msg("piece", i)}
  /\ \A i : Msg("piece", i).type = "piece" /\ Msg("piece", i).index = i
BY DEF Served, Msg

\* Nothing but a block makes a piece served.
LEMMA NothingServed ==
  ASSUME \A p \in Peer : ~Says(p, "piece")
  PROVE  Served(sent)' = {}
BY ServedByMessages DEF Says

LEMMA ServedByStep ==
  ASSUME IInv, Next
  PROVE  \/ Served(sent)' = {}
         \/ \E i \in Servable : Served(sent)' = {i} /\ UNCHANGED torrentVars
<1>1. CASE WritesPlain
  BY <1>1, NothingServed, PlainSays DEF WritesPlain
<1>2. ASSUME NEW p \in Peer, Asks(p)  PROVE Served(sent)' = {}
  BY <1>2, NothingServed, NotServingSays DEF Asks
<1>3. ASSUME NEW p \in Peer, NEW i \in Servable, Serves(p, i)
      PROVE  Served(sent)' = {i} /\ UNCHANGED torrentVars
  <2>1. \A q \in Peer : \A k \in DOMAIN sent'[q] : sent'[q][k] = Msg("piece", i)
    BY <1>3, ServesSays
  <2>2. sent'[p] = <<Msg("piece", i)>>
    BY <1>3 DEF Serves, Write, Silent
  <2>3. i \in 0 .. NumPieces
    BY ExchangeAssumption DEF Servable, IInv, TypeOK, Pieces
  <2>4. 1 \in DOMAIN sent'[p] /\ sent'[p][1] = Msg("piece", i)
    BY <2>2
  <2>5. \A j \in 0 .. NumPieces : j \in Served(sent)' <=> j = i
    BY <2>1, <2>4, ServedByMessages
  <2>6. Served(sent)' \subseteq 0 .. NumPieces
    BY ServedByMessages
  <2> QED
    BY <1>3, <2>3, <2>5, <2>6 DEF Serves
<1> QED
  BY <1>1, <1>2, <1>3, StepKind

LEMMA InitImplements == Init => D!Init
<1> SUFFICES ASSUME Init  PROVE D!Init
  OBVIOUS
<1>1. StoredPieces \in SUBSET Pieces
  BY DEF StoredPieces
<1>2. Served(sent) = {}
  BY DEF Init, Silent, Served
<1> QED
  BY <1>1, <1>2 DEF Init, D!Init, StoredPieces

\* A step that serves nothing obtains a piece, or spoils one that is missing, or
\* does neither.
LEMMA WorkImplements ==
  ASSUME IInv, Next, Served(sent)' = {}
  PROVE  D!Next
<1> USE DEF StoredPieces
<1>1. StoredPieces' = {i \in Pieces : disk'[i] = "verified"}
  BY DEF Pieces
<1>2. finished \subseteq StoredPieces /\ disk \in [Pieces -> DiskContent]
  BY DEF IInv, TypeOK, FinishedIsVerified
<1>3. ASSUME UNCHANGED <<finished, completedPieces, disk>>  PROVE D!Work
  <2>1. StoredPieces' = StoredPieces
    BY <1>1, <1>3
  <2> QED
    BY <1>3, <2>1 DEF D!Work
<1>4. ASSUME NEW i \in Pieces, Obtains(i)  PROVE D!Obtain(i)
  <2>1. StoredPieces' = StoredPieces \cup {i}
    BY <1>1, <1>2, <1>4 DEF Obtains
  <2> QED
    BY <1>4, <2>1 DEF Obtains, D!Obtain
<1>5. ASSUME NEW i \in Pieces, Spoils(i)  PROVE D!Work
  <2>1. StoredPieces' = StoredPieces \ {i}
    BY <1>1, <1>2, <1>5 DEF Spoils
  <2>2. finished \cap StoredPieces \subseteq StoredPieces \ {i}
    BY <1>5 DEF Spoils
  <2> QED
    BY <1>5, <2>1, <2>2 DEF Spoils, D!Work
<1> QED
  BY <1>3, <1>4, <1>5, TorrentSteps DEF D!Next

LEMMA NextImplements ==
  ASSUME FarReach = {}, IInv, Next
  PROVE  D!Next
<1>1. ASSUME NEW i \in Servable, Served(sent)' = {i}, UNCHANGED torrentVars
      PROVE  D!Serve(i) /\ i \in Pieces
  <2>1. i \in finished
    BY DEF Servable
  <2>2. StoredPieces' = StoredPieces
    BY <1>1 DEF StoredPieces, torrentVars, Pieces
  <2> QED
    BY <1>1, <2>1, <2>2 DEF D!Serve, torrentVars, StoredPieces, IInv, TypeOK
<1> QED
  BY <1>1, WorkImplements, ServedByStep DEF D!Next

LEMMA StutterImplements == UNCHANGED vars => UNCHANGED D!vars
<1> SUFFICES ASSUME UNCHANGED vars  PROVE UNCHANGED D!vars
  OBVIOUS
<1>1. Served(sent)' = Served(sent) /\ StoredPieces' = StoredPieces
  BY DEF vars, torrentVars, Served, StoredPieces, Pieces, Msg
<1> QED
  BY <1>1 DEF vars, torrentVars, D!vars, StoredPieces

\* Every behaviour of the exchange is one of the abstract download: pieces are
\* obtained once and with their bytes in the file, none is lost, others not served.
\* Of a file with a FarReach the last of these is not true.
THEOREM ExchangeImplementsDownload ==
  ASSUME FarReach = {}
  PROVE  Spec => ImplementsDownload
<1>1. Init => D!Init
  BY InitImplements
<1>2. IInv /\ [Next]_vars => [D!Next]_(D!vars)
  BY NextImplements, StutterImplements
<1> QED
  BY <1>1, <1>2, ExchangeInvariant, PTL DEF Spec, ImplementsDownload, D!Spec

-----------------------------------------------------------------------------
(***************************************************************************)
(* The request counter and the queues.                                     *)
(***************************************************************************)
\* The places at which piece i is queued, in the queues qs.
SlotsIn(qs, i) ==
  {x \in Peer \X (1 .. MaxQueue) : x[2] \in DOMAIN qs[x[1]] /\ qs[x[1]][x[2]].index = i}

CountInv ==
  /\ \A p \in Peer : Len(queue[p]) <= MaxQueue
  /\ \A i \in Pieces : /\ IsFiniteSet(SlotsIn(queue, i))
                       /\ Cardinality(SlotsIn(queue, i)) <= priority[i]

\* The queue r holds entries of the pieces p was asked for, no more than there were.
Keeps(p, r) ==
  /\ r \in Seq(Entry)
  /\ Len(r) <= Len(queue[p])
  /\ \E g \in Injection(1 .. Len(r), 1 .. Len(queue[p])) :
       \A k \in 1 .. Len(r) : r[k].index = queue[p][g[k]].index

\* A queue that stays as it is.
LEMMA KeepsQueue ==
  ASSUME TypeOK, NEW p \in Peer
  PROVE  Keeps(p, queue[p])
<1>1. queue[p] \in Seq(Entry) /\ Len(queue[p]) \in Nat
  BY LenProperties DEF TypeOK
<1>2. [k \in 1 .. Len(queue[p]) |-> k] \in Injection(1 .. Len(queue[p]), 1 .. Len(queue[p]))
  BY DEF Injection, IsInjective
<1> QED
  BY <1>1, <1>2 DEF Keeps

\* The queue of a session that is closed.
LEMMA KeepsNothing ==
  ASSUME TypeOK, NEW p \in Peer
  PROVE  Keeps(p, <<>>)
<1>1. queue[p] \in Seq(Entry) /\ Len(queue[p]) \in Nat
  BY LenProperties DEF TypeOK
<1>2. <<>> \in Seq(Entry) /\ Len(<<>>) = 0
  OBVIOUS
<1>3. [k \in 1 .. 0 |-> k] \in Injection(1 .. 0, 1 .. Len(queue[p]))
  BY <1>1 DEF Injection, IsInjective
<1> QED
  BY <1>1, <1>2, <1>3 DEF Keeps

\* The queue after erase.
LEMMA KeepsRest ==
  ASSUME TypeOK, NEW p \in Peer, NEW i, Position(p, i) # 0
  PROVE  /\ Keeps(p, RemoveAt(queue[p], Position(p, i)))
         /\ Len(RemoveAt(queue[p], Position(p, i))) = Len(queue[p]) - 1
<1> DEFINE k == Position(p, i)
           r == RemoveAt(queue[p], k)
           g == [j \in 1 .. Len(queue[p]) - 1 |-> IF j < k THEN j ELSE j + 1]
<1>1. queue[p] \in Seq(Entry) /\ Len(queue[p]) \in Nat /\ k \in 1 .. Len(queue[p])
  BY PositionInQueue, LenProperties DEF TypeOK
<1>2. DOMAIN queue[p] = 1 .. Len(queue[p])
  BY <1>1, LenProperties
<1> HIDE DEF k
<1>3. /\ r \in Seq(Entry) /\ DOMAIN r = 1 .. Len(queue[p]) - 1
      /\ \A j \in 1 .. Len(queue[p]) - 1 : r[j] = queue[p][g[j]]
  BY <1>1, <1>2, RemoveAtProperties, RemoveAtElements
<1>4. Len(r) = Len(queue[p]) - 1
  <2>1. Len(r) \in Nat /\ DOMAIN r = 1 .. Len(r)
    BY <1>3, LenProperties
  <2> HIDE DEF r
  <2> QED
    BY <1>1, <1>3, <2>1
<1>5. g \in Injection(1 .. Len(queue[p]) - 1, 1 .. Len(queue[p]))
  <2>1. g \in [1 .. Len(queue[p]) - 1 -> 1 .. Len(queue[p])]
    BY <1>1
  <2>2. \A a, b \in 1 .. Len(queue[p]) - 1 : g[a] = g[b] => a = b
    BY <1>1
  <2> QED
    BY <2>1, <2>2 DEF Injection, IsInjective
<1> HIDE DEF r, g
<1>6. \E h \in Injection(1 .. Len(r), 1 .. Len(queue[p])) :
        \A j \in 1 .. Len(r) : r[j].index = queue[p][h[j]].index
  <2>1. \A j \in 1 .. Len(r) : r[j].index = queue[p][g[j]].index
    BY <1>3, <1>4
  <2> QED
    BY <1>4, <1>5, <2>1
<1>7. Len(r) <= Len(queue[p])
  BY <1>1, <1>4
<1>8. Keeps(p, r)
  BY <1>3, <1>6, <1>7 DEF Keeps
<1> QED
  BY <1>4, <1>8 DEF k, r

\* The queue after a block is stored.
LEMMA KeepsStored ==
  ASSUME TypeOK, QueueEntryIncomplete, NEW p \in Peer, NEW i \in Pieces, NEW b,
         NEW good \in BOOLEAN, Accepting(p, i, b)
  PROVE  Keeps(p, [queue[p] EXCEPT ![Position(p, i)] = Stored(p, i, b, good)])
<1> DEFINE k == Position(p, i)
           r == [queue[p] EXCEPT ![k] = Stored(p, i, b, good)]
<1>1. queue[p] \in Seq(Entry) /\ Len(queue[p]) \in Nat /\ DOMAIN queue[p] = 1 .. Len(queue[p])
  BY LenProperties DEF TypeOK
<1>2. k \in 1 .. Len(queue[p]) /\ queue[p][k].index = i
  BY <1>1, PositionInQueue DEF Accepting
<1>3. Stored(p, i, b, good) \in Entry /\ Stored(p, i, b, good).index = i
  BY StoredType
<1> HIDE DEF k
<1>4. /\ r \in Seq(Entry) /\ Len(r) = Len(queue[p])
      /\ \A j \in 1 .. Len(queue[p]) : r[j].index = queue[p][j].index
  <2>1. r \in Seq(Entry) /\ Len(r) = Len(queue[p])
    BY <1>1, <1>2, <1>3, ExceptSeq
  <2>2. \A j \in 1 .. Len(queue[p]) : r[j].index = queue[p][j].index
    BY <1>1, <1>2, <1>3
  <2> QED
    BY <2>1, <2>2
<1>5. [j \in 1 .. Len(queue[p]) |-> j] \in Injection(1 .. Len(queue[p]), 1 .. Len(queue[p]))
  BY DEF Injection, IsInjective
<1> HIDE DEF r
<1> QED
  BY <1>1, <1>4, <1>5 DEF Keeps, r, k

\* Fewer entries are queued at no more places.
LEMMA KeptSlots ==
  ASSUME TypeOK, CountInv, NEW p \in Peer, NEW r, Keeps(p, r), NEW i \in Pieces
  PROVE  /\ IsFiniteSet(SlotsIn([queue EXCEPT ![p] = r], i))
         /\ Cardinality(SlotsIn([queue EXCEPT ![p] = r], i)) <= priority[i]
<1> DEFINE after == SlotsIn([queue EXCEPT ![p] = r], i)
           before == SlotsIn(queue, i)
<1>1. /\ queue \in [Peer -> Seq(Entry)] /\ Len(queue[p]) \in Nat /\ r \in Seq(Entry) /\ Len(r) \in Nat
      /\ DOMAIN queue[p] = 1 .. Len(queue[p]) /\ DOMAIN r = 1 .. Len(r)
      /\ Len(r) <= Len(queue[p]) /\ Len(queue[p]) <= MaxQueue
  BY LenProperties DEF TypeOK, Keeps, CountInv
<1>2. PICK g \in Injection(1 .. Len(r), 1 .. Len(queue[p])) :
        \A k \in 1 .. Len(r) : r[k].index = queue[p][g[k]].index
  BY DEF Keeps
<1>3. /\ g \in [1 .. Len(r) -> 1 .. Len(queue[p])]
      /\ \A a, b \in 1 .. Len(r) : g[a] = g[b] => a = b
  BY <1>2 DEF Injection, IsInjective
<1> DEFINE f == [x \in after |-> IF x[1] = p THEN <<p, g[x[2]]>> ELSE x]
<1>4. ASSUME NEW x \in after
      PROVE  /\ x \in Peer \X (1 .. MaxQueue)
             /\ x[1] = p => x[2] \in 1 .. Len(r) /\ r[x[2]].index = i
             /\ x[1] # p => x \in before
  BY <1>1 DEF SlotsIn
<1>5. ASSUME NEW x \in after  PROVE f[x] \in before
  <2>1. CASE x[1] = p
    <3>1. x[2] \in 1 .. Len(r) /\ r[x[2]].index = i
      BY <1>4, <2>1
    <3>2. g[x[2]] \in 1 .. Len(queue[p]) /\ queue[p][g[x[2]]].index = i
      BY <1>2, <1>3, <3>1
    <3>3. g[x[2]] \in 1 .. MaxQueue
      BY <1>1, <3>2, ExchangeAssumption
    <3>4. <<p, g[x[2]]>> \in before
      BY <1>1, <3>2, <3>3 DEF SlotsIn
    <3> QED
      BY <2>1, <3>4
  <2>2. CASE x[1] # p
    BY <1>4, <2>2
  <2> QED
    BY <2>1, <2>2
<1> HIDE DEF after, before
<1>6. ASSUME NEW x \in after, NEW y \in after, f[x] = f[y]  PROVE x = y
  <2>1. PICK q \in Peer, k \in 1 .. MaxQueue : x = <<q, k>>
    BY <1>4
  <2>2. PICK t \in Peer, m \in 1 .. MaxQueue : y = <<t, m>>
    BY <1>4
  <2>3. /\ f[x] = IF q = p THEN <<p, g[k]>> ELSE <<q, k>>
        /\ f[y] = IF t = p THEN <<p, g[m]>> ELSE <<t, m>>
    BY <2>1, <2>2
  <2>4. /\ q = p => k \in 1 .. Len(r)
        /\ t = p => m \in 1 .. Len(r)
    BY <1>4, <2>1, <2>2
  <2> HIDE DEF f
  <2>5. CASE q = p /\ t = p
    <3>1. <<p, g[k]>> = <<p, g[m]>>
      BY <1>6, <2>3, <2>5
    <3>2. g[k] = g[m]
      BY <3>1
    <3> QED
      BY <1>3, <2>1, <2>2, <2>4, <2>5, <3>2
  <2>6. CASE ~(q = p /\ t = p)
    <3>1. CASE q = p
      <4>1. <<p, g[k]>> = <<t, m>>
        BY <1>6, <2>3, <2>6, <3>1
      <4> QED
        BY <2>6, <3>1, <4>1
    <3>2. CASE t = p
      <4>1. <<p, g[m]>> = <<q, k>>
        BY <1>6, <2>3, <2>6, <3>2
      <4> QED
        BY <2>6, <3>2, <4>1
    <3>3. CASE q # p /\ t # p
      BY <1>6, <2>1, <2>2, <2>3, <3>3
    <3> QED
      BY <3>1, <3>2, <3>3
  <2> QED
    BY <2>5, <2>6
<1>7. f \in Injection(after, before)
  <2>1. f \in [after -> before]
    BY <1>5
  <2>2. DOMAIN f = after
    BY DEF f
  <2> HIDE DEF f
  <2> QED
    BY <1>6, <2>1, <2>2 DEF Injection, IsInjective
<1>8. IsFiniteSet(before) /\ Cardinality(before) <= priority[i]
  BY DEF CountInv, before
<1> HIDE DEF f
<1>9. /\ IsFiniteSet(after) /\ Cardinality(after) <= Cardinality(before)
      /\ Cardinality(after) \in Nat /\ Cardinality(before) \in Nat
  BY <1>7, <1>8, FS_Injection, FS_CardinalityType
<1>10. priority[i] \in Nat
  BY DEF TypeOK
<1>11. Cardinality(after) <= priority[i]
  BY <1>8, <1>9, <1>10
<1> QED
  BY <1>9, <1>11 DEF after

\* A handler that takes entries from p's queue, or none.
LEMMA KeptCount ==
  ASSUME TypeOK, CountInv, NEW p \in Peer, NEW r, Keeps(p, r),
         queue' = [queue EXCEPT ![p] = r], UNCHANGED priority
  PROVE  CountInv'
<1>1. \A q \in Peer : Len(queue'[q]) <= MaxQueue
  <2>1. Len(queue[p]) \in Nat /\ Len(r) \in Nat /\ queue \in [Peer -> Seq(Entry)]
    BY LenProperties DEF TypeOK, Keeps
  <2> QED
    BY <2>1, ExchangeAssumption DEF CountInv, Keeps
<1>2. ASSUME NEW i \in Pieces
      PROVE  IsFiniteSet(SlotsIn(queue', i)) /\ Cardinality(SlotsIn(queue', i)) <= priority'[i]
  BY KeptSlots
<1> QED
  BY <1>1, <1>2 DEF CountInv, SlotsIn

\* A handler that asks for another piece counts it.
LEMMA RequestNextCount ==
  ASSUME TypeOK, CountInv, NEW p \in Peer, NEW r, Keeps(p, r), Len(r) < MaxQueue,
         NEW pieces, NEW done, NEW completed, NEW said,
         RequestNext(p, r, pieces, done, completed, said)
  PROVE  CountInv'
<1>1. CASE queue' = [queue EXCEPT ![p] = r] /\ UNCHANGED priority
  BY <1>1, KeptCount
<1>2. CASE /\ Candidates(pieces, done) # {}
           /\ SendPieceRequest(p, Best(Candidates(pieces, done)), r, said)
  <2> DEFINE b == Best(Candidates(pieces, done))
             kept == [queue EXCEPT ![p] = r]
             x == <<p, Len(r) + 1>>
  <2>1. b \in Pieces
    BY <1>2, BestIsCandidate DEF Candidates
  <2>2. /\ queue' = [queue EXCEPT ![p] = Append(r, NewEntry(b))]
        /\ priority' = [priority EXCEPT ![b] = @ + 1]
    BY <1>2 DEF SendPieceRequest
  <2> HIDE DEF b
  <2>3. /\ r \in Seq(Entry) /\ Len(r) \in Nat /\ queue \in [Peer -> Seq(Entry)]
        /\ priority \in [Pieces -> Nat] /\ NewEntry(b) \in Entry /\ NewEntry(b).index = b
        /\ DOMAIN r = 1 .. Len(r)
    BY <2>1, NewEntryWaits, LenProperties DEF TypeOK, Keeps, WaitingEntry, NewEntry
  <2>4. /\ Append(r, NewEntry(b)) \in Seq(Entry) /\ Len(Append(r, NewEntry(b))) = Len(r) + 1
        /\ \A k \in 1 .. Len(r) : Append(r, NewEntry(b))[k] = r[k]
        /\ Append(r, NewEntry(b))[Len(r) + 1] = NewEntry(b)
        /\ DOMAIN Append(r, NewEntry(b)) = 1 .. Len(r) + 1
    BY <2>3, AppendProperties, LenProperties
  <2>5. \A q \in Peer : Len(queue'[q]) <= MaxQueue
    BY <2>2, <2>3, <2>4, ExchangeAssumption DEF CountInv
  <2>6. ASSUME NEW i \in Pieces
        PROVE  IsFiniteSet(SlotsIn(queue', i)) /\ Cardinality(SlotsIn(queue', i)) <= priority'[i]
    <3>1. IsFiniteSet(SlotsIn(kept, i)) /\ Cardinality(SlotsIn(kept, i)) <= priority[i]
      BY KeptSlots
    <3>2. Cardinality(SlotsIn(kept, i)) \in Nat
      BY <3>1, FS_CardinalityType
    <3>3. CASE i # b
      <4>1. SlotsIn(queue', i) \subseteq SlotsIn(kept, i)
        BY <2>2, <2>3, <2>4, <3>3 DEF SlotsIn
      <4>2. /\ IsFiniteSet(SlotsIn(queue', i))
            /\ Cardinality(SlotsIn(queue', i)) <= Cardinality(SlotsIn(kept, i))
            /\ Cardinality(SlotsIn(queue', i)) \in Nat
        BY <3>1, <4>1, FS_Subset, FS_CardinalityType
      <4>3. priority'[i] = priority[i] /\ priority[i] \in Nat
        BY <2>2, <2>3, <3>3
      <4> QED
        BY <3>1, <3>2, <4>2, <4>3
    <3>4. CASE i = b
      <4>1. SlotsIn(queue', i) \subseteq SlotsIn(kept, i) \cup {x}
        BY <2>2, <2>3, <2>4, <3>4 DEF SlotsIn
      <4> HIDE DEF x, kept
      <4>2. /\ IsFiniteSet(SlotsIn(kept, i) \cup {x})
            /\ Cardinality(SlotsIn(kept, i) \cup {x}) <= Cardinality(SlotsIn(kept, i)) + 1
        <5>1. /\ IsFiniteSet(SlotsIn(kept, i) \cup {x})
              /\ \/ Cardinality(SlotsIn(kept, i) \cup {x}) = Cardinality(SlotsIn(kept, i))
                 \/ Cardinality(SlotsIn(kept, i) \cup {x}) = Cardinality(SlotsIn(kept, i)) + 1
          BY <3>1, FS_AddElement
        <5> QED
          BY <3>2, <5>1
      <4>3. /\ IsFiniteSet(SlotsIn(queue', i))
            /\ Cardinality(SlotsIn(queue', i)) <= Cardinality(SlotsIn(kept, i) \cup {x})
            /\ Cardinality(SlotsIn(queue', i)) \in Nat
            /\ Cardinality(SlotsIn(kept, i) \cup {x}) \in Nat
        BY <4>1, <4>2, FS_Subset, FS_CardinalityType
      <4>4. priority'[i] = priority[i] + 1 /\ priority[i] \in Nat
        BY <2>2, <2>3, <3>4
      <4> QED
        BY <3>1, <3>2, <4>2, <4>3, <4>4
    <3> QED
      BY <3>3, <3>4
  <2> QED
    BY <2>5, <2>6 DEF CountInv, SlotsIn
<1> QED
  BY <1>1, <1>2 DEF RequestNext, SelectPieceAndRequest

\* Every handler keeps the count.
LEMMA NextKeepsCount ==
  ASSUME IInv, CountInv, Next
  PROVE  CountInv'
<1>1. TypeOK /\ QueueEntryIncomplete /\ queue \in [Peer -> Seq(Entry)]
  BY DEF IInv, TypeOK
<1>2. ASSUME UNCHANGED <<queue, priority>>  PROVE CountInv'
  BY <1>2 DEF CountInv, SlotsIn
<1>3. ASSUME NEW p \in Peer, CloseSession(p)  PROVE CountInv'
  BY <1>1, <1>3, KeepsNothing, KeptCount DEF CloseSession, torrentVars
<1> PICK p \in Peer :
      \/ \E incoming \in BOOLEAN : Handshaked(p, incoming)
      \/ SessionError(p)
      \/ Unlist(p)
      \/ Choke(p)
      \/ Unchoke(p)
      \/ Interested(p)
      \/ NotInterested(p)
      \/ \E i \in 0 .. NumPieces : Have(p, i)
      \/ \E pieces \in SUBSET Pieces : Bitfield(p, pieces)
      \/ \E i \in 0 .. NumPieces, range \in RequestRange : Request(p, i, range)
      \/ \E i \in Pieces, good \in BOOLEAN :
           \E b \in 0 .. NumBlocks[i] : PieceBlock(p, i, b, good)
  BY DEF Next
<1>4. CASE \/ \E incoming \in BOOLEAN : Handshaked(p, incoming)
           \/ Unlist(p) \/ Choke(p) \/ Unchoke(p) \/ Interested(p) \/ NotInterested(p)
           \/ \E i \in 0 .. NumPieces : Have(p, i)
  BY <1>2, <1>4 DEF Handshaked, Unlist, Choke, Unchoke, Interested, NotInterested, Have,
                    torrentVars
<1>5. CASE SessionError(p)
  BY <1>3, <1>5 DEF SessionError, HandleError
<1>6. CASE \E i \in 0 .. NumPieces, range \in RequestRange : Request(p, i, range)
  BY <1>2, <1>3, <1>6
     DEF Request, RequestRefused, HandleError, RequestIgnored, RequestDisconnects,
         RequestServed, torrentVars, peerVars
<1>7. ASSUME NEW pieces \in SUBSET Pieces, Bitfield(p, pieces)  PROVE CountInv'
  BY <1>1, <1>7, KeepsQueue, RequestNextCount DEF Bitfield
<1>8. ASSUME NEW i \in Pieces, NEW good \in BOOLEAN, NEW b \in 0 .. NumBlocks[i],
             PieceBlock(p, i, b, good)
      PROVE  CountInv'
  <2>1. CASE BlockRefused(p, i, b)
    BY <1>3, <2>1 DEF BlockRefused, HandleError
  <2>2. CASE BlockCancelled(p, i, b)
    BY <1>1, <2>2, KeepsRest, KeptCount DEF BlockCancelled, torrentVars
  <2>3. CASE BlockStored(p, i, b, good)
    <3>1. queue' = [queue EXCEPT ![p] = [queue[p] EXCEPT ![Position(p, i)] = Stored(p, i, b, good)]]
      BY <2>3 DEF BlockStored
    <3> QED
      BY <1>1, <2>3, <3>1, KeepsStored, KeptCount DEF BlockStored, torrentVars
  <2>4. CASE PieceMismatch(p, i, b, good) \/ PieceCompleted(p, i, b, good)
    <3>1. Position(p, i) # 0
      BY <2>4 DEF PieceMismatch, PieceCompleted, LastBlock, Accepting
    <3> DEFINE r == RemoveAt(queue[p], Position(p, i))
    <3>2. Keeps(p, r) /\ Len(r) = Len(queue[p]) - 1
      BY <1>1, <3>1, KeepsRest
    <3>3. Len(r) < MaxQueue
      <4>1. Len(queue[p]) \in Nat /\ Len(queue[p]) <= MaxQueue
        BY <1>1, LenProperties DEF CountInv
      <4> HIDE DEF r
      <4> QED
        BY <3>2, <4>1, ExchangeAssumption
    <3>4. \E done, completed, said : RequestNext(p, r, has[p], done, completed, said)
      BY <2>4 DEF PieceMismatch, PieceCompleted
    <3> HIDE DEF r
    <3> QED
      BY <1>1, <3>2, <3>3, <3>4, RequestNextCount
  <2>5. CASE DiskFailure(p, i, b, good)
    BY <1>2, <2>5 DEF DiskFailure, peerVars
  <2> QED
    BY <1>8, <2>1, <2>2, <2>3, <2>4, <2>5 DEF PieceBlock
<1> QED
  BY <1>4, <1>5, <1>6, <1>7, <1>8

\* A piece somebody was asked for is never taken for an untouched one.
THEOREM QueuedPiecesCounted == Spec => []QueuedIsCounted
<1>1. Init => CountInv
  <2> SUFFICES ASSUME Init  PROVE CountInv
    OBVIOUS
  <2>1. \A i \in Pieces : SlotsIn(queue, i) = {}
    BY DEF Init, SlotsIn
  <2>2. \A p \in Peer : Len(queue[p]) <= MaxQueue
    BY ExchangeAssumption DEF Init
  <2>3. ASSUME NEW i \in Pieces
        PROVE  IsFiniteSet(SlotsIn(queue, i)) /\ Cardinality(SlotsIn(queue, i)) <= priority[i]
    <3>1. priority[i] = 0
      BY DEF Init
    <3>2. IsFiniteSet({}) /\ Cardinality({}) = 0
      BY FS_EmptySet
    <3> QED
      BY <2>1, <3>1, <3>2
  <2> QED
    BY <2>1, <2>2, <2>3 DEF CountInv
<1>2. IInv /\ CountInv /\ [Next]_vars => CountInv'
  <2>1. CountInv /\ UNCHANGED vars => CountInv'
    BY DEF CountInv, SlotsIn, vars, torrentVars, peerVars
  <2> QED
    BY <2>1, NextKeepsCount
<1>3. CountInv => QueuedIsCounted
  BY DEF CountInv, SlotsIn, QueuedIsCounted
<1> QED
  BY <1>1, <1>2, <1>3, ExchangeInvariant, PTL DEF Spec

=============================================================================
