---------------------------- MODULE SwarmProofs ----------------------------
(***************************************************************************)
(* Proofs about Swarm for any number of peers, pieces, blocks and chokes.  *)
(*                                                                         *)
(* SInv adds the types of the wires to the invariant of Exchange: every    *)
(* step of the swarm is one of Exchange, or leaves its variables alone.    *)
(*                                                                         *)
(* The other proofs go session by session.  SessionStep(p) lists what any  *)
(* step of the swarm can be for the session of p, in terms of the two      *)
(* wires, the queue and the flags; StepOutcome shows that there is no      *)
(* other.  Each invariant is then kept by every case of SessionStep:       *)
(*   OneRequest    one chain of requests runs in a session,                *)
(*   ChokeAgrees   what is on its way brings our PEER_CHOKING to what the  *)
(*                 remote peer does,                                       *)
(*   BlocksComing  what is queued is asked for, or its missing blocks are  *)
(*                 on their way,                                           *)
(*   Clean         without chokes those blocks come once and in order.     *)
(* The lists of messages are spoken of by position; the lemmas on Free,    *)
(* WillChoke, Complete, Followed, InOrder, Asking and Once say what taking *)
(* the head, appending and concatenating do to each of them.               *)
(***************************************************************************)
EXTENDS Swarm, ExchangeProofs

BlockMessages ==
  {m \in [type : {"piece"}, index : Pieces, block : Nat] : m.block < NumBlocks[m.index]}

\* What a remote peer writes, and what is written to it.
FromRemote ==
  UNION {[type : {"choke", "unchoke"}],
         [type : {"have"}, index : Pieces],
         [type : {"bitfield"}, pieces : SUBSET Pieces],
         BlockMessages}

ToRemote ==
  {m \in Message : /\ m.type \in {"interested", "request", "cancel"}
                   /\ m.type = "request" => m.index \in Pieces}

\* The types of the wires and of the remote peers.
RemoteTypes ==
  /\ toUs \in [Peer -> Seq(FromRemote)]
  /\ toThem \in [Peer -> Seq(ToRemote)]
  /\ choking \in [Peer -> BOOLEAN]
  /\ pending \in [Peer -> Seq(BlockMessages)]
  /\ remoteHas \in [Peer -> SUBSET Pieces]
  /\ asked \in [Peer -> SUBSET Pieces]

\* Nothing is left of a session that was closed.
Fresh(p) ==
  /\ toUs[p] = <<>> /\ toThem[p] = <<>> /\ asked[p] = {}
  /\ queue[p] = <<>> /\ state[p] = InitialState

WireInv ==
  /\ RemoteTypes
  /\ \A p \in Peer : ~open[p] => Fresh(p)
  /\ \A p \in Peer : "AM_CHOKING" \in state[p]

-----------------------------------------------------------------------------
(***************************************************************************)
(* The messages of the wires.                                              *)
(***************************************************************************)
LEMMA WireMessages ==
  /\ Signal("interested") \in ToRemote
  /\ \A i \in Pieces : Msg("request", i) \in ToRemote /\ Msg("cancel", i) \in ToRemote
  /\ \A i \in Pieces, b \in Nat : b < NumBlocks[i] => BlockMessage(i, b) \in BlockMessages
<1>1. \A t, i : Msg(t, i).type = t /\ Msg(t, i).index = i /\ Signal(t).type = t
  BY DEF Msg, Signal
<1>2. Signal("interested") \in Message
  BY MessageTypes DEF MessageType
<1>3. \A i \in Pieces : Msg("request", i) \in Message /\ Msg("cancel", i) \in Message
  BY MessageTypes DEF MessageType
<1>4. \A i \in Pieces, b \in Nat : b < NumBlocks[i] => BlockMessage(i, b) \in BlockMessages
  BY DEF BlockMessage, BlockMessages
<1> QED
  BY <1>1, <1>2, <1>3, <1>4 DEF ToRemote

\* What a message carries is in range.
LEMMA FromRemoteFields ==
  ASSUME NEW m \in FromRemote
  PROVE  /\ m.type \in {"choke", "unchoke", "have", "bitfield", "piece"}
         /\ m.type = "have" => m.index \in Pieces
         /\ m.type = "bitfield" => m.pieces \in SUBSET Pieces
         /\ m.type = "piece" => /\ m.index \in Pieces /\ m.block \in Nat
                                /\ m.block < NumBlocks[m.index]
                                /\ m = BlockMessage(m.index, m.block)
<1>1. CASE m \in [type : {"choke", "unchoke"}]
  BY <1>1
<1>2. CASE m \in [type : {"have"}, index : Pieces]
  BY <1>2
<1>3. CASE m \in [type : {"bitfield"}, pieces : SUBSET Pieces]
  BY <1>3
<1>4. CASE m \in BlockMessages
  BY <1>4 DEF BlockMessages, BlockMessage
<1> QED
  BY <1>1, <1>2, <1>3, <1>4 DEF FromRemote

\* The answer to a request is a list of blocks of the piece.
LEMMA BlocksOfType ==
  ASSUME NEW i \in Pieces
  PROVE  /\ BlocksOf(i) \in Seq(BlockMessages)
         /\ Len(BlocksOf(i)) = NumBlocks[i]
         /\ \A k \in 1 .. NumBlocks[i] : BlocksOf(i)[k] = BlockMessage(i, k - 1)
<1>1. NumBlocks[i] \in Nat
  BY ExchangeAssumption
<1>2. \A k \in 1 .. NumBlocks[i] : BlockMessage(i, k - 1) \in BlockMessages
  BY <1>1, WireMessages
<1>3. BlocksOf(i) \in [1 .. NumBlocks[i] -> BlockMessages]
  BY <1>2 DEF BlocksOf
<1>4. BlocksOf(i) \in Seq(BlockMessages)
  BY <1>1, <1>3
<1>5. Len(BlocksOf(i)) = NumBlocks[i]
  BY <1>1, <1>3, <1>4, LenProperties
<1> QED
  BY <1>4, <1>5 DEF BlocksOf

(***************************************************************************)
(* What is left after a CANCEL are some of the blocks that were there.     *)
(***************************************************************************)
LEMMA WithoutType ==
  ASSUME NEW S, NEW s \in Seq(S), NEW i
  PROVE  Without(s, i) \in Seq(S)
<1> DEFINE n == Len(s)
           next(f, k) == IF k = 0 THEN <<>>
                         ELSE IF s[k].index = i THEN f[k - 1] ELSE Append(f[k - 1], s[k])
           kept == CHOOSE f : f = [k \in 0 .. n |-> next(f, k)]
           partial(m) == \E f \in [0 .. m -> Seq(S)] : \A k \in 0 .. m : f[k] = next(f, k)
<1>1. n \in Nat /\ \A k \in 1 .. n : s[k] \in S
  BY LenProperties, ElementOfSeq
<1>2. Without(s, i) = kept[n]
  BY DEF Without
<1>3. ASSUME NEW f, NEW k \in 0 .. n, k # 0 => f[k - 1] \in Seq(S)
      PROVE  next(f, k) \in Seq(S)
  BY <1>1, <1>3, AppendProperties
<1>4. partial(n)
  <2> DEFINE T == {m \in 0 .. n : ~partial(m)}
  <2>1. SUFFICES ASSUME T # {}  PROVE FALSE
    BY <1>1
  <2>2. PICK m \in T : \A j \in T : m <= j
    <3>1. T \in SUBSET Nat
      BY <1>1
    <3> HIDE DEF T
    <3> QED
      BY <2>1, <3>1, LeastNat
  <2>3. m \in 0 .. n /\ ~partial(m)
    OBVIOUS
  <2>4. CASE m = 0
    <3> DEFINE f == [k \in 0 .. 0 |-> <<>>]
    <3>1. f \in [0 .. m -> Seq(S)]
      BY <2>4
    <3>2. ASSUME NEW k \in 0 .. m  PROVE f[k] = next(f, k)
      <4>1. k = 0
        BY <2>4
      <4>2. next(f, k) = <<>>
        BY <4>1
      <4> HIDE DEF next
      <4>3. k \in 0 .. 0
        BY <4>1
      <4>4. f[k] = <<>>
        BY <4>3, Zenon
      <4> QED
        BY <4>2, <4>4
    <3> QED
      BY <2>3, <3>1, <3>2
  <2>5. CASE m # 0
    <3>1. partial(m - 1)
      <4> HIDE DEF partial
      <4>1. m - 1 \in 0 .. n /\ m - 1 \notin T
        BY <1>1, <2>2, <2>3, <2>5
      <4> QED
        BY <4>1
    <3> HIDE DEF next
    <3>2. PICK f \in [0 .. m - 1 -> Seq(S)] : \A k \in 0 .. m - 1 : f[k] = next(f, k)
      BY <3>1
    <3> USE DEF next
    <3> DEFINE g == [k \in 0 .. m |-> IF k < m THEN f[k] ELSE next(f, m)]
    <3>3. next(f, m) \in Seq(S)
      <4>1. f[m - 1] \in Seq(S)
        BY <1>1, <2>3, <2>5, <3>2
      <4> QED
        BY <1>3, <2>3, <4>1
    <3>4. g \in [0 .. m -> Seq(S)]
      <4> HIDE DEF next
      <4> QED
        BY <1>1, <2>3, <3>2, <3>3
    <3>5. ASSUME NEW k \in 0 .. m  PROVE g[k] = next(g, k)
      <4>1. k # 0 => g[k - 1] = f[k - 1]
        BY <1>1, <2>3
      <4>2. next(g, k) = next(f, k)
        BY <4>1
      <4> HIDE DEF next
      <4> QED
        BY <1>1, <2>3, <3>2, <4>2
    <3> QED
      BY <2>3, <3>4, <3>5
  <2> QED
    BY <2>4, <2>5
<1>5. kept = [k \in 0 .. n |-> next(kept, k)]
  <2>1. PICK f \in [0 .. n -> Seq(S)] : \A k \in 0 .. n : f[k] = next(f, k)
    BY <1>4
  <2>2. f = [k \in 0 .. n |-> next(f, k)]
    <3> HIDE DEF next
    <3> QED
      BY <2>1
  <2> HIDE DEF next
  <2> QED
    BY <2>2
<1> HIDE DEF kept
<1>6. \A k \in 0 .. n : kept[k] \in Seq(S)
  <2> DEFINE T == {k \in 0 .. n : kept[k] \notin Seq(S)}
  <2>1. SUFFICES ASSUME T # {}  PROVE FALSE
    OBVIOUS
  <2>2. PICK k \in T : \A j \in T : k <= j
    <3>1. T \in SUBSET Nat
      BY <1>1
    <3> HIDE DEF T
    <3> QED
      BY <2>1, <3>1, LeastNat
  <2>3. k # 0 => kept[k - 1] \in Seq(S)
    BY <1>1, <2>2
  <2>4. next(kept, k) \in Seq(S)
    BY <1>3, <2>2, <2>3
  <2> HIDE DEF next
  <2> QED
    BY <1>5, <2>2, <2>4
<1> QED
  BY <1>1, <1>2, <1>6

-----------------------------------------------------------------------------
(***************************************************************************)
(* What our handlers write in the swarm.  No remote peer is interested, so *)
(* every session keeps AM_CHOKING and no HAVE is broadcast.                *)
(***************************************************************************)
LEMMA ToRemoteWrites ==
  /\ Silent \in [Peer -> Seq(ToRemote)]
  /\ \A p \in Peer : \A w \in Seq(ToRemote) : Write(p, w) \in [Peer -> Seq(ToRemote)]
  /\ \A p \in Peer : Write(p, <<>>) = Silent
<1>1. Silent \in [Peer -> Seq(ToRemote)]
  BY DEF Silent
<1>2. ASSUME NEW p \in Peer, NEW w \in Seq(ToRemote)
      PROVE  Write(p, w) \in [Peer -> Seq(ToRemote)]
  BY <1>1 DEF Write
<1>3. ASSUME NEW p \in Peer  PROVE Write(p, <<>>) = Silent
  BY DEF Write, Silent
<1> QED
  BY <1>1, <1>2, <1>3

LEMMA NothingBroadcast ==
  ASSUME NEW i, \A p \in Peer : "AM_CHOKING" \in state[p]
  PROVE  HaveBroadcast(i) = Silent
BY DEF HaveBroadcast, Silent

\* The requests an UNCHOKE makes up for.
RequestsFor(q) == [k \in DOMAIN q |-> Msg("request", q[k].index)]

LEMMA RequestsForType ==
  ASSUME NEW q \in Seq(Entry)
  PROVE  RequestsFor(q) \in Seq(ToRemote)
<1>1. Len(q) \in Nat /\ DOMAIN q = 1 .. Len(q)
  BY LenProperties
<1>2. ASSUME NEW k \in 1 .. Len(q)  PROVE Msg("request", q[k].index) \in ToRemote
  <2>1. q[k] \in Entry
    BY ElementOfSeq
  <2> QED
    BY <2>1, WireMessages DEF Entry
<1>3. RequestsFor(q) \in [1 .. Len(q) -> ToRemote]
  BY <1>1, <1>2 DEF RequestsFor
<1> QED
  BY <1>1, <1>3

\* Every handler of the swarm writes messages of the wires.
LEMMA HandleWrites ==
  ASSUME TypeOK, NEW p \in Peer, NEW m \in FromRemote, Handle(p, m),
         \A q \in Peer : "AM_CHOKING" \in state[q]
  PROVE  sent' \in [Peer -> Seq(ToRemote)]
<1>1. ASSUME sent' = Silent  PROVE sent' \in [Peer -> Seq(ToRemote)]
  BY <1>1, ToRemoteWrites
<1>2. ASSUME NEW q, NEW pieces, NEW done, NEW completed,
             RequestNext(p, q, pieces, done, completed, Silent)
      PROVE  sent' \in [Peer -> Seq(ToRemote)]
  BY <1>2, RequestNextWrites, ToRemoteWrites, WireMessages
<1>3. CASE Choke(p) \/ Have(p, m.index)
  BY <1>1, <1>3 DEF Choke, Have
<1>4. CASE Unchoke(p)
  <2>1. RequestsFor(queue[p]) \in Seq(ToRemote)
    BY RequestsForType DEF TypeOK
  <2>2. sent' = Write(p, RequestsFor(queue[p]))
    BY <1>4 DEF Unchoke, RequestsFor
  <2> QED
    BY <2>1, <2>2, ToRemoteWrites
<1>5. CASE Bitfield(p, m.pieces)
  BY <1>2, <1>5 DEF Bitfield
<1>6. CASE BlockRefused(p, m.index, m.block) \/ BlockStored(p, m.index, m.block, TRUE)
  BY <1>1, <1>6 DEF BlockRefused, HandleError, CloseSession, BlockStored
<1>7. CASE m.type = "piece" /\ BlockCancelled(p, m.index, m.block)
  <2>1. <<Msg("cancel", m.index)>> \in Seq(ToRemote)
    BY <1>7, FromRemoteFields, WireMessages
  <2> QED
    BY <1>7, <2>1, ToRemoteWrites DEF BlockCancelled
<1>8. CASE PieceMismatch(p, m.index, m.block, TRUE)
  BY <1>2, <1>8 DEF PieceMismatch
<1>9. CASE PieceCompleted(p, m.index, m.block, TRUE)
  BY <1>2, <1>9, NothingBroadcast DEF PieceCompleted
<1> QED
  BY <1>3, <1>4, <1>5, <1>6, <1>7, <1>8, <1>9 DEF Handle

\* Every handler is a step of Exchange.
LEMMA HandleIsNext ==
  ASSUME NEW p \in Peer, NEW m \in FromRemote, Handle(p, m)
  PROVE  Next
<1>1. CASE m.type = "choke" /\ Choke(p)
  BY <1>1 DEF Next
<1>2. CASE m.type = "unchoke" /\ Unchoke(p)
  BY <1>2 DEF Next
<1>3. CASE m.type = "have" /\ Have(p, m.index)
  <2>1. m.index \in 0 .. NumPieces
    BY <1>3, FromRemoteFields, ExchangeAssumption DEF Pieces
  <2> QED
    BY <1>3, <2>1 DEF Next
<1>4. CASE m.type = "bitfield" /\ Bitfield(p, m.pieces)
  BY <1>4, FromRemoteFields DEF Next
<1>5. CASE m.type = "piece" /\ PieceBlock(p, m.index, m.block, TRUE)
  <2>1. m.index \in Pieces /\ m.block \in 0 .. NumBlocks[m.index]
    BY <1>5, FromRemoteFields, ExchangeAssumption
  <2> QED
    BY <1>5, <2>1 DEF Next
<1> QED
  BY <1>1, <1>2, <1>3, <1>4, <1>5 DEF Handle, PieceBlock

\* No handler that runs in the swarm takes AM_CHOKING away.
LEMMA HandleKeepsChoking ==
  ASSUME TypeOK, NEW p \in Peer, NEW m, Handle(p, m),
         \A q \in Peer : "AM_CHOKING" \in state[q]
  PROVE  \A q \in Peer : "AM_CHOKING" \in state'[q]
<1>1. ASSUME NEW q, NEW pieces, NEW done, NEW completed, NEW said,
             RequestNext(p, q, pieces, done, completed, said)
      PROVE  \A r \in Peer : "AM_CHOKING" \in state'[r]
  <2>1. state' = state \/ state' = [state EXCEPT ![p] = @ \cup {"AM_INTERESTED"}]
    BY <1>1 DEF RequestNext, SelectPieceAndRequest, SendPieceRequest
  <2> QED
    BY <2>1 DEF TypeOK
<1>2. CASE Choke(p) \/ Unchoke(p) \/ Have(p, m.index)
  BY <1>2 DEF Choke, Unchoke, Have, TypeOK
<1>3. CASE Bitfield(p, m.pieces)
  BY <1>1, <1>3 DEF Bitfield
<1>4. CASE BlockRefused(p, m.index, m.block)
  BY <1>4 DEF BlockRefused, HandleError, CloseSession, InitialState, TypeOK
<1>5. CASE BlockCancelled(p, m.index, m.block) \/ BlockStored(p, m.index, m.block, TRUE)
  BY <1>5 DEF BlockCancelled, BlockStored
<1>6. CASE PieceMismatch(p, m.index, m.block, TRUE)
  BY <1>1, <1>6 DEF PieceMismatch
<1>7. CASE PieceCompleted(p, m.index, m.block, TRUE)
  BY <1>1, <1>7 DEF PieceCompleted
<1> QED
  BY <1>2, <1>3, <1>4, <1>5, <1>6, <1>7 DEF Handle

\* What a handler of p's session does to the others: nothing.
LEMMA HandleOthers ==
  ASSUME TypeOK, NEW p \in Peer, NEW m, Handle(p, m),
         \A q \in Peer : "AM_CHOKING" \in state[q],
         NEW q \in Peer \ {p}
  PROVE  /\ open'[q] = open[q] /\ state'[q] = state[q] /\ queue'[q] = queue[q]
         /\ sent'[q] = <<>>
<1>1. Silent[q] = <<>> /\ \A w : Write(p, w)[q] = <<>>
  BY DEF Silent, Write
<1>2. ASSUME NEW r, NEW pieces, NEW done, NEW completed,
             RequestNext(p, r, pieces, done, completed, Silent)
      PROVE  state'[q] = state[q] /\ queue'[q] = queue[q] /\ sent'[q] = <<>>
  <2>1. state' = state \/ state' = [state EXCEPT ![p] = @ \cup {"AM_INTERESTED"}]
    BY <1>2 DEF RequestNext, SelectPieceAndRequest, SendPieceRequest
  <2>2. \E x : queue' = [queue EXCEPT ![p] = x]
    BY <1>2 DEF RequestNext, SelectPieceAndRequest, SendPieceRequest
  <2>3. sent' = Silent \/ \E x : sent' = [Silent EXCEPT ![p] = x]
    BY <1>2 DEF RequestNext, SelectPieceAndRequest, SendPieceRequest
  <2> QED
    BY <1>1, <2>1, <2>2, <2>3 DEF TypeOK, Silent
<1>3. CASE Choke(p) \/ Unchoke(p) \/ Have(p, m.index)
  BY <1>1, <1>3 DEF Choke, Unchoke, Have, TypeOK
<1>4. CASE Bitfield(p, m.pieces)
  BY <1>2, <1>4 DEF Bitfield
<1>5. CASE BlockRefused(p, m.index, m.block)
  BY <1>1, <1>5 DEF BlockRefused, HandleError, CloseSession, TypeOK
<1>6. CASE BlockCancelled(p, m.index, m.block) \/ BlockStored(p, m.index, m.block, TRUE)
  BY <1>1, <1>6 DEF BlockCancelled, BlockStored, TypeOK
<1>7. CASE PieceMismatch(p, m.index, m.block, TRUE)
  BY <1>2, <1>7 DEF PieceMismatch
<1>8. CASE PieceCompleted(p, m.index, m.block, TRUE)
  BY <1>2, <1>8, NothingBroadcast DEF PieceCompleted
<1> QED
  BY <1>3, <1>4, <1>5, <1>6, <1>7, <1>8 DEF Handle

\* A handler runs on an open session, and keeps it open or closes it.
LEMMA HandleOpen ==
  ASSUME NEW p \in Peer, NEW m, Handle(p, m)
  PROVE  open[p] /\ (open' = open \/ (BlockRefused(p, m.index, m.block) /\ CloseSession(p)))
BY DEF Handle, Choke, Unchoke, Have, Bitfield, BlockRefused, HandleError, BlockCancelled,
       BlockStored, PieceMismatch, PieceCompleted, LastBlock, Accepting, Receiving

-----------------------------------------------------------------------------
(***************************************************************************)
(* The wires keep their types, and every step is one of Exchange or a step *)
(* of the remote peers, which Exchange does not see.                       *)
(***************************************************************************)
LEMMA RequestedType ==
  ASSUME NEW w \in Seq(ToRemote)
  PROVE  Requested(w) \in SUBSET Pieces
<1>1. \A k \in DOMAIN w : w[k] \in ToRemote
  BY LenProperties, ElementOfSeq
<1> QED
  BY <1>1 DEF Requested, ToRemote

LEMMA FlushTypes ==
  ASSUME WireInv, NEW arrived \in [Peer -> Seq(FromRemote)],
         sent' \in [Peer -> Seq(ToRemote)], Flush(arrived)
  PROVE  /\ toUs' \in [Peer -> Seq(FromRemote)]
         /\ toThem' \in [Peer -> Seq(ToRemote)]
         /\ asked' \in [Peer -> SUBSET Pieces]
         /\ \A q \in Peer : ~open'[q] => toUs'[q] = <<>> /\ toThem'[q] = <<>> /\ asked'[q] = {}
<1>1. toUs' \in [Peer -> Seq(FromRemote)]
  BY DEF Flush
<1>2. toThem' \in [Peer -> Seq(ToRemote)]
  <2>1. ASSUME NEW q \in Peer  PROVE toThem[q] \o sent'[q] \in Seq(ToRemote)
    BY ConcatProperties DEF WireInv, RemoteTypes
  <2> QED
    BY <2>1 DEF Flush
<1>3. asked' \in [Peer -> SUBSET Pieces]
  <2>1. ASSUME NEW q \in Peer  PROVE asked[q] \cup Requested(sent'[q]) \in SUBSET Pieces
    BY RequestedType DEF WireInv, RemoteTypes
  <2> QED
    BY <2>1 DEF Flush
<1>4. \A q \in Peer : ~open'[q] => toUs'[q] = <<>> /\ toThem'[q] = <<>> /\ asked'[q] = {}
  BY DEF Flush
<1> QED
  BY <1>1, <1>2, <1>3, <1>4

LEMMA ConnectWires ==
  ASSUME TypeOK, WireInv, NEW p \in Peer, Connect(p)
  PROVE  Next /\ WireInv'
<1>1. Handshaked(p, FALSE)
  BY DEF Connect
<1>2. sent' \in [Peer -> Seq(ToRemote)]
  BY <1>1, ToRemoteWrites DEF Handshaked
<1> DEFINE first == [type |-> "bitfield", pieces |-> remoteHas[p]]
           arrived == [toUs EXCEPT ![p] = <<first>>]
<1>3. arrived \in [Peer -> Seq(FromRemote)]
  <2>1. first \in FromRemote
    BY DEF FromRemote, WireInv, RemoteTypes
  <2> HIDE DEF first
  <2>2. <<first>> \in Seq(FromRemote)
    BY <2>1
  <2> QED
    BY <2>2 DEF WireInv, RemoteTypes
<1>4. Flush(arrived)
  BY DEF Connect
<1> HIDE DEF arrived
<1>5. RemoteTypes'
  <2>1. /\ toUs' \in [Peer -> Seq(FromRemote)]
        /\ toThem' \in [Peer -> Seq(ToRemote)]
        /\ asked' \in [Peer -> SUBSET Pieces]
    BY <1>2, <1>3, <1>4, FlushTypes
  <2>2. /\ choking' \in [Peer -> BOOLEAN]
        /\ pending' \in [Peer -> Seq(BlockMessages)]
        /\ remoteHas' \in [Peer -> SUBSET Pieces]
    BY DEF Connect, WireInv, RemoteTypes
  <2> QED
    BY <2>1, <2>2 DEF RemoteTypes
<1>6. \A q \in Peer : ~open'[q] => Fresh(q)'
  BY <1>1, <1>2, <1>3, <1>4, FlushTypes DEF Handshaked, Fresh, WireInv, TypeOK
<1>7. \A q \in Peer : "AM_CHOKING" \in state'[q]
  BY <1>1 DEF Handshaked, WireInv
<1>8. Next
  BY <1>1 DEF Next
<1> QED
  BY <1>5, <1>6, <1>7, <1>8 DEF WireInv

LEMMA DeliverWires ==
  ASSUME TypeOK, WireInv, NEW p \in Peer, Deliver(p)
  PROVE  Next /\ WireInv'
<1> DEFINE m == Head(toUs[p])
           arrived == [toUs EXCEPT ![p] = Tail(@)]
<1>1. toUs[p] \in Seq(FromRemote) /\ toUs[p] # <<>>
  BY DEF Deliver, WireInv, RemoteTypes
<1>2. m \in FromRemote /\ Handle(p, m) /\ \A q \in Peer : "AM_CHOKING" \in state[q]
  BY <1>1, HeadTailProperties DEF Deliver, WireInv
<1>3. sent' \in [Peer -> Seq(ToRemote)]
  BY <1>2, HandleWrites
<1>4. arrived \in [Peer -> Seq(FromRemote)]
  BY <1>1, HeadTailProperties DEF WireInv, RemoteTypes
<1>5. Flush(arrived) /\ UNCHANGED remoteVars
  BY DEF Deliver
<1> HIDE DEF m, arrived
<1>6. RemoteTypes'
  BY <1>3, <1>4, <1>5, FlushTypes DEF WireInv, RemoteTypes, remoteVars
<1>7. ASSUME NEW q \in Peer, ~open'[q]  PROVE Fresh(q)'
  <2>1. toUs'[q] = <<>> /\ toThem'[q] = <<>> /\ asked'[q] = {}
    BY <1>3, <1>4, <1>5, <1>7, FlushTypes
  <2>2. queue'[q] = <<>> /\ state'[q] = InitialState
    <3>1. CASE q = p
      <4>1. CloseSession(p)
        BY <1>2, <1>7, <3>1, HandleOpen
      <4> QED
        BY <3>1, <4>1 DEF CloseSession, TypeOK
    <3>2. CASE q # p
      BY <1>2, <1>7, <3>2, HandleOthers DEF WireInv, Fresh
    <3> QED
      BY <3>1, <3>2
  <2> QED
    BY <2>1, <2>2 DEF Fresh
<1>8. \A q \in Peer : "AM_CHOKING" \in state'[q]
  BY <1>2, HandleKeepsChoking
<1>9. Next
  BY <1>2, HandleIsNext
<1> QED
  BY <1>6, <1>7, <1>8, <1>9 DEF WireInv

LEMMA RemoteWires ==
  ASSUME TypeOK, WireInv, NEW p \in Peer,
         \/ RemoteReads(p) \/ RemoteSendsBlock(p) \/ RemoteChokes(p) \/ RemoteUnchokes(p)
         \/ \E i \in Pieces : RemoteGains(p, i)
  PROVE  UNCHANGED vars /\ WireInv'
<1> USE DEF WireInv, RemoteTypes
<1>1. UNCHANGED vars /\ UNCHANGED asked
  BY DEF RemoteReads, RemoteSendsBlock, RemoteChokes, RemoteUnchokes, RemoteGains
<1>2. UNCHANGED <<open, state, queue>>
  BY <1>1 DEF vars, peerVars
<1>3. \A S : \A s \in Seq(S) : s # <<>> => Head(s) \in S /\ Tail(s) \in Seq(S)
  BY HeadTailProperties
<1>4. ASSUME NEW m \in FromRemote, Send(p, m)  PROVE toUs' \in [Peer -> Seq(FromRemote)]
  BY <1>4, AppendProperties DEF Send
<1>5. /\ [type |-> "choke"] \in FromRemote /\ [type |-> "unchoke"] \in FromRemote
      /\ \A i \in Pieces : [type |-> "have", index |-> i] \in FromRemote
      /\ BlockMessages \subseteq FromRemote
  BY DEF FromRemote
<1>6. RemoteTypes'
  <2>1. CASE RemoteReads(p)
    <3>1. toThem[p] \in Seq(ToRemote) /\ toThem[p] # <<>> /\ Head(toThem[p]) \in ToRemote
      BY <1>3, <2>1 DEF RemoteReads
    <3>2. toThem' \in [Peer -> Seq(ToRemote)] /\ UNCHANGED remoteHas
      BY <1>3, <2>1 DEF RemoteReads
    <3>3. CASE RemoteUnchokesInterested(p)
      BY <1>1, <1>4, <1>5, <3>2, <3>3 DEF RemoteUnchokesInterested
    <3>4. CASE RemoteTakesRequest(p)
      <4>1. Head(toThem[p]).index \in Pieces
        BY <3>1, <3>4 DEF RemoteTakesRequest, ToRemote
      <4>2. pending[p] \o BlocksOf(Head(toThem[p]).index) \in Seq(BlockMessages)
        BY <4>1, BlocksOfType, ConcatProperties
      <4> QED
        BY <1>1, <3>2, <3>4, <4>2 DEF RemoteTakesRequest
    <3>5. CASE RemoteTakesCancel(p)
      <4>1. Without(pending[p], Head(toThem[p]).index) \in Seq(BlockMessages)
        BY WithoutType
      <4> QED
        BY <1>1, <3>2, <3>5, <4>1 DEF RemoteTakesCancel
    <3>6. CASE RemoteIgnores(p)
      BY <1>1, <3>2, <3>6 DEF RemoteIgnores
    <3> QED
      BY <2>1, <3>3, <3>4, <3>5, <3>6 DEF RemoteReads
  <2>2. CASE RemoteSendsBlock(p)
    <3>1. Head(pending[p]) \in FromRemote /\ Tail(pending[p]) \in Seq(BlockMessages)
      BY <1>3, <1>5, <2>2 DEF RemoteSendsBlock
    <3>2. Send(p, Head(pending[p])) /\ pending' = [pending EXCEPT ![p] = Tail(@)]
          /\ UNCHANGED <<toThem, choking, remoteHas, asked>>
      BY <2>2 DEF RemoteSendsBlock
    <3> QED
      BY <1>4, <3>1, <3>2
  <2>3. CASE RemoteChokes(p)
    BY <1>1, <1>4, <1>5, <2>3 DEF RemoteChokes
  <2>4. CASE RemoteUnchokes(p)
    BY <1>1, <1>4, <1>5, <2>4 DEF RemoteUnchokes
  <2>5. ASSUME NEW i \in Pieces, RemoteGains(p, i)  PROVE RemoteTypes'
    <3>1. toUs' \in [Peer -> Seq(FromRemote)]
      BY <1>4, <1>5, <2>5 DEF RemoteGains
    <3>2. remoteHas' \in [Peer -> SUBSET Pieces] /\ UNCHANGED <<toThem, choking, pending, asked>>
      BY <2>5 DEF RemoteGains
    <3> QED
      BY <3>1, <3>2
  <2> QED
    BY <2>1, <2>2, <2>3, <2>4, <2>5
<1>7. ASSUME NEW q \in Peer, ~open'[q]  PROVE Fresh(q)'
  <2>1. ~open[q] /\ Fresh(q) /\ toUs[q] = <<>> /\ toThem[q] = <<>>
    BY <1>2, <1>7 DEF Fresh
  <2>2. toUs'[q] = toUs[q] /\ toThem'[q] = toThem[q]
    <3>1. CASE q = p
      BY <2>1, <3>1 DEF RemoteReads, RemoteSendsBlock, RemoteChokes, RemoteUnchokes, RemoteGains
    <3>2. CASE q # p
      BY <3>2 DEF RemoteReads, RemoteUnchokesInterested, RemoteTakesRequest,
                  RemoteTakesCancel, RemoteIgnores, RemoteSendsBlock, RemoteChokes,
                  RemoteUnchokes, RemoteGains, Send
    <3> QED
      BY <3>1, <3>2
  <2> QED
    BY <1>1, <1>2, <2>1, <2>2 DEF Fresh
<1>8. \A q \in Peer : "AM_CHOKING" \in state'[q]
  BY <1>2
<1> QED
  BY <1>1, <1>6, <1>7, <1>8

\* What every state of the swarm satisfies, for the sessions alone.
SInv == IInv /\ WireInv

LEMMA SwarmInitSInv == SwarmInit => Init /\ SInv
<1> SUFFICES ASSUME SwarmInit  PROVE Init /\ SInv
  OBVIOUS
<1>1. Init /\ IInv
  BY InitIInv DEF SwarmInit
<1>2. RemoteTypes
  BY SwarmAssumption DEF SwarmInit, RemoteTypes
<1>3. \A p \in Peer : Fresh(p) /\ "AM_CHOKING" \in state[p]
  BY DEF SwarmInit, Init, Fresh, InitialState
<1> QED
  BY <1>1, <1>2, <1>3 DEF SInv, WireInv

\* The steps of SwarmNext: a handler of ours, or a step of a remote peer.
OurStep(p) == Connect(p) \/ Deliver(p)
RemoteStep(p) ==
  \/ RemoteReads(p) \/ RemoteSendsBlock(p) \/ RemoteChokes(p) \/ RemoteUnchokes(p)
  \/ \E i \in Pieces : RemoteGains(p, i)

LEMMA SwarmNextSInv ==
  ASSUME SInv, SwarmNext
  PROVE  (Next \/ UNCHANGED vars) /\ SInv'
<1>1. TypeOK /\ WireInv
  BY DEF SInv, IInv
<1>2. PICK p \in Peer : OurStep(p) \/ RemoteStep(p)
  BY DEF SwarmNext, OurStep, RemoteStep
<1>3. (Next \/ UNCHANGED vars) /\ WireInv'
  BY <1>1, <1>2, ConnectWires, DeliverWires, RemoteWires DEF OurStep, RemoteStep
<1>4. IInv'
  BY <1>3, NextKeepsIInv, StutterKeepsIInv DEF SInv
<1> QED
  BY <1>3, <1>4 DEF SInv

LEMMA SwarmStutterSInv == SInv /\ UNCHANGED swarmVars => SInv'
<1> SUFFICES ASSUME SInv, UNCHANGED swarmVars  PROVE SInv'
  OBVIOUS
<1>1. IInv'
  BY StutterKeepsIInv DEF SInv, swarmVars
<1>2. WireInv'
  BY DEF SInv, WireInv, RemoteTypes, Fresh, swarmVars, remoteVars, vars, peerVars
<1> QED
  BY <1>1, <1>2 DEF SInv

\* Every variable of the swarm keeps its type: only messages the protocol has are
\* ever on their way, with indexes and slots that exist, and a session that was
\* closed leaves nothing behind for the next one.
THEOREM SwarmInvariant == SwarmSpec => []SInv
<1>1. SwarmInit => SInv
  BY SwarmInitSInv
<1>2. SInv /\ [SwarmNext]_swarmVars => SInv'
  BY SwarmNextSInv, SwarmStutterSInv
<1> QED
  BY <1>1, <1>2, PTL DEF SwarmSpec

\* The swarm is one environment of the exchange: what is proved of Exchange for
\* any messages holds with these remote peers.
THEOREM SwarmImplementsExchange == SwarmSpec => Spec
<1>1. SwarmInit => Init
  BY SwarmInitSInv
<1>2. SInv /\ [SwarmNext]_swarmVars => [Next]_vars
  BY SwarmNextSInv DEF swarmVars
<1> QED
  BY <1>1, <1>2, SwarmInvariant, PTL DEF SwarmSpec, Spec

\* Our side serves nobody in the swarm: no remote peer is interested in us.
LEMMA SwarmServesNothing ==
  ASSUME SInv, SwarmNext
  PROVE  UNCHANGED vars \/ Served(sent)' = {}
<1>1. ASSUME sent' \in [Peer -> Seq(ToRemote)]  PROVE Served(sent)' = {}
  <2>1. ToRemote \subseteq NotServing
    BY DEF ToRemote, NotServing
  <2>2. Seq(ToRemote) \subseteq Seq(NotServing)
    BY <2>1, SeqMonotonic
  <2> QED
    BY <1>1, <2>2, NotServingSays, NothingServed
<1>2. PICK p \in Peer : OurStep(p) \/ RemoteStep(p)
  BY DEF SwarmNext, OurStep, RemoteStep
<1>3. CASE Connect(p)
  BY <1>1, <1>3, ToRemoteWrites DEF Connect, Handshaked
<1>4. CASE Deliver(p)
  <2>1. Head(toUs[p]) \in FromRemote
    BY <1>4, HeadTailProperties DEF Deliver, SInv, WireInv, RemoteTypes
  <2> QED
    BY <1>1, <1>4, <2>1, HandleWrites DEF Deliver, SInv, IInv, WireInv
<1>5. CASE RemoteStep(p)
  BY <1>5 DEF RemoteStep, RemoteReads, RemoteSendsBlock, RemoteChokes, RemoteUnchokes,
              RemoteGains
<1> QED
  BY <1>2, <1>3, <1>4, <1>5 DEF OurStep

\* So the swarm implements the abstract download, whatever the size of the file: each
\* step obtains at most one piece, and none is lost or counted twice.
THEOREM SwarmImplementsDownload == SwarmSpec => ImplementsDownload
<1>1. SwarmInit => D!Init
  BY InitImplements DEF SwarmInit
<1>2. SInv /\ [SwarmNext]_swarmVars => [D!Next]_(D!vars)
  BY SwarmNextSInv, SwarmServesNothing, WorkImplements, StutterImplements DEF SInv, swarmVars
<1> QED
  BY <1>1, <1>2, SwarmInvariant, PTL DEF SwarmSpec, ImplementsDownload, D!Spec

-----------------------------------------------------------------------------
(***************************************************************************)
(* What a step means for one session.  A remote peer announces its pieces  *)
(* once, so one chain of requests runs in a session: at most one piece is  *)
(* queued, none before the BITFIELD is read and none after a CANCEL.       *)
(***************************************************************************)
Free(s, types) == \A k \in DOMAIN s : s[k].type \notin types

OneRequest(p) ==
  /\ Len(queue[p]) <= 1
  /\ toUs[p] # <<>> => Free(Tail(toUs[p]), {"bitfield"})
  /\ ~Free(toUs[p], {"bitfield"}) => queue[p] = <<>>
  /\ ~Free(toThem[p], {"cancel"}) => queue[p] = <<>> /\ Free(toUs[p], {"bitfield"})

SessionUnchanged(p) ==
  /\ UNCHANGED <<open[p], state[p], queue[p], toUs[p]>>
  /\ UNCHANGED <<toThem[p], choking[p], pending[p], asked[p]>>

Opens(p) ==
  /\ ~open[p] /\ open'[p] /\ choking'[p] /\ pending'[p] = <<>>
  /\ \E pieces \in SUBSET Pieces : toUs'[p] = <<[type |-> "bitfield", pieces |-> pieces]>>
  /\ toThem'[p] = <<>> /\ asked'[p] = {} /\ queue'[p] = <<>> /\ state'[p] = InitialState

Ends(p) == ~open'[p]

\* The next message is handled, and w is written.
Takes(p, type, w) ==
  /\ open[p] /\ open'[p] /\ toUs[p] # <<>> /\ Head(toUs[p]).type = type
  /\ toUs'[p] = Tail(toUs[p])
  /\ toThem'[p] = toThem[p] \o w
  /\ asked'[p] = asked[p] \cup Requested(w)
  /\ UNCHANGED <<choking[p], pending[p]>>

TakesChoke(p) ==
  /\ Takes(p, "choke", <<>>)
  /\ state'[p] = state[p] \cup {"PEER_CHOKING"} /\ queue'[p] = queue[p]

TakesUnchoke(p) ==
  /\ Takes(p, "unchoke", RequestsFor(queue[p]))
  /\ state'[p] = state[p] \ {"PEER_CHOKING"} /\ queue'[p] = queue[p]

TakesHave(p) ==
  /\ Takes(p, "have", <<>>)
  /\ state'[p] = state[p] /\ queue'[p] = queue[p]

\* What asking for piece j writes.
Ask(p, j) == IF "PEER_CHOKING" \in state[p] THEN <<Signal("interested")>>
             ELSE <<Signal("interested"), Msg("request", j)>>

\* The queue is empty and a piece that is not in done is asked for, or none is.
AsksNext(p, type, done) ==
  \/ /\ Takes(p, type, <<>>)
     /\ queue'[p] = <<>> /\ state'[p] = state[p]
  \/ \E j \in Pieces \ done :
       /\ Takes(p, type, Ask(p, j))
       /\ queue'[p] = <<NewEntry(j)>> /\ state'[p] = state[p] \cup {"AM_INTERESTED"}

TakesBitfield(p) == queue[p] = <<>> /\ AsksNext(p, "bitfield", finished)

\* A block of the piece that is queued.
First(p) == Head(toUs[p])
Queued(p) == queue[p][1]
BlockTaken(p) == Store(Queued(p), First(p).block, TRUE)

TakesCancelled(p) ==
  /\ queue[p] = <<Queued(p)>> /\ First(p).index = Queued(p).index
  /\ Queued(p).index \in finished
  /\ Takes(p, "piece", <<Msg("cancel", Queued(p).index)>>)
  /\ queue'[p] = <<>> /\ state'[p] = state[p]

TakesStored(p) ==
  /\ queue[p] = <<Queued(p)>> /\ First(p).index = Queued(p).index
  /\ Takes(p, "piece", <<>>)
  /\ queue'[p] = <<BlockTaken(p)>> /\ state'[p] = state[p]

TakesLast(p) ==
  /\ queue[p] = <<Queued(p)>> /\ First(p).index = Queued(p).index
  /\ BlockTaken(p).haveBlocks = NumBlocks[Queued(p).index]
  /\ \/ /\ HashMatches(BlockTaken(p))
        /\ finished' = finished \cup {Queued(p).index}
        /\ UNCHANGED pieceHashMisses
     \/ ~HashMatches(BlockTaken(p)) /\ finished' = finished
  /\ AsksNext(p, "piece", finished')

TakesMessage(p) ==
  \/ TakesChoke(p) \/ TakesUnchoke(p) \/ TakesHave(p) \/ TakesBitfield(p)
  \/ TakesCancelled(p) \/ TakesStored(p) \/ TakesLast(p)

LEMMA FlushAt ==
  ASSUME NEW p \in Peer, open[p], open'[p], toUs[p] # <<>>, NEW w, NEW type,
         Head(toUs[p]).type = type, sent' = Write(p, w),
         Flush([toUs EXCEPT ![p] = Tail(@)]), UNCHANGED remoteVars,
         toUs \in [Peer -> Seq(FromRemote)]
  PROVE  Takes(p, type, w)
<1>1. sent'[p] = w
  BY DEF Write, Silent
<1> QED
  BY <1>1 DEF Flush, Takes, remoteVars

\* Asking for the next piece with an empty queue.
LEMMA RequestNextFromEmpty ==
  ASSUME TypeOK, NEW p \in Peer, NEW pieces, NEW done, NEW completed,
         RequestNext(p, <<>>, pieces, done, completed, Silent)
  PROVE  \/ sent' = Write(p, <<>>) /\ queue'[p] = <<>> /\ state'[p] = state[p]
         \/ \E j \in Pieces \ done :
              /\ sent' = Write(p, Ask(p, j))
              /\ queue'[p] = <<NewEntry(j)>>
              /\ state'[p] = state[p] \cup {"AM_INTERESTED"}
<1>1. CASE /\ Candidates(pieces, done) # {}
           /\ SendPieceRequest(p, Best(Candidates(pieces, done)), <<>>, Silent)
  <2> DEFINE j == Best(Candidates(pieces, done))
  <2>1. j \in Pieces \ done
    BY <1>1, BestIsCandidate DEF Candidates
  <2>2. SendPieceRequest(p, j, <<>>, Silent)
    BY <1>1
  <2> HIDE DEF j
  <2>3. queue'[p] = <<NewEntry(j)>>
    <3>1. Append(<<>>, NewEntry(j)) = <<NewEntry(j)>>
      OBVIOUS
    <3> QED
      BY <2>2, <3>1 DEF SendPieceRequest, TypeOK
  <2>4. state'[p] = state[p] \cup {"AM_INTERESTED"}
    BY <2>2 DEF SendPieceRequest, TypeOK
  <2>5. sent' = Write(p, Ask(p, j))
    <3>1. sent' = [Silent EXCEPT ![p] = Silent[p] \o Ask(p, j)]
      BY <2>2 DEF SendPieceRequest, Ask
    <3>2. Silent[p] = <<>>
      BY DEF Silent
    <3>3. Ask(p, j) \in Seq(ToRemote)
      BY <2>1, WireMessages DEF Ask
    <3>4. Silent[p] \o Ask(p, j) = Ask(p, j)
      BY <3>2, <3>3, ConcatEmptySeq
    <3> QED
      BY <3>1, <3>4 DEF Write
  <2> QED
    BY <2>1, <2>3, <2>4, <2>5
<1>2. CASE queue' = [queue EXCEPT ![p] = <<>>] /\ sent' = Silent /\ UNCHANGED <<priority, state>>
  BY <1>2, ToRemoteWrites DEF TypeOK
<1> QED
  BY <1>1, <1>2 DEF RequestNext, SelectPieceAndRequest

\* The queue of at most one entry.
LEMMA OnlyEntry ==
  ASSUME TypeOK, NEW p \in Peer, Len(queue[p]) <= 1, NEW i, Position(p, i) # 0
  PROVE  /\ Position(p, i) = 1 /\ queue[p] = <<Queued(p)>> /\ Queued(p).index = i
         /\ RemoveAt(queue[p], Position(p, i)) = <<>>
         /\ \A e \in Entry : [queue[p] EXCEPT ![Position(p, i)] = e] = <<e>>
<1>1. queue[p] \in Seq(Entry) /\ Len(queue[p]) \in Nat /\ DOMAIN queue[p] = 1 .. Len(queue[p])
  BY LenProperties DEF TypeOK
<1>2. Position(p, i) \in DOMAIN queue[p] /\ queue[p][Position(p, i)].index = i
  BY PositionInQueue
<1>3. Position(p, i) = 1 /\ Len(queue[p]) = 1
  <2>1. \A n \in Nat : n <= 1 => \A k \in 1 .. n : k = 1 /\ n = 1
    OBVIOUS
  <2>2. Position(p, i) \in 1 .. Len(queue[p])
    BY <1>1, <1>2
  <2> QED
    BY <1>1, <2>1, <2>2
<1>4. queue[p] = <<Queued(p)>>
  <2>1. queue[p][1] \in Entry
    BY <1>1, <1>3, ElementOfSeq
  <2>2. <<Queued(p)>> \in Seq(Entry) /\ Len(<<Queued(p)>>) = 1 /\ <<Queued(p)>>[1] = queue[p][1]
    BY <2>1 DEF Queued
  <2> QED
    BY <1>1, <1>3, <2>2, SeqEqual
<1>5. RemoveAt(queue[p], 1) = <<>>
  <2>1. RemoveAt(queue[p], 1) \in Seq(Entry) /\ DOMAIN RemoveAt(queue[p], 1) = 1 .. 0
    BY <1>1, <1>3, RemoveAtProperties, RemoveAtElements
  <2>2. Len(RemoveAt(queue[p], 1)) = 0
    BY <2>1, LenProperties
  <2> QED
    BY <2>1, <2>2, EmptySeq
<1>6. ASSUME NEW e \in Entry  PROVE [queue[p] EXCEPT ![1] = e] = <<e>>
  <2>1. /\ [queue[p] EXCEPT ![1] = e] \in Seq(Entry)
        /\ Len([queue[p] EXCEPT ![1] = e]) = 1
        /\ [queue[p] EXCEPT ![1] = e][1] = e
    BY <1>1, <1>3, ExceptSeq
  <2>2. <<e>> \in Seq(Entry) /\ Len(<<e>>) = 1 /\ <<e>>[1] = e
    OBVIOUS
  <2> QED
    BY <2>1, <2>2, SeqEqual
<1> QED
  BY <1>2, <1>3, <1>4, <1>5, <1>6 DEF Queued

\* What delivering a message is for the session, and that it is nothing for the
\* others.  Only a complete piece that fails the hash check is a miss.
LEMMA DeliverOthers ==
  ASSUME SInv, NEW p \in Peer, Deliver(p), NEW q \in Peer \ {p}
  PROVE  SessionUnchanged(q)
<1>1. TypeOK /\ WireInv
  BY DEF SInv, IInv
<1>2. /\ open'[q] = open[q] /\ state'[q] = state[q] /\ queue'[q] = queue[q]
      /\ sent'[q] = <<>>
  BY <1>1, HandleOthers DEF Deliver, WireInv
<1>3. UNCHANGED <<choking[q], pending[q]>>
  BY DEF Deliver, remoteVars
<1>4. /\ toUs'[q] = IF open'[q] THEN toUs[q] ELSE <<>>
      /\ toThem'[q] = IF open'[q] THEN toThem[q] \o <<>> ELSE <<>>
      /\ asked'[q] = IF open'[q] THEN asked[q] \cup Requested(<<>>) ELSE {}
  BY <1>1, <1>2 DEF Deliver, Flush, WireInv, RemoteTypes
<1>5. Requested(<<>>) = {}
  BY DEF Requested
<1>6. toThem[q] \o <<>> = toThem[q]
  BY <1>1, ConcatEmptySeq DEF WireInv, RemoteTypes
<1>7. ~open[q] => toUs[q] = <<>> /\ toThem[q] = <<>> /\ asked[q] = {}
  BY <1>1 DEF WireInv, Fresh
<1> QED
  BY <1>2, <1>3, <1>4, <1>5, <1>6, <1>7 DEF SessionUnchanged

LEMMA DeliverBlock ==
  ASSUME SInv, NEW p \in Peer, OneRequest(p), Deliver(p), First(p).type = "piece"
  PROVE  /\ Ends(p) \/ TakesCancelled(p) \/ TakesStored(p) \/ TakesLast(p)
         /\ \/ UNCHANGED pieceHashMisses
            \/ TakesLast(p) /\ ~HashMatches(BlockTaken(p))
<1> DEFINE i == First(p).index
           b == First(p).block
<1>1. TypeOK /\ QueueEntryIncomplete /\ WireInv /\ Len(queue[p]) <= 1
  BY DEF SInv, IInv, OneRequest
<1>2. /\ toUs[p] # <<>> /\ First(p) \in FromRemote /\ toUs \in [Peer -> Seq(FromRemote)]
      /\ Flush([toUs EXCEPT ![p] = Tail(@)]) /\ UNCHANGED remoteVars
  BY <1>1, HeadTailProperties DEF Deliver, WireInv, RemoteTypes, First
<1>3. i \in Pieces /\ b \in Nat
  BY <1>2, FromRemoteFields
<1>4. \A w : open[p] /\ open'[p] /\ sent' = Write(p, w) => Takes(p, "piece", w)
  BY <1>2, FlushAt DEF First
<1>5. CASE BlockRefused(p, i, b)
  BY <1>1, <1>5 DEF BlockRefused, HandleError, CloseSession, Ends, TypeOK, torrentVars
<1>6. CASE BlockCancelled(p, i, b)
  <2>1. Position(p, i) # 0 /\ i \in finished /\ open[p] /\ UNCHANGED <<torrentVars, open, state>>
    BY <1>6 DEF BlockCancelled, Receiving
  <2>2. queue[p] = <<Queued(p)>> /\ Queued(p).index = i /\ RemoveAt(queue[p], Position(p, i)) = <<>>
    BY <1>1, <2>1, OnlyEntry
  <2>3. queue'[p] = <<>> /\ sent' = Write(p, <<Msg("cancel", i)>>)
    BY <1>1, <1>6, <2>2 DEF BlockCancelled, TypeOK
  <2>4. Takes(p, "piece", <<Msg("cancel", i)>>)
    BY <1>4, <2>1, <2>3
  <2> QED
    BY <2>1, <2>2, <2>3, <2>4 DEF TakesCancelled, torrentVars
<1>7. ASSUME Accepting(p, i, b)
      PROVE  /\ queue[p] = <<Queued(p)>> /\ Queued(p).index = i
             /\ Stored(p, i, b, TRUE) = BlockTaken(p) /\ BlockTaken(p) \in Entry
             /\ [queue[p] EXCEPT ![Position(p, i)] = BlockTaken(p)] = <<BlockTaken(p)>>
             /\ RemoveAt(queue[p], Position(p, i)) = <<>>
             /\ open[p]
  <2>1. Position(p, i) # 0 /\ open[p]
    BY <1>7 DEF Accepting, Receiving
  <2>2. Position(p, i) = 1 /\ queue[p] = <<Queued(p)>> /\ Queued(p).index = i
        /\ RemoveAt(queue[p], Position(p, i)) = <<>>
        /\ \A e \in Entry : [queue[p] EXCEPT ![Position(p, i)] = e] = <<e>>
    BY <1>1, <2>1, OnlyEntry
  <2>3. Stored(p, i, b, TRUE) \in Entry
    BY <1>1, <1>3, <1>7, StoredType
  <2>4. Stored(p, i, b, TRUE) = BlockTaken(p)
    BY <2>2 DEF Stored, BlockTaken, Queued
  <2> QED
    BY <2>1, <2>2, <2>3, <2>4
<1>8. CASE BlockStored(p, i, b, TRUE)
  <2>1. Accepting(p, i, b) /\ UNCHANGED <<torrentVars, open, state>>
    BY <1>8 DEF BlockStored
  <2>2. queue'[p] = [queue[p] EXCEPT ![Position(p, i)] = Stored(p, i, b, TRUE)]
    BY <1>1, <1>8 DEF BlockStored, TypeOK
  <2>3. queue'[p] = <<BlockTaken(p)>>
    BY <1>7, <2>1, <2>2
  <2>4. sent' = Write(p, <<>>)
    BY <1>8, ToRemoteWrites DEF BlockStored
  <2>5. Takes(p, "piece", <<>>)
    BY <1>4, <1>7, <2>1, <2>4
  <2> QED
    BY <1>7, <2>1, <2>3, <2>5 DEF TakesStored, torrentVars
<1>9. ASSUME LastBlock(p, i, b, TRUE), UNCHANGED open,
             NEW done, NEW completed,
             RequestNext(p, RemoveAt(queue[p], Position(p, i)), has[p], done, completed, Silent)
      PROVE  /\ queue[p] = <<Queued(p)>> /\ Queued(p).index = i
             /\ Stored(p, i, b, TRUE) = BlockTaken(p)
             /\ BlockTaken(p).haveBlocks = NumBlocks[i]
             /\ AsksNext(p, "piece", done)
  <2>1. Accepting(p, i, b) /\ Stored(p, i, b, TRUE).haveBlocks = NumBlocks[i]
    BY <1>9 DEF LastBlock
  <2>2. RemoveAt(queue[p], Position(p, i)) = <<>> /\ open[p] /\ open'[p]
    BY <1>7, <1>9, <2>1
  <2>3. \/ sent' = Write(p, <<>>) /\ queue'[p] = <<>> /\ state'[p] = state[p]
        \/ \E j \in Pieces \ done :
             /\ sent' = Write(p, Ask(p, j))
             /\ queue'[p] = <<NewEntry(j)>>
             /\ state'[p] = state[p] \cup {"AM_INTERESTED"}
    BY <1>1, <1>9, <2>2, RequestNextFromEmpty
  <2>4. AsksNext(p, "piece", done)
    BY <1>4, <2>2, <2>3 DEF AsksNext
  <2> QED
    BY <1>7, <2>1, <2>4
<1>10. CASE PieceMismatch(p, i, b, TRUE)
  <2>1. /\ LastBlock(p, i, b, TRUE) /\ ~HashMatches(Stored(p, i, b, TRUE))
        /\ UNCHANGED <<finished, open>>
        /\ RequestNext(p, RemoveAt(queue[p], Position(p, i)), has[p], finished, completedPieces, Silent)
    BY <1>10 DEF PieceMismatch
  <2> QED
    BY <1>9, <2>1 DEF TakesLast
<1>11. CASE PieceCompleted(p, i, b, TRUE)
  <2>1. HaveBroadcast(i) = Silent
    BY <1>1, NothingBroadcast DEF WireInv
  <2>2. /\ LastBlock(p, i, b, TRUE) /\ HashMatches(Stored(p, i, b, TRUE))
        /\ finished' = finished \cup {i} /\ UNCHANGED <<pieceHashMisses, open>>
        /\ RequestNext(p, RemoveAt(queue[p], Position(p, i)), has[p], finished \cup {i},
                       completedPieces + 1, Silent)
    BY <1>11, <2>1 DEF PieceCompleted
  <2> QED
    BY <1>9, <2>2 DEF TakesLast
<1>12. Handle(p, First(p))
  BY DEF Deliver, First
<1> QED
  BY <1>5, <1>6, <1>8, <1>10, <1>11, <1>12 DEF Handle

LEMMA DeliverOutcome ==
  ASSUME SInv, NEW p \in Peer, OneRequest(p), Deliver(p)
  PROVE  /\ Ends(p) \/ TakesMessage(p)
         /\ \/ UNCHANGED pieceHashMisses
            \/ TakesLast(p) /\ ~HashMatches(BlockTaken(p))
<1> DEFINE m == First(p)
<1>1. TypeOK /\ WireInv
  BY DEF SInv, IInv
<1>2. /\ toUs[p] # <<>> /\ First(p) \in FromRemote /\ toUs \in [Peer -> Seq(FromRemote)]
      /\ Flush([toUs EXCEPT ![p] = Tail(@)]) /\ UNCHANGED remoteVars
  BY <1>1, HeadTailProperties DEF Deliver, WireInv, RemoteTypes, First
<1>3. \A w : open[p] /\ open'[p] /\ sent' = Write(p, w) => Takes(p, First(p).type, w)
  BY <1>2, FlushAt DEF First
<1>4. Write(p, <<>>) = Silent
  BY ToRemoteWrites
<1>5. CASE m.type = "choke" /\ Choke(p)
  BY <1>1, <1>3, <1>4, <1>5 DEF Choke, Receiving, torrentVars, TakesMessage, TakesChoke, TypeOK
<1>6. CASE m.type = "unchoke" /\ Unchoke(p)
  <2>1. sent' = Write(p, RequestsFor(queue[p]))
    BY <1>6 DEF Unchoke, RequestsFor
  <2> QED
    BY <1>1, <1>3, <1>6, <2>1
       DEF Unchoke, Receiving, torrentVars, TakesMessage, TakesUnchoke, TypeOK
<1>7. CASE m.type = "have" /\ Have(p, m.index)
  BY <1>1, <1>3, <1>4, <1>7 DEF Have, Receiving, torrentVars, TakesMessage, TakesHave
<1>8. CASE m.type = "bitfield" /\ Bitfield(p, m.pieces)
  <2>1. queue[p] = <<>>
    <3>1. Len(toUs[p]) \in Nat \ {0} /\ First(p) = toUs[p][1] /\ DOMAIN toUs[p] = 1 .. Len(toUs[p])
      BY <1>2, EmptySeq, LenProperties DEF First
    <3> QED
      BY <1>8, <3>1 DEF OneRequest, Free
  <2>2. /\ open[p] /\ UNCHANGED <<open, finished, pieceHashMisses>>
        /\ RequestNext(p, <<>>, has[p] \cup m.pieces, finished, completedPieces, Silent)
    BY <1>8, <2>1 DEF Bitfield, Receiving
  <2>3. \/ sent' = Write(p, <<>>) /\ queue'[p] = <<>> /\ state'[p] = state[p]
        \/ \E j \in Pieces \ finished :
             /\ sent' = Write(p, Ask(p, j))
             /\ queue'[p] = <<NewEntry(j)>>
             /\ state'[p] = state[p] \cup {"AM_INTERESTED"}
    BY <1>1, <2>2, RequestNextFromEmpty
  <2>4. AsksNext(p, "bitfield", finished)
    BY <1>3, <1>8, <2>2, <2>3 DEF AsksNext
  <2> QED
    BY <2>1, <2>2, <2>4 DEF TakesMessage, TakesBitfield
<1>9. CASE m.type = "piece"
  BY <1>9, DeliverBlock DEF TakesMessage
<1>10. Handle(p, First(p))
  BY DEF Deliver, First
<1> QED
  BY <1>5, <1>6, <1>7, <1>8, <1>9, <1>10 DEF Handle

-----------------------------------------------------------------------------
(***************************************************************************)
(* The messages of some types that a list is free of.                      *)
(***************************************************************************)
LEMMA FreeTail ==
  ASSUME NEW S, NEW s \in Seq(S), s # <<>>, NEW types
  PROVE  Free(s, types) <=> Head(s).type \notin types /\ Free(Tail(s), types)
<1>1. /\ Len(s) \in Nat \ {0} /\ DOMAIN s = 1 .. Len(s) /\ Head(s) = s[1]
      /\ DOMAIN Tail(s) = 1 .. Len(s) - 1
      /\ \A k \in 1 .. Len(s) - 1 : Tail(s)[k] = s[k + 1]
  BY TailElements
<1>2. ASSUME Head(s).type \notin types, Free(Tail(s), types), NEW k \in 1 .. Len(s)
      PROVE  s[k].type \notin types
  <2>1. CASE k = 1
    BY <1>1, <1>2, <2>1
  <2>2. CASE k # 1
    <3>1. k - 1 \in 1 .. Len(s) - 1 /\ (k - 1) + 1 = k
      BY <1>1, <2>2
    <3>2. Tail(s)[k - 1] = s[k]
      BY <1>1, <3>1
    <3> QED
      BY <1>1, <1>2, <3>1, <3>2 DEF Free
  <2> QED
    BY <2>1, <2>2
<1>3. ASSUME Free(s, types)  PROVE Head(s).type \notin types /\ Free(Tail(s), types)
  <2>1. 1 \in 1 .. Len(s) /\ \A k \in 1 .. Len(s) - 1 : k + 1 \in 1 .. Len(s)
    BY <1>1
  <2> QED
    BY <1>1, <1>3, <2>1 DEF Free
<1> QED
  BY <1>1, <1>2, <1>3 DEF Free

LEMMA FreeAppend ==
  ASSUME NEW S, NEW s \in Seq(S), NEW x \in S, NEW types
  PROVE  Free(Append(s, x), types) <=> Free(s, types) /\ x.type \notin types
<1>1. /\ Len(s) \in Nat /\ DOMAIN s = 1 .. Len(s)
      /\ DOMAIN Append(s, x) = 1 .. Len(s) + 1
      /\ \A k \in 1 .. Len(s) : Append(s, x)[k] = s[k]
      /\ Append(s, x)[Len(s) + 1] = x
  BY AppendElements
<1>2. \A k \in 1 .. Len(s) + 1 : k \in 1 .. Len(s) \/ k = Len(s) + 1
  BY <1>1
<1>3. Len(s) + 1 \in 1 .. Len(s) + 1 /\ \A k \in 1 .. Len(s) : k \in 1 .. Len(s) + 1
  BY <1>1
<1> QED
  BY <1>1, <1>2, <1>3 DEF Free

LEMMA FreeConcat ==
  ASSUME NEW S, NEW s \in Seq(S), NEW t \in Seq(S), NEW types
  PROVE  Free(s \o t, types) <=> Free(s, types) /\ Free(t, types)
<1>1. /\ Len(s) \in Nat /\ DOMAIN s = 1 .. Len(s)
      /\ Len(t) \in Nat /\ DOMAIN t = 1 .. Len(t)
      /\ DOMAIN (s \o t) = 1 .. Len(s) + Len(t)
      /\ \A k \in 1 .. Len(s) : (s \o t)[k] = s[k]
      /\ \A k \in 1 .. Len(t) : (s \o t)[Len(s) + k] = t[k]
  BY ConcatElements
<1>2. ASSUME NEW k \in 1 .. Len(s) + Len(t)
      PROVE  k \in 1 .. Len(s) \/ \E j \in 1 .. Len(t) : k = Len(s) + j
  <2>1. k \notin 1 .. Len(s) => k - Len(s) \in 1 .. Len(t) /\ k = Len(s) + (k - Len(s))
    BY <1>1
  <2> QED
    BY <2>1
<1>3. /\ \A k \in 1 .. Len(s) : k \in 1 .. Len(s) + Len(t)
      /\ \A k \in 1 .. Len(t) : Len(s) + k \in 1 .. Len(s) + Len(t)
  BY <1>1
<1>4. ASSUME Free(s \o t, types)  PROVE Free(s, types) /\ Free(t, types)
  <2>1. \A k \in 1 .. Len(s) + Len(t) : (s \o t)[k].type \notin types
    BY <1>1, <1>4 DEF Free
  <2>2. \A k \in 1 .. Len(s) : s[k].type \notin types
    BY <1>1, <1>3, <2>1
  <2>3. \A k \in 1 .. Len(t) : t[k].type \notin types
    BY <1>1, <1>3, <2>1
  <2> QED
    BY <1>1, <2>2, <2>3 DEF Free
<1>5. ASSUME Free(s, types), Free(t, types)  PROVE Free(s \o t, types)
  <2>1. /\ \A k \in 1 .. Len(s) : s[k].type \notin types
        /\ \A k \in 1 .. Len(t) : t[k].type \notin types
    BY <1>1, <1>5 DEF Free
  <2>2. ASSUME NEW k \in 1 .. Len(s) + Len(t)  PROVE (s \o t)[k].type \notin types
    <3>1. CASE k \in 1 .. Len(s)
      BY <1>1, <2>1, <3>1
    <3>2. ASSUME NEW j \in 1 .. Len(t), k = Len(s) + j  PROVE (s \o t)[k].type \notin types
      BY <1>1, <2>1, <3>2
    <3> QED
      BY <1>2, <3>1, <3>2
  <2> QED
    BY <1>1, <2>2 DEF Free
<1> QED
  BY <1>4, <1>5

LEMMA FreeEmpty == \A types : Free(<<>>, types)
BY DEF Free

\* Only a CANCEL is a cancel, and only a REQUEST a request.
LEMMA FreeWritten ==
  ASSUME NEW p \in Peer
  PROVE  /\ \A j : Free(Ask(p, j), {"cancel"})
         /\ \A q : Free(RequestsFor(q), {"cancel"})
         /\ \A j : "PEER_CHOKING" \in state[p] => Free(Ask(p, j), {"request"})
<1>1. \A t, i : Msg(t, i).type = t /\ Signal(t).type = t
  BY DEF Msg, Signal
<1>2. \A q : Free(RequestsFor(q), {"cancel"})
  BY <1>1 DEF Free, RequestsFor
<1>3. \A j : Free(<<Signal("interested"), Msg("request", j)>>, {"cancel"})
  BY <1>1 DEF Free
<1>4. Free(<<Signal("interested")>>, {"cancel"}) /\ Free(<<Signal("interested")>>, {"request"})
  BY <1>1 DEF Free
<1> QED
  BY <1>2, <1>3, <1>4 DEF Ask

-----------------------------------------------------------------------------
(***************************************************************************)
(* What a step of the remote peer is for the session.                      *)
(***************************************************************************)
OursUnchanged(p) == UNCHANGED <<open[p], state[p], queue[p], asked[p]>>

\* The remote peer reads a message, of one of the types.
Reads(p, types) ==
  /\ OursUnchanged(p)
  /\ toThem[p] # <<>> /\ Head(toThem[p]).type \in types /\ toThem'[p] = Tail(toThem[p])

UnchokesInterested(p) ==
  /\ Reads(p, {"interested"})
  /\ choking[p] /\ ~choking'[p] /\ pending'[p] = pending[p]
  /\ toUs'[p] = Append(toUs[p], [type |-> "unchoke"])

ReadsRequest(p) ==
  /\ Reads(p, {"request"})
  /\ ~choking[p] /\ ~choking'[p] /\ toUs'[p] = toUs[p]
  /\ pending'[p] = pending[p] \o BlocksOf(Head(toThem[p]).index)

ReadsCancel(p) ==
  /\ Reads(p, {"cancel"})
  /\ pending'[p] \in Seq(Range(pending[p]))
  /\ UNCHANGED <<choking[p], toUs[p]>>

Ignores(p) ==
  /\ Reads(p, {"interested", "request"})
  /\ Head(toThem[p]).type = "request" => choking[p]
  /\ UNCHANGED <<choking[p], pending[p], toUs[p]>>

SendsBlock(p) ==
  /\ OursUnchanged(p) /\ open[p] /\ pending[p] # <<>>
  /\ toUs'[p] = Append(toUs[p], Head(pending[p])) /\ pending'[p] = Tail(pending[p])
  /\ UNCHANGED <<toThem[p], choking[p]>>

Chokes(p) ==
  /\ OursUnchanged(p) /\ open[p] /\ chokes < MaxChokes
  /\ ~choking[p] /\ choking'[p] /\ pending'[p] = <<>>
  /\ toUs'[p] = Append(toUs[p], [type |-> "choke"])
  /\ UNCHANGED toThem[p]

Unchokes(p) ==
  /\ OursUnchanged(p) /\ open[p] /\ asked[p] # {}
  /\ choking[p] /\ ~choking'[p]
  /\ toUs'[p] = Append(toUs[p], [type |-> "unchoke"])
  /\ UNCHANGED <<toThem[p], pending[p]>>

Announces(p) ==
  /\ OursUnchanged(p) /\ open[p]
  /\ \E i \in Pieces : toUs'[p] = Append(toUs[p], [type |-> "have", index |-> i])
  /\ UNCHANGED <<toThem[p], choking[p], pending[p]>>

RemoteActs(p) ==
  \/ UnchokesInterested(p) \/ ReadsRequest(p) \/ ReadsCancel(p) \/ Ignores(p)
  \/ SendsBlock(p) \/ Chokes(p) \/ Unchokes(p) \/ Announces(p)

LEMMA RemoteOutcome ==
  ASSUME SInv, NEW p \in Peer, RemoteStep(p)
  PROVE  RemoteActs(p) /\ \A q \in Peer \ {p} : SessionUnchanged(q)
<1> USE DEF RemoteTypes
<1>1. RemoteTypes /\ open \in [Peer -> BOOLEAN]
  BY DEF SInv, IInv, TypeOK, WireInv
<1>2. UNCHANGED vars /\ UNCHANGED asked
  BY DEF RemoteStep, RemoteReads, RemoteSendsBlock, RemoteChokes, RemoteUnchokes, RemoteGains
<1>3. UNCHANGED <<open, state, queue, asked>> /\ \A q \in Peer : OursUnchanged(q)
  BY <1>2 DEF vars, peerVars, OursUnchanged
<1>4. \A q \in Peer \ {p} : SessionUnchanged(q)
  <2>1. ASSUME NEW q \in Peer \ {p}
        PROVE  UNCHANGED <<toUs[q], toThem[q], choking[q], pending[q]>>
    <3>1. ASSUME NEW m, Send(p, m)  PROVE toUs'[q] = toUs[q]
      BY <1>1, <3>1 DEF Send
    <3>2. CASE RemoteReads(p)
      <4>1. toThem'[q] = toThem[q]
        BY <1>1, <3>2 DEF RemoteReads
      <4>2. UNCHANGED <<toUs[q], choking[q], pending[q]>>
        BY <1>1, <3>1, <3>2 DEF RemoteReads, RemoteUnchokesInterested, RemoteTakesRequest,
                                RemoteTakesCancel, RemoteIgnores
      <4> QED
        BY <4>1, <4>2
    <3>3. CASE RemoteSendsBlock(p)
      BY <1>1, <3>1, <3>3 DEF RemoteSendsBlock
    <3>4. CASE RemoteChokes(p)
      BY <1>1, <3>1, <3>4 DEF RemoteChokes
    <3>5. CASE RemoteUnchokes(p)
      BY <1>1, <3>1, <3>5 DEF RemoteUnchokes
    <3>6. CASE \E i \in Pieces : RemoteGains(p, i)
      BY <1>1, <3>1, <3>6 DEF RemoteGains
    <3> QED
      BY <3>2, <3>3, <3>4, <3>5, <3>6 DEF RemoteStep
  <2> QED
    BY <1>3, <2>1 DEF SessionUnchanged
<1>5. ASSUME NEW m, Send(p, m)  PROVE toUs'[p] = Append(toUs[p], m)
  BY <1>1, <1>5 DEF Send
<1>6. ASSUME RemoteReads(p)  PROVE RemoteActs(p)
  <2>1. ASSUME NEW types, Head(toThem[p]).type \in types  PROVE Reads(p, types)
    BY <1>1, <1>3, <1>6, <2>1 DEF RemoteReads, Reads
  <2>2. CASE RemoteUnchokesInterested(p)
    <3>1. Reads(p, {"interested"})
      BY <2>1, <2>2 DEF RemoteUnchokesInterested
    <3> QED
      BY <1>1, <1>5, <2>2, <3>1 DEF RemoteUnchokesInterested, RemoteActs, UnchokesInterested
  <2>3. CASE RemoteTakesRequest(p)
    <3>1. Reads(p, {"request"})
      BY <2>1, <2>3 DEF RemoteTakesRequest
    <3> QED
      BY <1>1, <2>3, <3>1 DEF RemoteTakesRequest, RemoteActs, ReadsRequest
  <2>4. CASE RemoteTakesCancel(p)
    <3>1. Reads(p, {"cancel"})
      BY <2>1, <2>4 DEF RemoteTakesCancel
    <3>2. Without(pending[p], Head(toThem[p]).index) \in Seq(Range(pending[p]))
      BY <1>1, SeqOfRange, WithoutType
    <3>3. pending'[p] = Without(pending[p], Head(toThem[p]).index)
      BY <1>1, <2>4 DEF RemoteTakesCancel
    <3> QED
      BY <1>1, <2>4, <3>1, <3>2, <3>3 DEF RemoteTakesCancel, RemoteActs, ReadsCancel
  <2>5. CASE RemoteIgnores(p)
    <3>1. Reads(p, {"interested", "request"})
      BY <2>1, <2>5 DEF RemoteIgnores
    <3> QED
      BY <1>1, <2>5, <3>1 DEF RemoteIgnores, RemoteActs, Ignores
  <2> QED
    BY <1>6, <2>2, <2>3, <2>4, <2>5 DEF RemoteReads
<1>7. ASSUME RemoteSendsBlock(p)  PROVE RemoteActs(p)
  BY <1>1, <1>3, <1>5, <1>7 DEF RemoteSendsBlock, RemoteActs, SendsBlock
<1>8. ASSUME RemoteChokes(p)  PROVE RemoteActs(p)
  BY <1>1, <1>3, <1>5, <1>8 DEF RemoteChokes, RemoteActs, Chokes
<1>9. ASSUME RemoteUnchokes(p)  PROVE RemoteActs(p)
  BY <1>1, <1>3, <1>5, <1>9 DEF RemoteUnchokes, RemoteActs, Unchokes
<1>10. ASSUME NEW i \in Pieces, RemoteGains(p, i)  PROVE RemoteActs(p)
  BY <1>1, <1>3, <1>5, <1>10 DEF RemoteGains, RemoteActs, Announces
<1> QED
  BY <1>4, <1>6, <1>7, <1>8, <1>9, <1>10 DEF RemoteStep

LEMMA ConnectOutcome ==
  ASSUME SInv, NEW p \in Peer, Connect(p)
  PROVE  Opens(p) /\ \A q \in Peer \ {p} : SessionUnchanged(q)
<1>1. TypeOK /\ WireInv /\ RemoteTypes
  BY DEF SInv, IInv, WireInv
<1>2. /\ ~open[p] /\ open' = [open EXCEPT ![p] = TRUE] /\ sent' = Silent
      /\ UNCHANGED <<state, queue>>
  BY DEF Connect, Handshaked
<1>3. /\ choking' = [choking EXCEPT ![p] = TRUE]
      /\ pending' = [pending EXCEPT ![p] = <<>>]
      /\ Flush([toUs EXCEPT ![p] = <<[type |-> "bitfield", pieces |-> remoteHas[p]]>>])
  BY DEF Connect
<1>4. /\ Requested(<<>>) = {} /\ \A q \in Peer : Silent[q] = <<>>
      /\ \A q \in Peer : toThem[q] \o <<>> = toThem[q]
  BY <1>1, ConcatEmptySeq DEF Requested, Silent, RemoteTypes
<1>5. Fresh(p)
  BY <1>1, <1>2 DEF WireInv
<1>6. Opens(p)
  <2>1. remoteHas[p] \in SUBSET Pieces
    BY <1>1 DEF RemoteTypes
  <2>2. toUs'[p] = <<[type |-> "bitfield", pieces |-> remoteHas[p]]>>
    BY <1>1, <1>2, <1>3 DEF Flush, TypeOK, RemoteTypes
  <2>3. toThem'[p] = <<>> /\ asked'[p] = {}
    BY <1>1, <1>2, <1>3, <1>4, <1>5 DEF Flush, TypeOK, Fresh
  <2>4. queue'[p] = <<>> /\ state'[p] = InitialState /\ open'[p]
    BY <1>1, <1>2, <1>5 DEF Fresh, TypeOK
  <2>5. choking'[p] /\ pending'[p] = <<>>
    BY <1>1, <1>3 DEF RemoteTypes
  <2> QED
    BY <1>2, <2>1, <2>2, <2>3, <2>4, <2>5 DEF Opens
<1>7. ASSUME NEW q \in Peer \ {p}  PROVE SessionUnchanged(q)
  <2>1. open'[q] = open[q] /\ UNCHANGED <<state[q], queue[q], choking[q], pending[q]>>
    BY <1>1, <1>2, <1>3 DEF TypeOK, RemoteTypes
  <2>2. /\ toUs'[q] = IF open[q] THEN toUs[q] ELSE <<>>
        /\ toThem'[q] = IF open[q] THEN toThem[q] ELSE <<>>
        /\ asked'[q] = IF open[q] THEN asked[q] ELSE {}
    BY <1>1, <1>2, <1>3, <1>4, <2>1 DEF Flush, RemoteTypes
  <2>3. ~open[q] => toUs[q] = <<>> /\ toThem[q] = <<>> /\ asked[q] = {}
    BY <1>1 DEF WireInv, Fresh
  <2> QED
    BY <2>1, <2>2, <2>3 DEF SessionUnchanged
<1> QED
  BY <1>6, <1>7

\* What any step of the swarm is for any session.
SessionStep(p) ==
  SessionUnchanged(p) \/ Opens(p) \/ Ends(p) \/ TakesMessage(p) \/ RemoteActs(p)

LEMMA StepOutcome ==
  ASSUME SInv, \A q \in Peer : OneRequest(q), SwarmNext
  PROVE  /\ \A q \in Peer : SessionStep(q)
         /\ finished \subseteq finished'
         /\ \/ UNCHANGED pieceHashMisses
            \/ \E q \in Peer : TakesLast(q) /\ ~HashMatches(BlockTaken(q))
<1>1. PICK p \in Peer : Connect(p) \/ Deliver(p) \/ RemoteStep(p)
  BY DEF SwarmNext, RemoteStep
<1>2. \A q \in Peer : SessionStep(q)
  BY <1>1, ConnectOutcome, DeliverOutcome, DeliverOthers, RemoteOutcome DEF SessionStep
<1>3. finished \subseteq finished'
  <2>1. Next \/ UNCHANGED vars
    BY SwarmNextSInv
  <2> QED
    BY <2>1, TorrentSteps DEF Obtains, Spoils, vars, torrentVars
<1>4. \/ UNCHANGED pieceHashMisses
      \/ \E q \in Peer : TakesLast(q) /\ ~HashMatches(BlockTaken(q))
  <2>1. CASE Connect(p)
    BY <2>1 DEF Connect, Handshaked, torrentVars
  <2>2. CASE Deliver(p)
    BY <2>2, DeliverOutcome
  <2>3. CASE RemoteStep(p)
    BY <2>3 DEF RemoteStep, RemoteReads, RemoteSendsBlock, RemoteChokes, RemoteUnchokes,
                RemoteGains, vars, torrentVars
  <2> QED
    BY <1>1, <2>1, <2>2, <2>3
<1> QED
  BY <1>2, <1>3, <1>4

-----------------------------------------------------------------------------
(***************************************************************************)
(* What the lists are free of after a step.                                *)
(***************************************************************************)
LEMMA WrittenTypes ==
  ASSUME SInv, NEW p \in Peer
  PROVE  /\ <<>> \in Seq(ToRemote) /\ RequestsFor(queue[p]) \in Seq(ToRemote)
         /\ \A j \in Pieces : Ask(p, j) \in Seq(ToRemote)
         /\ queue[p] = <<Queued(p)>> =>
              /\ Queued(p) \in WaitingEntry /\ Queued(p).index \in Pieces
              /\ <<Msg("cancel", Queued(p).index)>> \in Seq(ToRemote)
<1>1. queue[p] \in Seq(Entry) /\ queue[p] \in Seq(WaitingEntry)
  BY DEF SInv, IInv, TypeOK, QueueEntryIncomplete
<1>2. RequestsFor(queue[p]) \in Seq(ToRemote)
  BY <1>1, RequestsForType
<1>3. \A j \in Pieces : Ask(p, j) \in Seq(ToRemote)
  BY WireMessages DEF Ask
<1>4. ASSUME queue[p] = <<Queued(p)>>
      PROVE  /\ Queued(p) \in WaitingEntry /\ Queued(p).index \in Pieces
             /\ <<Msg("cancel", Queued(p).index)>> \in Seq(ToRemote)
  <2>1. Len(queue[p]) = 1 /\ 1 \in 1 .. Len(queue[p])
    BY <1>4
  <2>2. Queued(p) \in WaitingEntry
    BY <1>1, <2>1, ElementOfSeq DEF Queued
  <2>3. Queued(p).index \in Pieces
    BY <2>2 DEF WaitingEntry, Entry
  <2> QED
    BY <2>2, <2>3, WireMessages
<1> QED
  BY <1>2, <1>3, <1>4

LEMMA FreeAfterTakes ==
  ASSUME SInv, NEW p \in Peer, NEW type, NEW w \in Seq(ToRemote), Takes(p, type, w), NEW types
  PROVE  /\ Free(toUs[p], types) <=> type \notin types /\ Free(toUs'[p], types)
         /\ Free(toThem'[p], types) <=> Free(toThem[p], types) /\ Free(w, types)
<1>1. toUs[p] \in Seq(FromRemote) /\ toThem[p] \in Seq(ToRemote)
  BY DEF SInv, WireInv, RemoteTypes
<1>2. /\ toUs[p] # <<>> /\ Head(toUs[p]).type = type /\ toUs'[p] = Tail(toUs[p])
      /\ toThem'[p] = toThem[p] \o w
  BY DEF Takes
<1> QED
  BY <1>1, <1>2, FreeTail, FreeConcat

LEMMA FreeAfterReads ==
  ASSUME SInv, NEW p \in Peer, NEW read, Reads(p, read), NEW types
  PROVE  Free(toThem[p], types) <=> Head(toThem[p]).type \notin types /\ Free(toThem'[p], types)
<1>1. toThem[p] \in Seq(ToRemote)
  BY DEF SInv, WireInv, RemoteTypes
<1> QED
  BY <1>1, FreeTail DEF Reads

LEMMA FreeAfterSends ==
  ASSUME SInv, NEW p \in Peer, NEW m \in FromRemote, toUs'[p] = Append(toUs[p], m), NEW types
  PROVE  Free(toUs'[p], types) <=> Free(toUs[p], types) /\ m.type \notin types
<1>1. toUs[p] \in Seq(FromRemote)
  BY DEF SInv, WireInv, RemoteTypes
<1> QED
  BY <1>1, FreeAppend

\* What remote peers send after the first message.
LEMMA RemoteSends ==
  ASSUME SInv, NEW p \in Peer
  PROVE  /\ UnchokesInterested(p) \/ Unchokes(p) =>
              \E m \in FromRemote : m.type = "unchoke" /\ toUs'[p] = Append(toUs[p], m)
         /\ Chokes(p) => \E m \in FromRemote : m.type = "choke" /\ toUs'[p] = Append(toUs[p], m)
         /\ Announces(p) => \E m \in FromRemote : m.type = "have" /\ toUs'[p] = Append(toUs[p], m)
         /\ SendsBlock(p) => \E m \in FromRemote :
              m.type = "piece" /\ m = Head(pending[p]) /\ toUs'[p] = Append(toUs[p], m)
<1>1. [type |-> "unchoke"] \in FromRemote /\ [type |-> "choke"] \in FromRemote
  BY DEF FromRemote
<1>2. \A i \in Pieces : [type |-> "have", index |-> i] \in FromRemote
  BY DEF FromRemote
<1>3. ASSUME SendsBlock(p)  PROVE Head(pending[p]) \in FromRemote /\ Head(pending[p]).type = "piece"
  <2>1. Head(pending[p]) \in BlockMessages
    BY <1>3, HeadTailProperties DEF SendsBlock, SInv, WireInv, RemoteTypes
  <2> QED
    BY <2>1 DEF BlockMessages, FromRemote
<1> QED
  BY <1>1, <1>2, <1>3 DEF UnchokesInterested, Unchokes, Chokes, Announces, SendsBlock

-----------------------------------------------------------------------------
(***************************************************************************)
(* One chain of requests runs in a session.                                *)
(***************************************************************************)
LEMMA KeepsOneRequest ==
  ASSUME SInv, SInv', NEW p \in Peer, OneRequest(p), SessionStep(p)
  PROVE  OneRequest(p)'
<1>1. toUs[p] \in Seq(FromRemote) /\ toThem[p] \in Seq(ToRemote) /\ toUs'[p] \in Seq(FromRemote)
  BY DEF SInv, WireInv, RemoteTypes
<1>2. Len(<<>>) = 0 /\ \A x : Len(<<x>>) = 1 /\ Tail(<<x>>) = <<>>
  OBVIOUS
<1>3. CASE SessionUnchanged(p)
  BY <1>3 DEF SessionUnchanged, OneRequest, Free
<1>4. CASE Opens(p)
  <2>1. toUs'[p] # <<>> => Free(Tail(toUs'[p]), {"bitfield"})
    BY <1>2, <1>4, FreeEmpty DEF Opens
  <2>2. queue'[p] = <<>> /\ Free(toThem'[p], {"cancel"})
    BY <1>4, FreeEmpty DEF Opens
  <2> QED
    BY <1>2, <2>1, <2>2 DEF OneRequest
<1>5. CASE Ends(p)
  <2>1. queue'[p] = <<>> /\ toUs'[p] = <<>> /\ toThem'[p] = <<>>
    BY <1>5 DEF Ends, SInv, WireInv, Fresh
  <2> QED
    BY <1>2, <2>1, FreeEmpty DEF OneRequest
<1>6. CASE TakesMessage(p)
  <2>1. ASSUME NEW type, NEW w \in Seq(ToRemote), Takes(p, type, w), Len(queue'[p]) <= 1,
               \/ queue'[p] = <<>>
               \/ /\ Free(w, {"cancel"})
                  /\ queue[p] # <<>> \/ type = "bitfield"
        PROVE  OneRequest(p)'
    <3>1. toUs'[p] = Tail(toUs[p]) /\ Free(toUs'[p], {"bitfield"})
      BY <2>1 DEF Takes, OneRequest
    <3>2. toUs'[p] # <<>> => Free(Tail(toUs'[p]), {"bitfield"})
      BY <1>1, <3>1, FreeTail
    <3>3. ASSUME ~Free(toThem'[p], {"cancel"})  PROVE queue'[p] = <<>>
      <4>1. ASSUME Free(w, {"cancel"}), queue[p] # <<>> \/ type = "bitfield"  PROVE FALSE
        <5>1. ~Free(toThem[p], {"cancel"})
          BY <2>1, <3>3, <4>1, FreeAfterTakes
        <5>2. queue[p] = <<>> /\ Free(toUs[p], {"bitfield"})
          BY <5>1 DEF OneRequest
        <5>3. type # "bitfield"
          BY <2>1, <5>2, FreeAfterTakes
        <5> QED
          BY <4>1, <5>2, <5>3
      <4> QED
        BY <2>1, <4>1
    <3> QED
      BY <2>1, <3>1, <3>2, <3>3 DEF OneRequest
  <2>2. CASE TakesChoke(p) \/ TakesHave(p)
    <3>1. queue'[p] = queue[p] /\ \E type : Takes(p, type, <<>>)
      BY <2>2 DEF TakesChoke, TakesHave
    <3> QED
      BY <2>1, <3>1, WrittenTypes, FreeEmpty DEF OneRequest
  <2>3. CASE TakesUnchoke(p)
    <3>1. queue'[p] = queue[p] /\ Takes(p, "unchoke", RequestsFor(queue[p]))
      BY <2>3 DEF TakesUnchoke
    <3> QED
      BY <2>1, <3>1, WrittenTypes, FreeWritten DEF OneRequest
  <2>4. ASSUME NEW type, NEW done, AsksNext(p, type, done), queue[p] # <<>> \/ type = "bitfield"
        PROVE  OneRequest(p)'
    <3>1. CASE Takes(p, type, <<>>) /\ queue'[p] = <<>>
      <4>1. Len(queue'[p]) <= 1
        BY <1>2, <3>1
      <4> QED
        BY <2>1, <3>1, <4>1, WrittenTypes
    <3>2. ASSUME NEW j \in Pieces, Takes(p, type, Ask(p, j)), queue'[p] = <<NewEntry(j)>>
          PROVE  OneRequest(p)'
      <4>1. Len(queue'[p]) <= 1
        BY <1>2, <3>2
      <4> QED
        BY <2>1, <2>4, <3>2, <4>1, WrittenTypes, FreeWritten
    <3> QED
      BY <2>4, <3>1, <3>2 DEF AsksNext
  <2>5. CASE TakesBitfield(p)
    BY <2>4, <2>5 DEF TakesBitfield
  <2>6. CASE TakesCancelled(p)
    <3>1. queue'[p] = <<>> /\ Takes(p, "piece", <<Msg("cancel", Queued(p).index)>>)
      BY <2>6 DEF TakesCancelled
    <3>2. <<Msg("cancel", Queued(p).index)>> \in Seq(ToRemote)
      BY <2>6, WrittenTypes DEF TakesCancelled
    <3>3. Len(queue'[p]) <= 1
      BY <1>2, <3>1
    <3> QED
      BY <2>1, <3>1, <3>2, <3>3
  <2>7. CASE TakesStored(p)
    <3>1. queue[p] # <<>> /\ Takes(p, "piece", <<>>) /\ Len(queue'[p]) <= 1
      BY <1>2, <2>7 DEF TakesStored
    <3> QED
      BY <2>1, <3>1, WrittenTypes, FreeEmpty
  <2>8. CASE TakesLast(p)
    <3>1. queue[p] # <<>> /\ AsksNext(p, "piece", finished')
      BY <2>8 DEF TakesLast
    <3> QED
      BY <2>4, <3>1
  <2> QED
    BY <1>6, <2>2, <2>3, <2>5, <2>6, <2>7, <2>8 DEF TakesMessage
<1>7. CASE RemoteActs(p)
  <2>1. queue'[p] = queue[p]
    BY <1>7 DEF RemoteActs, UnchokesInterested, ReadsRequest, ReadsCancel, Ignores, SendsBlock,
                Chokes, Unchokes, Announces, Reads, OursUnchanged
  <2>2. Free(toThem[p], {"cancel"}) => Free(toThem'[p], {"cancel"})
    <3>1. CASE UnchokesInterested(p) \/ ReadsRequest(p) \/ ReadsCancel(p) \/ Ignores(p)
      BY <3>1, FreeAfterReads DEF UnchokesInterested, ReadsRequest, ReadsCancel, Ignores
    <3>2. CASE SendsBlock(p) \/ Chokes(p) \/ Unchokes(p) \/ Announces(p)
      BY <3>2 DEF SendsBlock, Chokes, Unchokes, Announces
    <3> QED
      BY <1>7, <3>1, <3>2 DEF RemoteActs
  <2>3. CASE toUs'[p] = toUs[p]
    BY <2>1, <2>2, <2>3 DEF OneRequest
  <2>4. ASSUME NEW m \in FromRemote, m.type # "bitfield", toUs'[p] = Append(toUs[p], m)
        PROVE  OneRequest(p)'
    <3>1. Free(toUs[p], {"bitfield"}) <=> Free(toUs'[p], {"bitfield"})
      BY <2>4, FreeAfterSends
    <3>2. Free(Tail(toUs'[p]), {"bitfield"})
      <4>1. CASE toUs[p] = <<>>
        <5>1. Tail(toUs'[p]) = <<>>
          BY <1>1, <2>4, <4>1, HeadTailAppend
        <5> QED
          BY <5>1, FreeEmpty
      <4>2. CASE toUs[p] # <<>>
        <5>1. Tail(toUs'[p]) = Append(Tail(toUs[p]), m)
          BY <1>1, <2>4, <4>2, HeadTailAppend
        <5>2. Tail(toUs[p]) \in Seq(FromRemote) /\ Free(Tail(toUs[p]), {"bitfield"})
          BY <1>1, <4>2, HeadTailProperties DEF OneRequest
        <5>3. m.type \notin {"bitfield"}
          BY <2>4
        <5> QED
          BY <5>1, <5>2, <5>3, FreeAppend
      <4> QED
        BY <4>1, <4>2
    <3> QED
      BY <2>1, <2>2, <3>1, <3>2 DEF OneRequest
  <2>5. CASE ReadsRequest(p) \/ ReadsCancel(p) \/ Ignores(p)
    BY <2>3, <2>5 DEF ReadsRequest, ReadsCancel, Ignores
  <2>6. CASE UnchokesInterested(p) \/ SendsBlock(p) \/ Chokes(p) \/ Unchokes(p) \/ Announces(p)
    BY <2>4, <2>6, RemoteSends
  <2> QED
    BY <1>7, <2>5, <2>6 DEF RemoteActs
<1> QED
  BY <1>3, <1>4, <1>5, <1>6, <1>7 DEF SessionStep
-----------------------------------------------------------------------------
(***************************************************************************)
(* Choking.  WillChoke(s, now) says what we shall believe when the         *)
(* messages of s are read: that the peer chokes us, which we believe now   *)
(* or not.  It is what the remote peer does.                               *)
(***************************************************************************)
WillChoke(s, now) ==
  \/ now /\ Free(s, {"unchoke"})
  \/ \E k \in DOMAIN s : s[k].type = "choke" /\ \A m \in DOMAIN s : m > k => s[m].type # "unchoke"

ChokeAgrees(p) == open[p] => (choking[p] <=> WillChoke(toUs[p], "PEER_CHOKING" \in state[p]))

LEMMA WillChokeFree ==
  ASSUME NEW S, NEW s \in Seq(S), NEW now \in BOOLEAN
  PROVE  /\ Free(s, {"choke", "unchoke"}) => (WillChoke(s, now) <=> now)
         /\ Free(s, {"choke"}) => (WillChoke(s, now) <=> now /\ Free(s, {"unchoke"}))
BY DEF WillChoke, Free

LEMMA WillChokeTail ==
  ASSUME NEW S, NEW s \in Seq(S), s # <<>>, NEW now \in BOOLEAN, NEW next \in BOOLEAN,
         next <=> Head(s).type = "choke" \/ (Head(s).type # "unchoke" /\ now)
  PROVE  WillChoke(s, now) <=> WillChoke(Tail(s), next)
<1>1. /\ Len(s) \in Nat \ {0} /\ DOMAIN s = 1 .. Len(s) /\ Head(s) = s[1]
      /\ DOMAIN Tail(s) = 1 .. Len(s) - 1
      /\ \A k \in 1 .. Len(s) - 1 : Tail(s)[k] = s[k + 1]
  BY TailElements
<1>2. ASSUME NEW k \in 1 .. Len(s), k # 1
      PROVE  k - 1 \in 1 .. Len(s) - 1 /\ Tail(s)[k - 1] = s[k]
  <2>1. k - 1 \in 1 .. Len(s) - 1 /\ (k - 1) + 1 = k
    BY <1>1, <1>2
  <2> QED
    BY <1>1, <2>1
<1>3. Free(s, {"unchoke"}) <=> Head(s).type # "unchoke" /\ Free(Tail(s), {"unchoke"})
  BY FreeTail
<1>4. ASSUME NEW k \in 1 .. Len(s) - 1
      PROVE  (\A m \in DOMAIN s : m > k + 1 => s[m].type # "unchoke")
               <=> (\A m \in DOMAIN Tail(s) : m > k => Tail(s)[m].type # "unchoke")
  <2>1. ASSUME \A m \in DOMAIN s : m > k + 1 => s[m].type # "unchoke", NEW m \in DOMAIN Tail(s), m > k
        PROVE  Tail(s)[m].type # "unchoke"
    BY <1>1, <2>1
  <2>2. ASSUME \A m \in DOMAIN Tail(s) : m > k => Tail(s)[m].type # "unchoke",
               NEW m \in DOMAIN s, m > k + 1
        PROVE  s[m].type # "unchoke"
    <3>1. m - 1 \in DOMAIN Tail(s) /\ Tail(s)[m - 1] = s[m] /\ m - 1 > k
      BY <1>1, <1>2, <2>2
    <3> QED
      BY <2>2, <3>1
  <2> QED
    BY <2>1, <2>2
<1>5. (\A m \in DOMAIN s : m > 1 => s[m].type # "unchoke") <=> Free(Tail(s), {"unchoke"})
  <2>1. ASSUME \A m \in DOMAIN s : m > 1 => s[m].type # "unchoke", NEW m \in DOMAIN Tail(s)
        PROVE  Tail(s)[m].type # "unchoke"
    BY <1>1, <2>1
  <2>2. ASSUME Free(Tail(s), {"unchoke"}), NEW m \in DOMAIN s, m > 1
        PROVE  s[m].type # "unchoke"
    <3>1. m - 1 \in DOMAIN Tail(s) /\ Tail(s)[m - 1] = s[m]
      BY <1>1, <1>2, <2>2
    <3> QED
      BY <2>2, <3>1 DEF Free
  <2> QED
    BY <2>1, <2>2 DEF Free
<1> DEFINE last(t) == \E k \in DOMAIN t : t[k].type = "choke" /\ \A m \in DOMAIN t : m > k => t[m].type # "unchoke"
<1>6. last(s) <=> last(Tail(s)) \/ (Head(s).type = "choke" /\ Free(Tail(s), {"unchoke"}))
  <2>1. ASSUME NEW k \in DOMAIN s, s[k].type = "choke", \A m \in DOMAIN s : m > k => s[m].type # "unchoke"
        PROVE  last(Tail(s)) \/ (Head(s).type = "choke" /\ Free(Tail(s), {"unchoke"}))
    <3>1. CASE k = 1
      BY <1>1, <1>5, <2>1, <3>1
    <3>2. CASE k # 1
      <4> DEFINE j == k - 1
      <4>1. j \in 1 .. Len(s) - 1 /\ j + 1 = k /\ Tail(s)[j] = s[k]
        BY <1>1, <1>2, <3>2
      <4> HIDE DEF j
      <4>2. \A m \in DOMAIN Tail(s) : m > j => Tail(s)[m].type # "unchoke"
        BY <1>4, <2>1, <4>1
      <4>3. j \in DOMAIN Tail(s) /\ Tail(s)[j].type = "choke"
        BY <1>1, <2>1, <4>1
      <4> QED
        BY <4>2, <4>3
    <3> QED
      BY <3>1, <3>2
  <2>2. ASSUME NEW k \in DOMAIN Tail(s), Tail(s)[k].type = "choke",
               \A m \in DOMAIN Tail(s) : m > k => Tail(s)[m].type # "unchoke"
        PROVE  last(s)
    <3>1. k + 1 \in DOMAIN s /\ s[k + 1].type = "choke"
      BY <1>1, <2>2
    <3>2. \A m \in DOMAIN s : m > k + 1 => s[m].type # "unchoke"
      BY <1>1, <1>4, <2>2
    <3> QED
      BY <3>1, <3>2
  <2>3. ASSUME Head(s).type = "choke", Free(Tail(s), {"unchoke"})  PROVE last(s)
    <3>1. 1 \in DOMAIN s /\ s[1].type = "choke"
      BY <1>1, <2>3
    <3> QED
      BY <1>5, <2>3, <3>1
  <2> QED
    BY <2>1, <2>2, <2>3
<1>7. /\ WillChoke(s, now) <=> (now /\ Free(s, {"unchoke"})) \/ last(s)
      /\ WillChoke(Tail(s), next) <=> (next /\ Free(Tail(s), {"unchoke"})) \/ last(Tail(s))
  BY DEF WillChoke
<1>8. CASE Head(s).type = "choke"
  <2>1. next /\ Head(s).type # "unchoke"
    BY <1>8
  <2> HIDE DEF last
  <2> QED
    BY <1>3, <1>6, <1>7, <1>8, <2>1
<1>9. CASE Head(s).type # "choke"
  <2> HIDE DEF last
  <2> QED
    BY <1>3, <1>6, <1>7, <1>9
<1> QED
  BY <1>8, <1>9

LEMMA WillChokeAppend ==
  ASSUME NEW S, NEW s \in Seq(S), NEW x \in S, NEW now \in BOOLEAN
  PROVE  WillChoke(Append(s, x), now)
           <=> x.type = "choke" \/ (x.type # "unchoke" /\ WillChoke(s, now))
<1> DEFINE n == Len(s)
           t == Append(s, x)
           last(u) == \E k \in DOMAIN u : u[k].type = "choke" /\ \A m \in DOMAIN u : m > k => u[m].type # "unchoke"
<1>1. /\ n \in Nat /\ DOMAIN s = 1 .. n
      /\ DOMAIN t = 1 .. n + 1 /\ t[n + 1] = x
      /\ \A k \in 1 .. n : t[k] = s[k]
  BY AppendElements
<1>2. Free(t, {"unchoke"}) <=> Free(s, {"unchoke"}) /\ x.type # "unchoke"
  BY FreeAppend
<1> HIDE DEF n, t
<1>3. \A k \in 1 .. n + 1 : k = n + 1 \/ k \in 1 .. n
  BY <1>1
<1>4. last(t) <=> x.type = "choke" \/ (x.type # "unchoke" /\ last(s))
  <2>1. ASSUME NEW k \in DOMAIN t, t[k].type = "choke", \A m \in DOMAIN t : m > k => t[m].type # "unchoke"
        PROVE  x.type = "choke" \/ (x.type # "unchoke" /\ last(s))
    <3>1. CASE k = n + 1
      <4>1. x.type = "choke"
        BY <1>1, <2>1, <3>1
      <4> QED
        BY <4>1
    <3>2. CASE k \in 1 .. n
      <4>1. x.type # "unchoke"
        BY <1>1, <2>1, <3>2
      <4>2. s[k].type = "choke" /\ \A m \in DOMAIN s : m > k => s[m].type # "unchoke"
        BY <1>1, <2>1, <3>2
      <4> QED
        BY <1>1, <3>2, <4>1, <4>2
    <3> QED
      BY <1>1, <1>3, <3>1, <3>2
  <2>2. ASSUME x.type = "choke"  PROVE last(t)
    <3>1. n + 1 \in DOMAIN t /\ t[n + 1].type = "choke" /\ \A m \in DOMAIN t : ~(m > n + 1)
      BY <1>1, <2>2
    <3> QED
      BY <3>1
  <2>3. ASSUME x.type # "unchoke", NEW k \in DOMAIN s, s[k].type = "choke",
               \A m \in DOMAIN s : m > k => s[m].type # "unchoke"
        PROVE  last(t)
    <3>1. k \in DOMAIN t /\ t[k].type = "choke"
      BY <1>1, <2>3
    <3>2. \A m \in DOMAIN t : m > k => t[m].type # "unchoke"
      BY <1>1, <1>3, <2>3
    <3> QED
      BY <3>1, <3>2
  <2> QED
    BY <2>1, <2>2, <2>3
<1>5. /\ WillChoke(s, now) <=> (now /\ Free(s, {"unchoke"})) \/ last(s)
      /\ WillChoke(t, now) <=> (now /\ Free(t, {"unchoke"})) \/ last(t)
  BY DEF WillChoke
<1> HIDE DEF last
<1> QED
  BY <1>2, <1>4, <1>5 DEF t

LEMMA KeepsChokeAgrees ==
  ASSUME SInv, NEW p \in Peer, ChokeAgrees(p), SessionStep(p)
  PROVE  ChokeAgrees(p)'
<1> DEFINE now == "PEER_CHOKING" \in state[p]
           next == "PEER_CHOKING" \in state'[p]
<1>1. /\ toUs[p] \in Seq(FromRemote) /\ choking[p] \in BOOLEAN
      /\ now \in BOOLEAN /\ next \in BOOLEAN
  BY DEF SInv, WireInv, RemoteTypes, IInv, TypeOK
<1>2. SUFFICES ASSUME open'[p]  PROVE choking'[p] <=> WillChoke(toUs'[p], next)
  BY DEF ChokeAgrees
<1>3. CASE SessionUnchanged(p)
  BY <1>2, <1>3 DEF SessionUnchanged, ChokeAgrees
<1>4. CASE Opens(p)
  <2>1. PICK pieces \in SUBSET Pieces : toUs'[p] = <<[type |-> "bitfield", pieces |-> pieces]>>
    BY <1>4 DEF Opens
  <2>2. [type |-> "bitfield", pieces |-> pieces] \in FromRemote
    BY DEF FromRemote
  <2>3. toUs'[p] \in Seq(FromRemote) /\ Free(toUs'[p], {"choke", "unchoke"})
    BY <2>1, <2>2 DEF Free
  <2>4. next /\ choking'[p]
    BY <1>4 DEF Opens, InitialState
  <2> QED
    BY <2>3, <2>4, WillChokeFree
<1>5. CASE Ends(p)
  BY <1>2, <1>5 DEF Ends
<1>6. CASE TakesMessage(p)
  <2>1. ASSUME NEW type, NEW w, Takes(p, type, w),
               next <=> (type = "choke" \/ (type # "unchoke" /\ now))
        PROVE  choking'[p] <=> WillChoke(toUs'[p], next)
    <3>1. /\ toUs[p] # <<>> /\ Head(toUs[p]).type = type /\ toUs'[p] = Tail(toUs[p])
          /\ open[p] /\ choking'[p] = choking[p]
      BY <2>1 DEF Takes
    <3>2. choking[p] <=> WillChoke(toUs[p], now)
      BY <3>1 DEF ChokeAgrees
    <3>3. WillChoke(toUs[p], now) <=> WillChoke(Tail(toUs[p]), next)
      <4> HIDE DEF now, next
      <4> QED
        BY <1>1, <2>1, <3>1, WillChokeTail
    <3> QED
      BY <3>1, <3>2, <3>3
  <2>2. ASSUME NEW type, type \notin {"choke", "unchoke"}, NEW done, AsksNext(p, type, done)
        PROVE  choking'[p] <=> WillChoke(toUs'[p], next)
    <3>1. next <=> now
      BY <2>2 DEF AsksNext
    <3>2. PICK w : Takes(p, type, w)
      BY <2>2 DEF AsksNext
    <3> QED
      BY <2>1, <2>2, <3>1, <3>2
  <2>3. CASE TakesChoke(p)
    BY <2>1, <2>3 DEF TakesChoke
  <2>4. CASE TakesUnchoke(p)
    BY <2>1, <2>4 DEF TakesUnchoke
  <2>5. CASE TakesHave(p)
    BY <2>1, <2>5 DEF TakesHave
  <2>6. CASE TakesBitfield(p)
    BY <2>2, <2>6 DEF TakesBitfield
  <2>7. CASE TakesCancelled(p) \/ TakesStored(p)
    BY <2>1, <2>7 DEF TakesCancelled, TakesStored
  <2>8. CASE TakesLast(p)
    BY <2>2, <2>8 DEF TakesLast
  <2> QED
    BY <1>6, <2>3, <2>4, <2>5, <2>6, <2>7, <2>8 DEF TakesMessage
<1>7. CASE RemoteActs(p)
  <2>1. next = now /\ open[p]
    BY <1>2, <1>7 DEF RemoteActs, UnchokesInterested, ReadsRequest, ReadsCancel, Ignores,
                SendsBlock, Chokes, Unchokes, Announces, Reads, OursUnchanged
  <2>2. choking[p] <=> WillChoke(toUs[p], now)
    BY <2>1 DEF ChokeAgrees
  <2>3. ASSUME NEW m \in FromRemote, toUs'[p] = Append(toUs[p], m)
        PROVE  WillChoke(toUs'[p], next)
                 <=> (m.type = "choke" \/ (m.type # "unchoke" /\ choking[p]))
    <3>1. WillChoke(Append(toUs[p], m), now)
                 <=> (m.type = "choke" \/ (m.type # "unchoke" /\ WillChoke(toUs[p], now)))
      <4> HIDE DEF now
      <4> QED
        BY <1>1, <2>3, WillChokeAppend
    <3> QED
      BY <2>1, <2>2, <2>3, <3>1
  <2>4. CASE ReadsRequest(p) \/ ReadsCancel(p) \/ Ignores(p)
    <3>1. toUs'[p] = toUs[p] /\ (choking'[p] <=> choking[p])
      BY <2>4 DEF ReadsRequest, ReadsCancel, Ignores
    <3> QED
      BY <2>1, <2>2, <3>1
  <2>5. CASE UnchokesInterested(p) \/ Unchokes(p)
    <3>1. PICK m \in FromRemote : m.type = "unchoke" /\ toUs'[p] = Append(toUs[p], m)
      BY <2>5, RemoteSends
    <3>2. ~choking'[p]
      BY <2>5 DEF UnchokesInterested, Unchokes
    <3> QED
      BY <2>3, <3>1, <3>2
  <2>6. CASE Chokes(p)
    <3>1. PICK m \in FromRemote : m.type = "choke" /\ toUs'[p] = Append(toUs[p], m)
      BY <2>6, RemoteSends
    <3>2. choking'[p]
      BY <2>6 DEF Chokes
    <3> QED
      BY <2>3, <3>1, <3>2
  <2>7. CASE SendsBlock(p) \/ Announces(p)
    <3>1. PICK m \in FromRemote : m.type \in {"have", "piece"} /\ toUs'[p] = Append(toUs[p], m)
      BY <2>7, RemoteSends
    <3>2. choking'[p] = choking[p]
      BY <2>7 DEF SendsBlock, Announces
    <3> QED
      BY <2>3, <3>1, <3>2
  <2> QED
    BY <1>7, <2>4, <2>5, <2>6, <2>7 DEF RemoteActs
<1> QED
  BY <1>3, <1>4, <1>5, <1>6, <1>7 DEF SessionStep

-----------------------------------------------------------------------------
(***************************************************************************)
(* The blocks that are on their way: what was sent, then what the remote   *)
(* peer has still to send.                                                 *)
(***************************************************************************)
Coming(p) == toUs[p] \o pending[p]

\* s holds the blocks of piece i from block number from on.
Complete(s, i, from) ==
  \A b \in Blocks(i) : from <= b => \E k \in DOMAIN s : s[k] = BlockMessage(i, b)

\* After a block of piece i come the later ones.
Followed(s, i) ==
  \A k \in DOMAIN s : \A b, c \in Blocks(i) :
    s[k] = BlockMessage(i, b) /\ b < c => \E m \in DOMAIN s : m > k /\ s[m] = BlockMessage(i, c)

\* The blocks of piece i in s are number from or later, each once and in order.
InOrder(s, i, from) ==
  /\ \A k \in DOMAIN s : \A b \in Blocks(i) : s[k] = BlockMessage(i, b) => from <= b
  /\ \A k, m \in DOMAIN s : \A b, c \in Blocks(i) :
       k < m /\ s[k] = BlockMessage(i, b) /\ s[m] = BlockMessage(i, c) => b < c

\* x is no block of piece i.
Foreign(x, i) == \A b \in Blocks(i) : x # BlockMessage(i, b)

LEMMA SameBlock ==
  ASSUME NEW i, NEW j, NEW b, NEW c
  PROVE  BlockMessage(i, b) = BlockMessage(j, c) <=> i = j /\ b = c
BY DEF BlockMessage

LEMMA BlockNumbers == \A i \in Pieces : Blocks(i) \subseteq Nat /\ NumBlocks[i] \in Nat \ {0}
BY ExchangeAssumption DEF Blocks

LEMMA TailBlocks ==
  ASSUME NEW S, NEW s \in Seq(S), s # <<>>, NEW i \in Pieces, NEW from \in Nat
  PROVE  /\ Followed(s, i) => Followed(Tail(s), i)
         /\ Complete(s, i, from) /\ Foreign(Head(s), i) => Complete(Tail(s), i, from)
         /\ Complete(s, i, from) /\ Followed(s, i) => Complete(Tail(s), i, from + 1)
         /\ InOrder(s, i, from) => InOrder(Tail(s), i, from)
         /\ \A b \in Blocks(i) : InOrder(s, i, from) /\ Head(s) = BlockMessage(i, b)
                                   => InOrder(Tail(s), i, b + 1)
<1> DEFINE n == Len(s)
           t == Tail(s)
<1>1. /\ n \in Nat \ {0} /\ DOMAIN s = 1 .. n /\ Head(s) = s[1]
      /\ DOMAIN t = 1 .. n - 1
      /\ \A k \in 1 .. n - 1 : t[k] = s[k + 1]
  BY TailElements
<1> HIDE DEF n, t
<1>2. ASSUME NEW k \in 1 .. n, k # 1
      PROVE  k - 1 \in 1 .. n - 1 /\ t[k - 1] = s[k]
  <2>1. k - 1 \in 1 .. n - 1 /\ (k - 1) + 1 = k
    BY <1>1, <1>2
  <2> QED
    BY <1>1, <2>1
<1>3. \A k \in 1 .. n - 1 : k + 1 \in 1 .. n
  BY <1>1
<1>4. Blocks(i) \subseteq Nat
  BY BlockNumbers
<1>5. ASSUME Followed(s, i)  PROVE Followed(t, i)
  <2>1. ASSUME NEW k \in DOMAIN t, NEW b \in Blocks(i), NEW c \in Blocks(i),
               t[k] = BlockMessage(i, b), b < c
        PROVE  \E m \in DOMAIN t : m > k /\ t[m] = BlockMessage(i, c)
    <3>1. k + 1 \in DOMAIN s /\ s[k + 1] = BlockMessage(i, b)
      BY <1>1, <1>3, <2>1
    <3>2. PICK m \in DOMAIN s : m > k + 1 /\ s[m] = BlockMessage(i, c)
      BY <1>5, <2>1, <3>1 DEF Followed
    <3>3. m # 1 /\ m - 1 > k
      BY <1>1, <3>2
    <3> QED
      BY <1>1, <1>2, <3>2, <3>3
  <2> QED
    BY <2>1 DEF Followed
<1>6. ASSUME Complete(s, i, from), Foreign(Head(s), i)  PROVE Complete(t, i, from)
  <2>1. ASSUME NEW b \in Blocks(i), from <= b  PROVE \E k \in DOMAIN t : t[k] = BlockMessage(i, b)
    <3>1. PICK k \in DOMAIN s : s[k] = BlockMessage(i, b)
      BY <1>6, <2>1 DEF Complete
    <3>2. k # 1
      BY <1>1, <1>6, <3>1 DEF Foreign
    <3> QED
      BY <1>1, <1>2, <3>1, <3>2
  <2> QED
    BY <2>1 DEF Complete
<1>7. ASSUME Complete(s, i, from), Followed(s, i)  PROVE Complete(t, i, from + 1)
  <2>1. ASSUME NEW b \in Blocks(i), from + 1 <= b  PROVE \E k \in DOMAIN t : t[k] = BlockMessage(i, b)
    <3>1. from <= b /\ from < b /\ from \in Blocks(i)
      BY <1>4, <2>1, BlockNumbers DEF Blocks
    <3>2. PICK k \in DOMAIN s : s[k] = BlockMessage(i, from)
      BY <1>7, <3>1 DEF Complete
    <3>3. PICK m \in DOMAIN s : m > k /\ s[m] = BlockMessage(i, b)
      BY <1>7, <3>1, <3>2 DEF Followed
    <3>4. m # 1
      BY <1>1, <3>2, <3>3
    <3> QED
      BY <1>1, <1>2, <3>3, <3>4
  <2> QED
    BY <2>1 DEF Complete
<1>8. ASSUME InOrder(s, i, from), NEW low \in Nat,
             \A k \in DOMAIN t : \A b \in Blocks(i) : t[k] = BlockMessage(i, b) => low <= b
      PROVE  InOrder(t, i, low)
  <2>1. ASSUME NEW k \in DOMAIN t, NEW m \in DOMAIN t, NEW b \in Blocks(i), NEW c \in Blocks(i),
               k < m, t[k] = BlockMessage(i, b), t[m] = BlockMessage(i, c)
        PROVE  b < c
    <3>1. /\ k + 1 \in DOMAIN s /\ s[k + 1] = BlockMessage(i, b)
          /\ m + 1 \in DOMAIN s /\ s[m + 1] = BlockMessage(i, c) /\ k + 1 < m + 1
      BY <1>1, <1>3, <2>1
    <3> QED
      BY <1>8, <3>1 DEF InOrder
  <2> QED
    BY <1>8, <2>1 DEF InOrder
<1>9. ASSUME InOrder(s, i, from)  PROVE InOrder(t, i, from)
  <2>1. \A k \in DOMAIN t : \A b \in Blocks(i) : t[k] = BlockMessage(i, b) => from <= b
    BY <1>1, <1>3, <1>9 DEF InOrder
  <2> QED
    BY <1>8, <1>9, <2>1
<1>10. ASSUME NEW b \in Blocks(i), InOrder(s, i, from), Head(s) = BlockMessage(i, b)
       PROVE  InOrder(t, i, b + 1)
  <2>1. ASSUME NEW k \in DOMAIN t, NEW c \in Blocks(i), t[k] = BlockMessage(i, c)
        PROVE  b + 1 <= c
    <3>1. /\ k + 1 \in DOMAIN s /\ s[k + 1] = BlockMessage(i, c)
          /\ 1 \in DOMAIN s /\ s[1] = BlockMessage(i, b) /\ 1 < k + 1
      BY <1>1, <1>3, <1>10, <2>1
    <3>2. b < c
      BY <1>10, <3>1 DEF InOrder
    <3> QED
      BY <1>4, <3>2
  <2>2. b + 1 \in Nat
    BY <1>4
  <2> QED
    BY <1>8, <1>10, <2>1, <2>2
<1> QED
  BY <1>5, <1>6, <1>7, <1>9, <1>10 DEF t

\* A message that is no block of the piece changes nothing for it, wherever it is put.
LEMMA InsertBlocks ==
  ASSUME NEW S, NEW s \in Seq(S), NEW t \in Seq(S), NEW x \in S,
         NEW i \in Pieces, Foreign(x, i), NEW from \in Nat
  PROVE  /\ Followed(s \o t, i) => Followed(Append(s, x) \o t, i)
         /\ Complete(s \o t, i, from) => Complete(Append(s, x) \o t, i, from)
         /\ InOrder(s \o t, i, from) => InOrder(Append(s, x) \o t, i, from)
<1> DEFINE u == s \o t
           v == Append(s, x) \o t
           n == Len(s)
           to(k) == IF k <= n THEN k ELSE k + 1
           back(k) == IF k <= n THEN k ELSE k - 1
<1>1. /\ n \in Nat /\ Len(t) \in Nat /\ DOMAIN t = 1 .. Len(t)
      /\ DOMAIN u = 1 .. n + Len(t)
      /\ \A k \in 1 .. n : u[k] = s[k]
      /\ \A k \in 1 .. Len(t) : u[n + k] = t[k]
  BY ConcatElements
<1>2. /\ Append(s, x) \in Seq(S) /\ DOMAIN Append(s, x) = 1 .. n + 1
      /\ \A k \in 1 .. n : Append(s, x)[k] = s[k]
      /\ Append(s, x)[n + 1] = x
  BY AppendElements
<1>3. Len(Append(s, x)) = n + 1
  BY <1>1, <1>2, LenProperties
<1>4. /\ DOMAIN v = 1 .. (n + 1) + Len(t)
      /\ \A k \in 1 .. n + 1 : v[k] = Append(s, x)[k]
      /\ \A k \in 1 .. Len(t) : v[(n + 1) + k] = t[k]
  BY <1>2, <1>3, ConcatElements
<1> HIDE DEF u, v, n
<1>5. ASSUME NEW k \in DOMAIN u
      PROVE  to(k) \in DOMAIN v /\ v[to(k)] = u[k] /\ to(k) # n + 1
  <2>1. CASE k <= n
    <3>1. k \in 1 .. n /\ k \in 1 .. n + 1
      BY <1>1, <2>1
    <3> QED
      BY <1>1, <1>2, <1>4, <2>1, <3>1
  <2>2. CASE ~(k <= n)
    <3>1. k - n \in 1 .. Len(t) /\ n + (k - n) = k /\ (n + 1) + (k - n) = k + 1
      BY <1>1, <2>2
    <3>2. u[k] = t[k - n] /\ v[k + 1] = t[k - n]
      BY <1>1, <1>4, <3>1
    <3> QED
      BY <1>1, <1>4, <2>2, <3>1, <3>2
  <2> QED
    BY <2>1, <2>2
<1>6. v[n + 1] = x /\ n + 1 \in DOMAIN v
  <2>1. n + 1 \in 1 .. n + 1
    BY <1>1
  <2> QED
    BY <1>1, <1>2, <1>4, <2>1
<1>7. ASSUME NEW k \in DOMAIN v, k # n + 1
      PROVE  back(k) \in DOMAIN u /\ u[back(k)] = v[k] /\ to(back(k)) = k
  <2>1. back(k) \in DOMAIN u /\ to(back(k)) = k
    BY <1>1, <1>4, <1>7
  <2> HIDE DEF to, back
  <2> QED
    BY <1>5, <2>1
<1>8. /\ \A k, m \in DOMAIN u : k < m => to(k) < to(m)
      /\ \A k, m \in DOMAIN v : k < m /\ k # n + 1 /\ m # n + 1 => back(k) < back(m)
  BY <1>1, <1>4
<1> HIDE DEF to, back
<1>9. \A k \in DOMAIN v : \A b \in Blocks(i) : v[k] = BlockMessage(i, b) => k # n + 1
  BY <1>6 DEF Foreign
<1>10. ASSUME Followed(u, i)  PROVE Followed(v, i)
  <2>1. ASSUME NEW k \in DOMAIN v, NEW b \in Blocks(i), NEW c \in Blocks(i),
               v[k] = BlockMessage(i, b), b < c
        PROVE  \E m \in DOMAIN v : m > k /\ v[m] = BlockMessage(i, c)
    <3>1. back(k) \in DOMAIN u /\ u[back(k)] = BlockMessage(i, b) /\ to(back(k)) = k
      BY <1>7, <1>9, <2>1
    <3>2. PICK m \in DOMAIN u : m > back(k) /\ u[m] = BlockMessage(i, c)
      BY <1>10, <2>1, <3>1 DEF Followed
    <3>3. to(m) \in DOMAIN v /\ v[to(m)] = BlockMessage(i, c)
      BY <1>5, <3>2
    <3>4. to(m) > k
      <4>1. back(k) < m
        BY <1>1, <3>1, <3>2
      <4>2. to(back(k)) < to(m)
        BY <1>8, <3>1, <3>2, <4>1
      <4> QED
        BY <1>1, <1>4, <3>1, <3>3, <4>2
    <3> QED
      BY <3>3, <3>4
  <2> QED
    BY <2>1 DEF Followed
<1>11. ASSUME Complete(u, i, from)  PROVE Complete(v, i, from)
  BY <1>5, <1>11 DEF Complete
<1>12. ASSUME InOrder(u, i, from)  PROVE InOrder(v, i, from)
  <2>1. ASSUME NEW k \in DOMAIN v, NEW b \in Blocks(i), v[k] = BlockMessage(i, b)
        PROVE  from <= b
    BY <1>7, <1>9, <1>12, <2>1 DEF InOrder
  <2>2. ASSUME NEW k \in DOMAIN v, NEW m \in DOMAIN v, NEW b \in Blocks(i), NEW c \in Blocks(i),
               k < m, v[k] = BlockMessage(i, b), v[m] = BlockMessage(i, c)
        PROVE  b < c
    <3>1. /\ back(k) \in DOMAIN u /\ u[back(k)] = BlockMessage(i, b)
          /\ back(m) \in DOMAIN u /\ u[back(m)] = BlockMessage(i, c)
      BY <1>7, <1>9, <2>2
    <3>2. back(k) < back(m)
      BY <1>8, <1>9, <2>2
    <3> QED
      BY <1>12, <3>1, <3>2 DEF InOrder
  <2> QED
    BY <2>1, <2>2 DEF InOrder
<1> QED
  BY <1>10, <1>11, <1>12 DEF u, v

\* The answer to a request is the whole piece, in order.
LEMMA AnswerBlocks ==
  ASSUME NEW S, NEW s \in Seq(S), NEW i \in Pieces, NEW j \in Pieces, BlocksOf(j) \in Seq(S),
         NEW from \in Nat
  PROVE  /\ i = j => Followed(s \o BlocksOf(j), i) /\ Complete(s \o BlocksOf(j), i, from)
         /\ i # j => /\ Followed(s, i) => Followed(s \o BlocksOf(j), i)
                     /\ Complete(s, i, from) => Complete(s \o BlocksOf(j), i, from)
                     /\ InOrder(s, i, from) => InOrder(s \o BlocksOf(j), i, from)
         /\ i = j /\ (\A k \in DOMAIN s : Foreign(s[k], i)) => InOrder(s \o BlocksOf(j), i, 0)
<1> DEFINE t == BlocksOf(j)
           u == s \o t
           n == Len(s)
           N == NumBlocks[j]
<1>1. /\ Len(t) = N /\ N \in Nat \ {0}
      /\ \A k \in 1 .. N : t[k] = BlockMessage(j, k - 1)
  BY BlocksOfType, BlockNumbers
<1> HIDE DEF t
<1>2. /\ n \in Nat /\ DOMAIN s = 1 .. n
      /\ DOMAIN u = 1 .. n + N
      /\ \A k \in 1 .. n : u[k] = s[k]
      /\ \A k \in 1 .. N : u[n + k] = t[k]
  <2>1. t \in Seq(S)
    BY DEF t
  <2> QED
    BY <1>1, <2>1, ConcatElements
<1> HIDE DEF u, n
<1>3. ASSUME NEW k \in 1 .. N  PROVE n + k \in DOMAIN u /\ u[n + k] = BlockMessage(j, k - 1)
  BY <1>1, <1>2
<1>4. ASSUME NEW k \in DOMAIN u, k \notin 1 .. n
      PROVE  k - n \in 1 .. N /\ u[k] = BlockMessage(j, k - n - 1)
  <2>1. k - n \in 1 .. N /\ n + (k - n) = k
    BY <1>1, <1>2, <1>4
  <2> QED
    BY <1>3, <2>1
<1>5. \A k \in 1 .. n : k \in DOMAIN s /\ k \in DOMAIN u /\ u[k] = s[k]
  BY <1>1, <1>2
<1>6. Blocks(i) \subseteq Nat /\ Blocks(j) = 0 .. N - 1
  BY BlockNumbers DEF Blocks
<1>7. ASSUME i = j  PROVE Followed(u, i) /\ Complete(u, i, from)
  <2>1. ASSUME NEW k \in DOMAIN u, NEW b \in Blocks(i), NEW c \in Blocks(i),
               u[k] = BlockMessage(i, b), b < c
        PROVE  \E m \in DOMAIN u : m > k /\ u[m] = BlockMessage(i, c)
    <3>1. c + 1 \in 1 .. N /\ (c + 1) - 1 = c
      BY <1>1, <1>6, <1>7
    <3>2. n + (c + 1) \in DOMAIN u /\ u[n + (c + 1)] = BlockMessage(i, c)
      BY <1>3, <1>7, <3>1
    <3>3. n + (c + 1) > k
      <4>1. CASE k \in 1 .. n
        BY <1>2, <3>1, <4>1, <1>1
      <4>2. CASE k \notin 1 .. n
        <5>1. k - n \in 1 .. N /\ k - n - 1 = b
          BY <1>4, <1>7, <2>1, <4>2, SameBlock
        <5> QED
          BY <1>1, <1>2, <1>6, <2>1, <5>1
      <4> QED
        BY <4>1, <4>2
    <3> QED
      BY <3>2, <3>3
  <2>2. ASSUME NEW b \in Blocks(i)  PROVE \E k \in DOMAIN u : u[k] = BlockMessage(i, b)
    <3>1. b + 1 \in 1 .. N /\ (b + 1) - 1 = b
      BY <1>1, <1>6, <1>7
    <3> QED
      BY <1>3, <1>7, <3>1
  <2> QED
    BY <2>1, <2>2 DEF Followed, Complete
<1>8. ASSUME i # j  PROVE \A k \in DOMAIN u : \A b : u[k] = BlockMessage(i, b) => k \in 1 .. n
  BY <1>4, <1>8, SameBlock
<1>9. ASSUME i # j, Followed(s, i)  PROVE Followed(u, i)
  <2>1. ASSUME NEW k \in DOMAIN u, NEW b \in Blocks(i), NEW c \in Blocks(i),
               u[k] = BlockMessage(i, b), b < c
        PROVE  \E m \in DOMAIN u : m > k /\ u[m] = BlockMessage(i, c)
    <3>1. k \in DOMAIN s /\ s[k] = BlockMessage(i, b)
      BY <1>5, <1>8, <1>9, <2>1
    <3>2. PICK m \in DOMAIN s : m > k /\ s[m] = BlockMessage(i, c)
      BY <1>9, <2>1, <3>1 DEF Followed
    <3> QED
      BY <1>2, <1>5, <3>2
  <2> QED
    BY <2>1 DEF Followed
<1>10. ASSUME i # j, Complete(s, i, from)  PROVE Complete(u, i, from)
  BY <1>2, <1>5, <1>10 DEF Complete
<1>11. ASSUME i # j, InOrder(s, i, from)  PROVE InOrder(u, i, from)
  <2>1. \A k \in DOMAIN u : \A b \in Blocks(i) :
          u[k] = BlockMessage(i, b) => k \in DOMAIN s /\ s[k] = BlockMessage(i, b)
    BY <1>5, <1>8, <1>11
  <2> QED
    BY <1>11, <2>1 DEF InOrder
<1>12. ASSUME i = j, \A k \in DOMAIN s : Foreign(s[k], i)  PROVE InOrder(u, i, 0)
  <2>1. ASSUME NEW k \in DOMAIN u, NEW b \in Blocks(i), u[k] = BlockMessage(i, b)
        PROVE  k \in Nat /\ k = n + b + 1
    <3>1. k \notin 1 .. n
      BY <1>5, <1>12, <2>1 DEF Foreign
    <3>2. k - n \in 1 .. N /\ k - n - 1 = b
      BY <1>4, <1>12, <2>1, <3>1, SameBlock
    <3> QED
      BY <1>1, <1>2, <1>6, <3>2
  <2>2. ASSUME NEW k \in DOMAIN u, NEW m \in DOMAIN u, NEW b \in Blocks(i), NEW c \in Blocks(i),
               k < m, u[k] = BlockMessage(i, b), u[m] = BlockMessage(i, c)
        PROVE  b < c
    <3>1. k = n + b + 1 /\ m = n + c + 1
      BY <2>1, <2>2
    <3> QED
      BY <1>2, <1>6, <2>2, <3>1
  <2>3. \A b \in Blocks(i) : 0 <= b
    BY <1>6
  <2> QED
    BY <2>2, <2>3 DEF InOrder
<1> QED
  BY <1>7, <1>9, <1>10, <1>11, <1>12 DEF t, u

LEMMA ComingType ==
  ASSUME SInv, NEW p \in Peer
  PROVE  /\ toUs[p] \in Seq(FromRemote) /\ pending[p] \in Seq(FromRemote)
         /\ Coming(p) \in Seq(FromRemote)
<1>1. toUs[p] \in Seq(FromRemote) /\ pending[p] \in Seq(BlockMessages)
  BY DEF SInv, WireInv, RemoteTypes
<1>2. BlockMessages \subseteq FromRemote
  BY DEF FromRemote
<1>3. pending[p] \in Seq(FromRemote)
  <2>1. Len(pending[p]) \in Nat /\ \A k \in 1 .. Len(pending[p]) : pending[p][k] \in FromRemote
    BY <1>1, <1>2, LenProperties, ElementOfSeq
  <2>2. pending[p] \in [1 .. Len(pending[p]) -> FromRemote]
    BY <1>1, <2>1, LenProperties
  <2> QED
    BY <2>1, <2>2
<1> QED
  BY <1>1, <1>3, ConcatProperties DEF Coming

\* Each step moves the blocks on, or puts a message among them.
LEMMA ComingTakes ==
  ASSUME SInv, NEW p \in Peer, NEW type, NEW w, Takes(p, type, w)
  PROVE  /\ Coming(p) # <<>> /\ Head(Coming(p)) = First(p) /\ First(p).type = type
         /\ First(p) \in FromRemote /\ Coming(p)' = Tail(Coming(p))
<1>1. toUs[p] # <<>> /\ Head(toUs[p]).type = type /\ toUs'[p] = Tail(toUs[p]) /\ pending'[p] = pending[p]
  BY DEF Takes
<1>2. toUs[p] \in Seq(FromRemote) /\ pending[p] \in Seq(FromRemote)
  BY ComingType
<1>3. Head(toUs[p]) \in FromRemote
  BY <1>1, <1>2, TailElements
<1>4. /\ toUs[p] \o pending[p] # <<>> /\ Head(toUs[p] \o pending[p]) = Head(toUs[p])
      /\ Tail(toUs[p] \o pending[p]) = Tail(toUs[p]) \o pending[p]
  <2>1. \A s, t \in Seq(FromRemote) : s # <<>> =>
          /\ s \o t # <<>> /\ Head(s \o t) = Head(s) /\ Tail(s \o t) = Tail(s) \o t
    BY TailOfConcat
  <2> QED
    BY <1>1, <1>2, <2>1, Zenon
<1>5. Coming(p)' = Tail(toUs[p]) \o pending[p]
  BY <1>1 DEF Coming
<1> QED
  BY <1>1, <1>3, <1>4, <1>5 DEF Coming, First

LEMMA ComingSends ==
  ASSUME SInv, NEW p \in Peer, SendsBlock(p)
  PROVE  Coming(p)' = Coming(p)
BY ComingType, HeadMoves DEF SendsBlock, Coming

LEMMA ComingAnswers ==
  ASSUME SInv, NEW p \in Peer, ReadsRequest(p), NEW j \in Pieces, Head(toThem[p]) = Msg("request", j)
  PROVE  BlocksOf(j) \in Seq(FromRemote) /\ Coming(p)' = Coming(p) \o BlocksOf(j)
<1>1. toUs[p] \in Seq(FromRemote) /\ pending[p] \in Seq(FromRemote)
  BY ComingType
<1>2. BlocksOf(j) \in Seq(FromRemote)
  <2>1. NumBlocks[j] \in Nat /\ \A b \in Nat : b < NumBlocks[j] => BlockMessage(j, b) \in FromRemote
    BY WireMessages, BlockNumbers DEF FromRemote
  <2>2. \A k \in 1 .. NumBlocks[j] : BlockMessage(j, k - 1) \in FromRemote
    BY <2>1
  <2>3. BlocksOf(j) \in [1 .. NumBlocks[j] -> FromRemote]
    BY <2>2 DEF BlocksOf
  <2> QED
    BY <2>1, <2>3
<1>3. toUs'[p] = toUs[p] /\ pending'[p] = pending[p] \o BlocksOf(j)
  <2>1. Head(toThem[p]).index = j
    BY DEF Msg
  <2> QED
    BY <2>1 DEF ReadsRequest
<1>4. (toUs[p] \o pending[p]) \o BlocksOf(j) = toUs[p] \o (pending[p] \o BlocksOf(j))
  <2>1. \A s, t, u \in Seq(FromRemote) : (s \o t) \o u = s \o (t \o u)
    BY ConcatAssociative
  <2> QED
    BY <1>1, <1>2, <2>1, Zenon
<1>5. Coming(p)' = toUs[p] \o (pending[p] \o BlocksOf(j))
  BY <1>3 DEF Coming
<1> QED
  BY <1>2, <1>4, <1>5 DEF Coming

LEMMA ForeignType ==
  ASSUME NEW m, NEW i
  PROVE  /\ m.type # "piece" => Foreign(m, i)
         /\ m.index # i => Foreign(m, i)
BY DEF Foreign, BlockMessage

\* A request of piece i is on its way.
Asking(s, i) == \E k \in DOMAIN s : s[k] = Msg("request", i)

LEMMA AskingLists ==
  ASSUME NEW S, NEW s \in Seq(S), NEW i
  PROVE  /\ s # <<>> /\ Asking(s, i) /\ Head(s) # Msg("request", i) => Asking(Tail(s), i)
         /\ s # <<>> /\ Asking(Tail(s), i) => Asking(s, i)
         /\ \A w \in Seq(S) : Asking(s \o w, i) <=> Asking(s, i) \/ Asking(w, i)
<1>1. ASSUME s # <<>>, Asking(s, i), Head(s) # Msg("request", i)
      PROVE  Asking(Tail(s), i)
  <2>1. PICK k \in DOMAIN s : s[k] = Msg("request", i)
    BY <1>1 DEF Asking
  <2>2. /\ DOMAIN s = 1 .. Len(s) /\ Len(s) \in Nat \ {0} /\ Head(s) = s[1]
        /\ DOMAIN Tail(s) = 1 .. Len(s) - 1
        /\ \A j \in 1 .. Len(s) - 1 : Tail(s)[j] = s[j + 1]
    BY <1>1, TailElements
  <2>3. k - 1 \in DOMAIN Tail(s) /\ (k - 1) + 1 = k
    BY <1>1, <2>1, <2>2
  <2> QED
    BY <2>1, <2>2, <2>3 DEF Asking
<1>2. ASSUME s # <<>>, Asking(Tail(s), i)
      PROVE  Asking(s, i)
  <2>1. PICK k \in DOMAIN Tail(s) : Tail(s)[k] = Msg("request", i)
    BY <1>2 DEF Asking
  <2>2. /\ DOMAIN s = 1 .. Len(s) /\ Len(s) \in Nat \ {0}
        /\ DOMAIN Tail(s) = 1 .. Len(s) - 1
        /\ \A j \in 1 .. Len(s) - 1 : Tail(s)[j] = s[j + 1]
    BY <1>2, TailElements
  <2>3. k + 1 \in DOMAIN s /\ s[k + 1] = Msg("request", i)
    BY <2>1, <2>2
  <2> QED
    BY <2>3 DEF Asking
<1>3. ASSUME NEW w \in Seq(S)
      PROVE  Asking(s \o w, i) <=> Asking(s, i) \/ Asking(w, i)
  <2>1. /\ Len(s) \in Nat /\ DOMAIN s = 1 .. Len(s)
        /\ Len(w) \in Nat /\ DOMAIN w = 1 .. Len(w)
        /\ DOMAIN (s \o w) = 1 .. Len(s) + Len(w)
        /\ \A k \in 1 .. Len(s) : (s \o w)[k] = s[k]
        /\ \A k \in 1 .. Len(w) : (s \o w)[Len(s) + k] = w[k]
    BY ConcatElements
  <2>2. ASSUME NEW k \in DOMAIN (s \o w), (s \o w)[k] = Msg("request", i)
        PROVE  Asking(s, i) \/ Asking(w, i)
    <3>1. CASE k \in 1 .. Len(s)
      BY <2>1, <2>2, <3>1 DEF Asking
    <3>2. CASE k \notin 1 .. Len(s)
      <4>1. k - Len(s) \in 1 .. Len(w) /\ Len(s) + (k - Len(s)) = k
        BY <2>1, <3>2
      <4>2. w[k - Len(s)] = Msg("request", i)
        BY <2>1, <2>2, <4>1
      <4> QED
        BY <2>1, <4>1, <4>2 DEF Asking
    <3> QED
      BY <3>1, <3>2
  <2>3. ASSUME Asking(s, i)  PROVE Asking(s \o w, i)
    <3>1. PICK k \in 1 .. Len(s) : s[k] = Msg("request", i)
      BY <2>1, <2>3 DEF Asking
    <3>2. k \in DOMAIN (s \o w) /\ (s \o w)[k] = Msg("request", i)
      BY <2>1, <3>1
    <3> QED
      BY <3>2 DEF Asking
  <2>4. ASSUME Asking(w, i)  PROVE Asking(s \o w, i)
    <3>1. PICK k \in 1 .. Len(w) : w[k] = Msg("request", i)
      BY <2>1, <2>4 DEF Asking
    <3>2. Len(s) + k \in DOMAIN (s \o w) /\ (s \o w)[Len(s) + k] = Msg("request", i)
      BY <2>1, <3>1
    <3> QED
      BY <3>2 DEF Asking
  <2>5. Asking(s \o w, i) => Asking(s, i) \/ Asking(w, i)
    BY <2>2 DEF Asking
  <2> QED
    BY <2>3, <2>4, <2>5
<1> QED
  BY <1>1, <1>2, <1>3

\* What asks for a piece.
LEMMA AskingWritten ==
  ASSUME NEW p \in Peer, NEW i
  PROVE  /\ "PEER_CHOKING" \notin state[p] => Asking(Ask(p, i), i)
         /\ queue[p] = <<Queued(p)>> =>
              /\ Asking(RequestsFor(queue[p]), Queued(p).index)
              /\ \A j : Asking(RequestsFor(queue[p]), j) => j = Queued(p).index
         /\ \A j : Asking(Ask(p, i), j) => j = i
         /\ ~Asking(<<>>, i)
         /\ \A j : ~Asking(<<Msg("cancel", j)>>, i)
<1>1. /\ \A t, u, j, k : Msg(t, j) = Msg(u, k) <=> t = u /\ j = k
      /\ Signal("interested") = Msg("interested", NumPieces)
  BY DEF Msg, Signal
<1>2. \A x, y : /\ DOMAIN <<x>> = {1} /\ <<x>>[1] = x
                /\ DOMAIN <<x, y>> = {1, 2} /\ <<x, y>>[1] = x /\ <<x, y>>[2] = y
  OBVIOUS
<1>3. "PEER_CHOKING" \notin state[p] => Asking(Ask(p, i), i)
  BY <1>2 DEF Ask, Asking
<1>4. \A j : Asking(Ask(p, i), j) => j = i
  BY <1>1, <1>2 DEF Ask, Asking
<1>5. ASSUME queue[p] = <<Queued(p)>>
      PROVE  RequestsFor(queue[p]) = <<Msg("request", Queued(p).index)>>
  <2>1. DOMAIN queue[p] = {1} /\ queue[p][1] = Queued(p)
    BY <1>2, <1>5
  <2>2. RequestsFor(queue[p]) = [k \in {1} |-> Msg("request", Queued(p).index)]
    BY <2>1 DEF RequestsFor
  <2> QED
    BY <1>2, <2>2
<1>6. \A x, j : Asking(<<x>>, j) <=> x = Msg("request", j)
  BY <1>2 DEF Asking
<1>7. \A j : ~Asking(<<Msg("cancel", j)>>, i)
  BY <1>1, <1>6
<1>8. ~Asking(<<>>, i)
  BY DEF Asking
<1> QED
  BY <1>1, <1>3, <1>4, <1>5, <1>6, <1>7, <1>8

LEMMA ToRemoteFields ==
  ASSUME NEW m \in ToRemote
  PROVE  /\ m = Msg(m.type, m.index)
         /\ m.type = "request" => m.index \in Pieces
         /\ m.type # "request" => \A i : m # Msg("request", i)
BY DEF ToRemote, Message, Msg

(***************************************************************************)
(* If the peer lets us ask, and we know it, either the request of the      *)
(* queued piece is still to be read, or its blocks are on their way: every *)
(* one that is missing, and after each block the later ones.               *)
(***************************************************************************)
BlocksComing(p) ==
  open[p] /\ ~choking[p] /\ Free(toUs[p], {"choke", "unchoke"}) /\ queue[p] # <<>> =>
    \/ Asking(toThem[p], Queued(p).index)
    \/ /\ Complete(Coming(p), Queued(p).index, Queued(p).haveBlocks)
       /\ Followed(Coming(p), Queued(p).index)

LEMMA QueuedOnly ==
  ASSUME SInv, NEW p \in Peer, OneRequest(p), queue[p] # <<>>
  PROVE  /\ queue[p] = <<Queued(p)>> /\ Queued(p).index \in Pieces
         /\ Queued(p).haveBlocks \in Nat /\ Queued(p).haveBlocks < NumBlocks[Queued(p).index]
<1>1. queue[p] \in Seq(WaitingEntry) /\ Len(queue[p]) <= 1
  BY DEF SInv, IInv, QueueEntryIncomplete, OneRequest
<1>2. Len(queue[p]) = 1
  <2>1. Len(queue[p]) \in Nat /\ Len(queue[p]) # 0
    BY <1>1, EmptySeq, LenProperties
  <2>2. Len(queue[p]) <= 1
    BY <1>1
  <2>3. \A n \in Nat : n # 0 /\ n <= 1 => n = 1
    OBVIOUS
  <2> QED
    BY <2>1, <2>2, <2>3, Zenon
<1>3. queue[p] = <<Queued(p)>>
  BY <1>1, <1>2 DEF Queued
<1>4. Queued(p) \in WaitingEntry
  BY <1>1, <1>2, ElementOfSeq DEF Queued
<1> QED
  BY <1>3, <1>4 DEF WaitingEntry, Entry

LEMMA TakesFree ==
  ASSUME SInv, NEW p \in Peer, NEW type, NEW w, Takes(p, type, w), NEW types, type \notin types,
         Free(toUs'[p], types)
  PROVE  Free(toUs[p], types)
<1>1. /\ toUs[p] \in Seq(FromRemote) /\ toUs[p] # <<>> /\ Head(toUs[p]).type = type
      /\ toUs'[p] = Tail(toUs[p])
  BY ComingType DEF Takes
<1> QED
  BY <1>1, FreeTail

LEMMA KeepsBlocksComing ==
  ASSUME SInv, SInv', NEW p \in Peer, OneRequest(p), OneRequest(p)', ChokeAgrees(p), ChokeAgrees(p)',
         BlocksComing(p), SessionStep(p)
  PROVE  BlocksComing(p)'
<1> DEFINE quiet == {"choke", "unchoke"}
           i == Queued(p).index
           n == Queued(p).haveBlocks
<1>1. SUFFICES ASSUME open'[p], ~choking'[p], Free(toUs'[p], quiet), queue'[p] # <<>>
               PROVE  \/ Asking(toThem'[p], Queued(p)'.index)
                      \/ /\ Complete(Coming(p)', Queued(p)'.index, Queued(p)'.haveBlocks)
                         /\ Followed(Coming(p)', Queued(p)'.index)
  BY DEF BlocksComing
<1>2. toThem[p] \in Seq(ToRemote) /\ Coming(p) \in Seq(FromRemote) /\ toUs'[p] \in Seq(FromRemote)
  BY ComingType DEF SInv, WireInv, RemoteTypes
<1>3. "PEER_CHOKING" \notin state'[p]
  <2> DEFINE next == "PEER_CHOKING" \in state'[p]
  <2>1. ~WillChoke(toUs'[p], next)
    BY <1>1 DEF ChokeAgrees
  <2>2. next \in BOOLEAN
    OBVIOUS
  <2> HIDE DEF next
  <2>3. ~next
    BY <1>1, <1>2, <2>1, <2>2, WillChokeFree
  <2> QED
    BY <2>3 DEF next
<1>4. CASE SessionUnchanged(p)
  BY <1>1, <1>4 DEF SessionUnchanged, BlocksComing, Coming, Queued
<1>5. CASE Opens(p) \/ Ends(p)
  BY <1>1, <1>5 DEF Opens, Ends
<1>6. CASE TakesMessage(p)
  <2>1. ASSUME NEW type, NEW w, Takes(p, type, w), type \notin quiet
        PROVE  open[p] /\ ~choking[p] /\ Free(toUs[p], quiet)
    <3>1. open[p] /\ choking'[p] = choking[p]
      BY <2>1 DEF Takes
    <3>2. Free(toUs[p], quiet)
      BY <1>1, <2>1, TakesFree
    <3> QED
      BY <1>1, <3>1, <3>2
  <2>2. CASE TakesChoke(p)
    BY <1>3, <2>2 DEF TakesChoke
  <2>3. CASE TakesUnchoke(p)
    <3>1. queue'[p] = queue[p] /\ toThem'[p] = toThem[p] \o RequestsFor(queue[p])
      BY <2>3 DEF TakesUnchoke, Takes
    <3>2. queue[p] = <<Queued(p)>> /\ Queued(p)' = Queued(p)
      BY <1>1, <3>1, QueuedOnly DEF Queued
    <3>3. Asking(RequestsFor(queue[p]), i)
      BY <3>2, AskingWritten
    <3>4. RequestsFor(queue[p]) \in Seq(ToRemote)
      BY WrittenTypes
    <3> QED
      BY <1>2, <3>1, <3>2, <3>3, <3>4, AskingLists
  <2>4. ASSUME NEW type, type \notin quiet, NEW done, AsksNext(p, type, done)
        PROVE  Asking(toThem'[p], Queued(p)'.index)
    <3>1. PICK j \in Pieces : /\ Takes(p, type, Ask(p, j)) /\ queue'[p] = <<NewEntry(j)>>
                              /\ state'[p] = state[p] \cup {"AM_INTERESTED"}
      BY <1>1, <2>4 DEF AsksNext
    <3>2. Queued(p)'.index = j
      BY <3>1 DEF Queued, NewEntry
    <3>3. Asking(Ask(p, j), j)
      BY <1>3, <3>1, AskingWritten
    <3>4. toThem'[p] = toThem[p] \o Ask(p, j) /\ Ask(p, j) \in Seq(ToRemote)
      BY <3>1, WrittenTypes DEF Takes
    <3> QED
      BY <1>2, <3>2, <3>3, <3>4, AskingLists
  <2>5. CASE TakesHave(p)
    <3>1. Takes(p, "have", <<>>) /\ queue'[p] = queue[p]
      BY <2>5 DEF TakesHave
    <3>2. open[p] /\ ~choking[p] /\ Free(toUs[p], quiet) /\ Queued(p)' = Queued(p)
      BY <2>1, <3>1 DEF Queued
    <3>3. toThem'[p] = toThem[p]
      BY <1>2, <3>1, ConcatEmptySeq DEF Takes
    <3>4. CASE Asking(toThem[p], i)
      BY <3>2, <3>3, <3>4
    <3>5. CASE Complete(Coming(p), i, n) /\ Followed(Coming(p), i)
      <4>1. Coming(p) # <<>> /\ Head(Coming(p)) = First(p) /\ Coming(p)' = Tail(Coming(p))
            /\ First(p).type = "have"
        BY <3>1, ComingTakes
      <4>2. Foreign(Head(Coming(p)), i)
        BY <4>1, ForeignType
      <4>3. i \in Pieces /\ n \in Nat
        BY <1>1, <3>1, QueuedOnly
      <4>4. Complete(Tail(Coming(p)), i, n) /\ Followed(Tail(Coming(p)), i)
        BY <1>2, <3>5, <4>1, <4>2, <4>3, TailBlocks
      <4> QED
        BY <3>2, <4>1, <4>4
    <3> QED
      BY <1>1, <3>1, <3>2, <3>4, <3>5 DEF BlocksComing
  <2>6. CASE TakesBitfield(p)
    BY <2>4, <2>6 DEF TakesBitfield
  <2>7. CASE TakesCancelled(p)
    BY <1>1, <2>7 DEF TakesCancelled
  <2>8. CASE TakesStored(p)
    <3>1. Takes(p, "piece", <<>>) /\ queue[p] = <<Queued(p)>> /\ queue'[p] = <<BlockTaken(p)>>
      BY <2>8 DEF TakesStored
    <3>2. open[p] /\ ~choking[p] /\ Free(toUs[p], quiet)
      BY <2>1, <3>1
    <3>3. Queued(p)'.index = i /\ Queued(p)'.haveBlocks = n + 1
      BY <3>1 DEF Queued, BlockTaken, Store
    <3>4. toThem'[p] = toThem[p]
      BY <1>2, <3>1, ConcatEmptySeq DEF Takes
    <3>5. CASE Asking(toThem[p], i)
      BY <3>3, <3>4, <3>5
    <3>6. CASE Complete(Coming(p), i, n) /\ Followed(Coming(p), i)
      <4>1. Coming(p) # <<>> /\ Coming(p)' = Tail(Coming(p))
        BY <3>1, ComingTakes
      <4>2. i \in Pieces /\ n \in Nat
        BY <3>1, QueuedOnly
      <4>3. Complete(Tail(Coming(p)), i, n + 1) /\ Followed(Tail(Coming(p)), i)
        BY <1>2, <3>6, <4>1, <4>2, TailBlocks
      <4> QED
        BY <3>3, <4>1, <4>3
    <3> QED
      BY <3>1, <3>2, <3>5, <3>6 DEF BlocksComing
  <2>9. CASE TakesLast(p)
    BY <2>4, <2>9 DEF TakesLast
  <2> QED
    BY <1>6, <2>2, <2>3, <2>5, <2>6, <2>7, <2>8, <2>9 DEF TakesMessage
<1>7. CASE RemoteActs(p)
  <2>1. open[p] /\ queue'[p] = queue[p] /\ queue[p] # <<>> /\ Queued(p)' = Queued(p)
    BY <1>1, <1>7 DEF RemoteActs, UnchokesInterested, ReadsRequest, ReadsCancel, Ignores, SendsBlock,
                Chokes, Unchokes, Announces, Reads, OursUnchanged, Queued
  <2>2. i \in Pieces /\ n \in Nat
    BY <2>1, QueuedOnly
  <2>3. CASE UnchokesInterested(p) \/ Unchokes(p) \/ Chokes(p)
    <3>1. PICK m \in FromRemote : m.type \in quiet /\ toUs'[p] = Append(toUs[p], m)
      BY <2>3, RemoteSends
    <3>2. ~Free(toUs'[p], quiet)
      BY <3>1, FreeAfterSends
    <3> QED
      BY <1>1, <3>2
  <2>4. CASE ReadsRequest(p)
    <3>1. /\ toThem[p] # <<>> /\ Head(toThem[p]).type = "request" /\ toThem'[p] = Tail(toThem[p])
          /\ toUs'[p] = toUs[p] /\ ~choking[p]
      BY <2>4 DEF ReadsRequest, Reads
    <3>2. PICK j \in Pieces : Head(toThem[p]) = Msg("request", j)
      <4>1. Head(toThem[p]) \in ToRemote
        BY <1>2, <3>1, TailElements
      <4> QED
        BY <3>1, <4>1, ToRemoteFields
    <3>3. BlocksOf(j) \in Seq(FromRemote) /\ Coming(p)' = Coming(p) \o BlocksOf(j)
      BY <2>4, <3>2, ComingAnswers
    <3>4. CASE i = j
      BY <1>2, <2>1, <2>2, <3>3, <3>4, AnswerBlocks
    <3>5. CASE i # j
      <4>1. CASE Asking(toThem[p], i)
        <5>1. Head(toThem[p]) # Msg("request", i)
          BY <3>2, <3>5 DEF Msg
        <5> QED
          BY <1>2, <2>1, <3>1, <4>1, <5>1, AskingLists
      <4>2. CASE Complete(Coming(p), i, n) /\ Followed(Coming(p), i)
        <5>1. Complete(Coming(p)', i, n) /\ Followed(Coming(p)', i)
          BY <1>2, <2>2, <3>3, <3>5, <4>2, AnswerBlocks
        <5> QED
          BY <2>1, <5>1
      <4> QED
        BY <1>1, <2>1, <3>1, <4>1, <4>2 DEF BlocksComing
    <3> QED
      BY <3>4, <3>5
  <2>5. CASE ReadsCancel(p)
    <3>1. Reads(p, {"cancel"})
      BY <2>5 DEF ReadsCancel
    <3>2. ~Free(toThem[p], {"cancel"})
      <4>1. Head(toThem[p]).type \in {"cancel"}
        BY <3>1 DEF Reads
      <4> QED
        BY <3>1, <4>1, FreeAfterReads
    <3> QED
      BY <2>1, <3>2 DEF OneRequest
  <2>6. CASE Ignores(p)
    <3>1. /\ toThem[p] # <<>> /\ toThem'[p] = Tail(toThem[p]) /\ toUs'[p] = toUs[p]
          /\ choking'[p] = choking[p] /\ Coming(p)' = Coming(p)
          /\ Head(toThem[p]).type = "request" => choking[p]
      BY <2>6 DEF Ignores, Reads, Coming
    <3>2. CASE Asking(toThem[p], i)
      <4>1. Head(toThem[p]) \in ToRemote /\ Head(toThem[p]).type # "request"
        BY <1>1, <1>2, <3>1, TailElements
      <4>2. Head(toThem[p]) # Msg("request", i)
        BY <4>1, ToRemoteFields
      <4> QED
        BY <1>2, <2>1, <3>1, <3>2, <4>2, AskingLists
    <3>3. CASE Complete(Coming(p), i, n) /\ Followed(Coming(p), i)
      BY <2>1, <3>1, <3>3
    <3> QED
      BY <1>1, <2>1, <3>1, <3>2, <3>3 DEF BlocksComing
  <2>7. CASE SendsBlock(p)
    <3>1. Coming(p)' = Coming(p)
      BY <2>7, ComingSends
    <3>2. PICK m \in FromRemote : m.type = "piece" /\ toUs'[p] = Append(toUs[p], m)
      BY <2>7, RemoteSends
    <3>3. Free(toUs[p], quiet) /\ ~choking[p] /\ toThem'[p] = toThem[p]
      BY <1>1, <2>7, <3>2, FreeAfterSends DEF SendsBlock
    <3> QED
      BY <2>1, <3>1, <3>3 DEF BlocksComing
  <2>8. CASE Announces(p)
    <3>1. PICK m \in FromRemote : m.type = "have" /\ toUs'[p] = Append(toUs[p], m)
      BY <2>8, RemoteSends
    <3>2. Free(toUs[p], quiet) /\ ~choking[p] /\ toThem'[p] = toThem[p] /\ pending'[p] = pending[p]
      BY <1>1, <2>8, <3>1, FreeAfterSends DEF Announces
    <3>3. Foreign(m, i)
      BY <3>1, ForeignType
    <3>4. CASE Asking(toThem[p], i)
      BY <2>1, <3>2, <3>4
    <3>5. CASE Complete(Coming(p), i, n) /\ Followed(Coming(p), i)
      <4>1. Coming(p)' = Append(toUs[p], m) \o pending[p]
        BY <3>1, <3>2 DEF Coming
      <4>2. toUs[p] \in Seq(FromRemote) /\ pending[p] \in Seq(FromRemote)
        BY ComingType
      <4>3. Complete(Coming(p)', i, n) /\ Followed(Coming(p)', i)
        BY <2>2, <3>3, <3>5, <4>1, <4>2, InsertBlocks DEF Coming
      <4> QED
        BY <2>1, <4>3
    <3> QED
      BY <2>1, <3>2, <3>4, <3>5 DEF BlocksComing
  <2> QED
    BY <1>7, <2>3, <2>4, <2>5, <2>6, <2>7, <2>8 DEF RemoteActs
<1> QED
  BY <1>4, <1>5, <1>6, <1>7 DEF SessionStep

-----------------------------------------------------------------------------
(***************************************************************************)
(* No piece is waited for in vain.                                         *)
(***************************************************************************)
QInv == SInv /\ \A p \in Peer : OneRequest(p) /\ ChokeAgrees(p) /\ BlocksComing(p)

LEMMA InitSessions ==
  ASSUME SwarmInit
  PROVE  \A p \in Peer : ~open[p] /\ toUs[p] = <<>> /\ toThem[p] = <<>> /\ queue[p] = <<>>
BY DEF SwarmInit, Init

LEMMA InitQInv == SwarmInit => QInv
<1> SUFFICES ASSUME SwarmInit, NEW p \in Peer
             PROVE  SInv /\ OneRequest(p) /\ ChokeAgrees(p) /\ BlocksComing(p)
  BY SwarmInitSInv DEF QInv
<1>1. ~open[p] /\ toUs[p] = <<>> /\ toThem[p] = <<>> /\ queue[p] = <<>>
  BY InitSessions
<1>2. Len(<<>>) = 0
  OBVIOUS
<1>3. OneRequest(p)
  BY <1>1, <1>2, FreeEmpty DEF OneRequest
<1> QED
  BY <1>1, <1>3, SwarmInitSInv DEF ChokeAgrees, BlocksComing

\* A step of the swarm, or none, in the terms of every session.
LEMMA AnyStep ==
  ASSUME SInv, \A q \in Peer : OneRequest(q), [SwarmNext]_swarmVars
  PROVE  SInv' /\ \A p \in Peer : SessionStep(p)
<1>1. CASE SwarmNext
  BY <1>1, SwarmNextSInv, StepOutcome
<1>2. CASE UNCHANGED swarmVars
  <2>1. SInv'
    BY <1>2, SwarmStutterSInv
  <2>2. \A p \in Peer : SessionUnchanged(p)
    BY <1>2 DEF swarmVars, remoteVars, vars, peerVars, SessionUnchanged
  <2> QED
    BY <2>1, <2>2 DEF SessionStep
<1> QED
  BY <1>1, <1>2

LEMMA KeepsQInv == QInv /\ [SwarmNext]_swarmVars => QInv'
<1> SUFFICES ASSUME QInv, [SwarmNext]_swarmVars  PROVE QInv'
  OBVIOUS
<1>1. SInv /\ \A p \in Peer : OneRequest(p) /\ ChokeAgrees(p) /\ BlocksComing(p)
  BY DEF QInv
<1>2. SInv' /\ \A p \in Peer : SessionStep(p)
  BY <1>1, AnyStep
<1>3. ASSUME NEW p \in Peer  PROVE OneRequest(p)' /\ ChokeAgrees(p)' /\ BlocksComing(p)'
  <2>1. OneRequest(p)'
    BY <1>1, <1>2, KeepsOneRequest
  <2>2. ChokeAgrees(p)'
    BY <1>1, <1>2, KeepsChokeAgrees
  <2>3. BlocksComing(p)'
    BY <1>1, <1>2, <2>1, <2>2, KeepsBlocksComing
  <2> QED
    BY <2>1, <2>2, <2>3
<1> QED
  BY <1>2, <1>3 DEF QInv

LEMMA QInvQueued == QInv => QueuedIsPending
<1> SUFFICES ASSUME QInv, NEW p \in Peer, open[p], ~choking[p], toUs[p] = <<>>, toThem[p] = <<>>,
                    pending[p] = <<>>, queue[p] # <<>>
             PROVE  FALSE
  BY DEF QueuedIsPending
<1> DEFINE i == Queued(p).index
           n == Queued(p).haveBlocks
<1>1. SInv /\ OneRequest(p) /\ BlocksComing(p)
  BY DEF QInv
<1>2. i \in Pieces /\ n \in Nat /\ n < NumBlocks[i]
  BY <1>1, QueuedOnly
<1>3. Coming(p) = <<>>
  BY DEF Coming
<1>4. Free(toUs[p], {"choke", "unchoke"}) /\ ~Asking(toThem[p], i)
  BY FreeEmpty DEF Asking
<1>5. Complete(Coming(p), i, n)
  BY <1>1, <1>4 DEF BlocksComing
<1>6. n \in Blocks(i) /\ n <= n
  BY <1>2, BlockNumbers DEF Blocks
<1>7. DOMAIN Coming(p) = {}
  BY <1>3
<1> QED
  BY <1>5, <1>6, <1>7 DEF Complete

\* While the session lasts and the remote peer lets us ask, what is queued is answered:
\* whatever chokes and cancels crossed it, there is no queued piece when nothing is on
\* its way any more in either direction.
THEOREM QueuedPiecesPending == SwarmSpec => []QueuedIsPending
BY InitQInv, KeepsQInv, QInvQueued, PTL DEF SwarmSpec

-----------------------------------------------------------------------------
(***************************************************************************)
(* Peers that do not choke us cause no hash miss.  Then the blocks of the  *)
(* queued piece come in the order of their numbers, so it is filled slot   *)
(* by slot, and a piece that is neither queued nor finished has never been *)
(* asked for.                                                              *)
(***************************************************************************)
Once(s, m) == \A j, k \in DOMAIN s : s[j] = m /\ s[k] = m => j = k

LEMMA OnceLists ==
  ASSUME NEW S, NEW s \in Seq(S), NEW m
  PROVE  /\ s # <<>> /\ Once(s, m) => Once(Tail(s), m)
         /\ s # <<>> /\ Once(s, m) /\ Head(s) = m => \A k \in DOMAIN Tail(s) : Tail(s)[k] # m
         /\ \A x \in S : Once(s, m) /\ (x # m \/ \A k \in DOMAIN s : s[k] # m) => Once(Append(s, x), m)
         /\ \A w \in Seq(S) : Once(s, m) /\ (\A k \in DOMAIN w : w[k] # m) => Once(s \o w, m)
         /\ \A w \in Seq(S) : Once(w, m) /\ (\A k \in DOMAIN s : s[k] # m) => Once(s \o w, m)
<1>1. ASSUME s # <<>>, Once(s, m)
      PROVE  /\ Once(Tail(s), m)
             /\ Head(s) = m => \A k \in DOMAIN Tail(s) : Tail(s)[k] # m
  <2>1. /\ Len(s) \in Nat \ {0} /\ DOMAIN s = 1 .. Len(s) /\ Head(s) = s[1]
        /\ DOMAIN Tail(s) = 1 .. Len(s) - 1
        /\ \A k \in 1 .. Len(s) - 1 : Tail(s)[k] = s[k + 1]
    BY <1>1, TailElements
  <2>2. \A k \in DOMAIN Tail(s) : k \in Nat /\ k + 1 \in DOMAIN s /\ Tail(s)[k] = s[k + 1] /\ k + 1 # 1
    BY <2>1
  <2>3. ASSUME NEW j \in DOMAIN Tail(s), NEW k \in DOMAIN Tail(s), Tail(s)[j] = m, Tail(s)[k] = m
        PROVE  j = k
    <3>1. j + 1 = k + 1
      BY <1>1, <2>2, <2>3 DEF Once
    <3> QED
      BY <2>2, <3>1
  <2>4. 1 \in DOMAIN s
    BY <2>1
  <2>5. ASSUME Head(s) = m, NEW k \in DOMAIN Tail(s)  PROVE Tail(s)[k] # m
    BY <1>1, <2>1, <2>2, <2>4, <2>5 DEF Once
  <2> QED
    BY <2>3, <2>5 DEF Once
<1>2. ASSUME NEW x \in S, Once(s, m), x # m \/ \A k \in DOMAIN s : s[k] # m
      PROVE  Once(Append(s, x), m)
  <2>1. /\ Len(s) \in Nat /\ DOMAIN s = 1 .. Len(s)
        /\ DOMAIN Append(s, x) = 1 .. Len(s) + 1
        /\ \A k \in 1 .. Len(s) : Append(s, x)[k] = s[k]
        /\ Append(s, x)[Len(s) + 1] = x
    BY AppendElements
  <2>2. \A k \in DOMAIN Append(s, x) : k = Len(s) + 1 \/ (k \in DOMAIN s /\ Append(s, x)[k] = s[k])
    BY <2>1
  <2> QED
    BY <1>2, <2>1, <2>2 DEF Once
<1>3. ASSUME NEW w \in Seq(S), NEW j \in DOMAIN (s \o w)
      PROVE  \/ j \in DOMAIN s /\ (s \o w)[j] = s[j]
             \/ j \notin DOMAIN s /\ j - Len(s) \in DOMAIN w /\ (s \o w)[j] = w[j - Len(s)]
                /\ Len(s) + (j - Len(s)) = j
  <2>1. /\ Len(s) \in Nat /\ DOMAIN s = 1 .. Len(s)
        /\ Len(w) \in Nat /\ DOMAIN w = 1 .. Len(w)
        /\ DOMAIN (s \o w) = 1 .. Len(s) + Len(w)
        /\ \A k \in 1 .. Len(s) : (s \o w)[k] = s[k]
        /\ \A k \in 1 .. Len(w) : (s \o w)[Len(s) + k] = w[k]
    BY ConcatElements
  <2>2. CASE j \in 1 .. Len(s)
    BY <2>1, <2>2
  <2>3. CASE j \notin 1 .. Len(s)
    <3>1. j - Len(s) \in 1 .. Len(w) /\ Len(s) + (j - Len(s)) = j
      BY <2>1, <2>3
    <3>2. (s \o w)[j] = w[j - Len(s)]
      BY <2>1, <3>1
    <3> QED
      BY <2>1, <2>3, <3>1, <3>2
  <2> QED
    BY <2>2, <2>3
<1>4. ASSUME NEW w \in Seq(S), Once(s, m), \A k \in DOMAIN w : w[k] # m
      PROVE  Once(s \o w, m)
  <2>1. \A j \in DOMAIN (s \o w) : (s \o w)[j] = m => j \in DOMAIN s /\ s[j] = m
    BY <1>3, <1>4
  <2> QED
    BY <1>4, <2>1 DEF Once
<1>5. ASSUME NEW w \in Seq(S), Once(w, m), \A k \in DOMAIN s : s[k] # m
      PROVE  Once(s \o w, m)
  <2>1. ASSUME NEW j \in DOMAIN (s \o w), (s \o w)[j] = m
        PROVE  j - Len(s) \in DOMAIN w /\ w[j - Len(s)] = m /\ Len(s) + (j - Len(s)) = j
    BY <1>3, <1>5, <2>1
  <2>2. ASSUME NEW j \in DOMAIN (s \o w), (s \o w)[j] = m, NEW k \in DOMAIN (s \o w), (s \o w)[k] = m
        PROVE  j = k
    <3>1. j - Len(s) = k - Len(s)
      BY <1>5, <2>1, <2>2 DEF Once
    <3>2. Len(s) + (j - Len(s)) = j /\ Len(s) + (k - Len(s)) = k
      BY <2>1, <2>2
    <3> QED
      BY <3>1, <3>2
  <2> QED
    BY <2>2 DEF Once
<1> QED
  BY <1>1, <1>2, <1>4, <1>5

\* Blocks in order from number N on are none.
LEMMA NoBlocks ==
  ASSUME NEW s, NEW i \in Pieces
  PROVE  /\ InOrder(s, i, NumBlocks[i]) <=> \A k \in DOMAIN s : Foreign(s[k], i)
         /\ \A from \in Nat, low \in Nat : low <= from /\ InOrder(s, i, from) => InOrder(s, i, low)
         /\ \A low \in Nat : InOrder(s, i, NumBlocks[i]) => InOrder(s, i, low)
         /\ Free(s, {"piece"}) => InOrder(s, i, NumBlocks[i])
<1>1. NumBlocks[i] \in Nat /\ Blocks(i) = 0 .. NumBlocks[i] - 1
  BY BlockNumbers DEF Blocks
<1>2. ASSUME InOrder(s, i, NumBlocks[i])  PROVE \A k \in DOMAIN s : Foreign(s[k], i)
  BY <1>1, <1>2 DEF InOrder, Foreign
<1>3. ASSUME \A k \in DOMAIN s : Foreign(s[k], i), NEW low  PROVE InOrder(s, i, low)
  BY <1>3 DEF InOrder, Foreign
<1>4. ASSUME NEW from \in Nat, NEW low \in Nat, low <= from, InOrder(s, i, from)  PROVE InOrder(s, i, low)
  <2>1. \A b \in Blocks(i) : from <= b => low <= b
    BY <1>1, <1>4
  <2> QED
    BY <1>4, <2>1 DEF InOrder
<1>5. ASSUME Free(s, {"piece"})  PROVE \A k \in DOMAIN s : Foreign(s[k], i)
  BY <1>5, ForeignType DEF Free
<1> QED
  BY <1>1, <1>2, <1>3, <1>4, <1>5

\* The piece may have been asked for.
Known(p, i) == i \in finished \/ (queue[p] # <<>> /\ i = Queued(p).index)

\* The peer has not let us ask yet.
NotStarted(p) ==
  /\ Free(Coming(p), {"piece"}) /\ Free(toThem[p], {"request"})
  /\ Once(toUs[p], [type |-> "unchoke"])
  /\ queue[p] # <<>> => Queued(p).haveBlocks = 0

\* The queued piece is filled slot by slot by the blocks of one request.
QueueInOrder(p) ==
  /\ Queued(p).held = 0 .. Queued(p).haveBlocks - 1 /\ Queued(p).bad = {}
  /\ InOrder(Coming(p), Queued(p).index, Queued(p).haveBlocks)
  /\ Asking(toThem[p], Queued(p).index) =>
       /\ Queued(p).haveBlocks = 0 /\ Once(toThem[p], Msg("request", Queued(p).index))
       /\ InOrder(Coming(p), Queued(p).index, NumBlocks[Queued(p).index])

Clean(p) ==
  open[p] =>
    /\ Free(toUs[p], {"choke"})
    /\ "PEER_CHOKING" \in state[p] => NotStarted(p)
    /\ "PEER_CHOKING" \notin state[p] => Free(toUs[p], {"unchoke"})
    /\ queue[p] # <<>> => QueueInOrder(p)
    /\ \A i \in Pieces : ~Known(p, i) =>
         InOrder(Coming(p), i, NumBlocks[i]) /\ ~Asking(toThem[p], i)

\* What a peer that never chokes us believes, we believe as soon as we read it.
LEMMA CleanChoking ==
  ASSUME SInv, NEW p \in Peer, ChokeAgrees(p), Clean(p), open[p]
  PROVE  /\ choking[p] <=> "PEER_CHOKING" \in state[p] /\ Free(toUs[p], {"unchoke"})
         /\ "PEER_CHOKING" \notin state[p] => ~choking[p] /\ Free(toUs[p], {"choke", "unchoke"})
<1> DEFINE now == "PEER_CHOKING" \in state[p]
<1>1. toUs[p] \in Seq(FromRemote) /\ now \in BOOLEAN
  BY ComingType
<1>2. Free(toUs[p], {"choke"}) /\ (choking[p] <=> WillChoke(toUs[p], now))
  BY DEF Clean, ChokeAgrees
<1>3. choking[p] <=> now /\ Free(toUs[p], {"unchoke"})
  <2> HIDE DEF now
  <2> QED
    BY <1>1, <1>2, WillChokeFree
<1>4. ASSUME ~now  PROVE Free(toUs[p], {"choke", "unchoke"})
  <2>1. Free(toUs[p], {"unchoke"})
    BY <1>4 DEF Clean
  <2> QED
    BY <1>2, <2>1 DEF Free
<1> QED
  BY <1>3, <1>4

\* The next block of the queued piece is the one that comes first.
LEMMA HeadBlock ==
  ASSUME SInv, NEW p \in Peer, OneRequest(p), ChokeAgrees(p), BlocksComing(p), Clean(p),
         NEW w, Takes(p, "piece", w), queue[p] # <<>>, First(p).index = Queued(p).index
  PROVE  /\ First(p) = BlockMessage(Queued(p).index, Queued(p).haveBlocks)
         /\ ~Asking(toThem[p], Queued(p).index)
<1> DEFINE i == Queued(p).index
           n == Queued(p).haveBlocks
           b == First(p).block
           s == Coming(p)
<1>1. open[p] /\ s # <<>> /\ Head(s) = First(p) /\ First(p).type = "piece" /\ First(p) \in FromRemote
  BY ComingTakes DEF Takes
<1>2. i \in Pieces /\ n \in Nat /\ n < NumBlocks[i] /\ n \in Blocks(i)
  BY QueuedOnly, BlockNumbers DEF Blocks
<1>3. First(p) = BlockMessage(i, b) /\ b \in Blocks(i)
  BY <1>1, <1>2, FromRemoteFields, BlockNumbers DEF Blocks
<1>4. s \in Seq(FromRemote) /\ DOMAIN s = 1 .. Len(s) /\ Len(s) \in Nat \ {0} /\ Head(s) = s[1]
  <2>1. s \in Seq(FromRemote)
    BY ComingType
  <2> HIDE DEF s
  <2> QED
    BY <1>1, <2>1, TailElements
<1>5. 1 \in DOMAIN s /\ s[1] = BlockMessage(i, b) /\ s[1].type = "piece"
  BY <1>1, <1>3, <1>4
<1>6. "PEER_CHOKING" \notin state[p]
  <2>1. ~Free(s, {"piece"})
    BY <1>5 DEF Free
  <2> QED
    BY <1>1, <2>1 DEF Clean, NotStarted
<1>7. ~choking[p] /\ Free(toUs[p], {"choke", "unchoke"})
  BY <1>1, <1>6, CleanChoking
<1>8. QueueInOrder(p)
  BY <1>1 DEF Clean
<1>9. ~Asking(toThem[p], i)
  <2>1. ASSUME Asking(toThem[p], i)  PROVE FALSE
    <3>1. InOrder(s, i, NumBlocks[i])
      BY <1>8, <2>1 DEF QueueInOrder
    <3>2. Foreign(s[1], i)
      BY <1>2, <1>5, <3>1, NoBlocks
    <3> QED
      BY <1>3, <1>5, <3>2 DEF Foreign
  <2> QED
    BY <2>1
<1>10. Complete(s, i, n)
  BY <1>1, <1>7, <1>9 DEF BlocksComing
<1>11. InOrder(s, i, n)
  BY <1>8 DEF QueueInOrder
<1>12. PICK k \in DOMAIN s : s[k] = BlockMessage(i, n)
  BY <1>2, <1>10 DEF Complete
<1> HIDE DEF s
<1>13. n <= b
  BY <1>3, <1>5, <1>11 DEF InOrder
<1>14. CASE k = 1
  BY <1>1, <1>4, <1>12, <1>9, <1>14
<1>15. CASE k # 1
  <2>1. 1 < k
    BY <1>4, <1>12, <1>15
  <2>2. b < n
    BY <1>2, <1>3, <1>5, <1>11, <1>12, <2>1 DEF InOrder
  <2>3. b \in Nat
    BY <1>2, <1>3, BlockNumbers
  <2> QED
    BY <1>2, <1>13, <2>2, <2>3
<1> QED
  BY <1>14, <1>15

\* The block is stored in the next slot, and the last one completes the right piece.
LEMMA BlockInOrder ==
  ASSUME SInv, NEW p \in Peer, OneRequest(p), ChokeAgrees(p), BlocksComing(p), Clean(p),
         NEW w, Takes(p, "piece", w), queue[p] # <<>>, First(p).index = Queued(p).index
  PROVE  /\ BlockTaken(p).index = Queued(p).index
         /\ BlockTaken(p).haveBlocks = Queued(p).haveBlocks + 1
         /\ BlockTaken(p).held = 0 .. Queued(p).haveBlocks
         /\ BlockTaken(p).bad = {}
         /\ BlockTaken(p).haveBlocks = NumBlocks[Queued(p).index] => HashMatches(BlockTaken(p))
<1> DEFINE n == Queued(p).haveBlocks
           i == Queued(p).index
<1>1. First(p).block = n
  BY HeadBlock DEF BlockMessage
<1>2. open[p]
  BY DEF Takes
<1>3. Queued(p).held = 0 .. n - 1 /\ Queued(p).bad = {}
  BY <1>2 DEF Clean, QueueInOrder
<1>4. n \in Nat /\ i \in Pieces
  BY QueuedOnly
<1>5. (0 .. n - 1) \cup {n} = 0 .. n
  BY <1>4
<1>6. /\ BlockTaken(p).index = i /\ BlockTaken(p).haveBlocks = n + 1
      /\ BlockTaken(p).held = 0 .. n /\ BlockTaken(p).bad = {}
  BY <1>1, <1>3, <1>5 DEF BlockTaken, Store
<1>7. ASSUME n + 1 = NumBlocks[i]  PROVE HashMatches(BlockTaken(p))
  <2>1. Blocks(i) = 0 .. n
    BY <1>4, <1>7 DEF Blocks
  <2> QED
    BY <1>6, <2>1 DEF HashMatches, Content
<1> QED
  BY <1>6, <1>7

\* What reading a message leaves, whatever the message and what is written.
LEMMA CleanTail ==
  ASSUME SInv, NEW p \in Peer, Clean(p), NEW type, NEW w \in Seq(ToRemote), Takes(p, type, w)
  PROVE  /\ Coming(p)' = Tail(Coming(p))
         /\ Free(toUs'[p], {"choke"})
         /\ Free(toUs[p], {"unchoke"}) => Free(toUs'[p], {"unchoke"})
         /\ Free(Coming(p), {"piece"}) => Free(Coming(p)', {"piece"})
         /\ Once(toUs[p], [type |-> "unchoke"]) => Once(toUs'[p], [type |-> "unchoke"])
         /\ \A i \in Pieces, from \in Nat : InOrder(Coming(p), i, from) => InOrder(Coming(p)', i, from)
         /\ \A i : Asking(toThem'[p], i) <=> Asking(toThem[p], i) \/ Asking(w, i)
         /\ open[p] /\ type # "choke"
<1>1. /\ open[p] /\ toUs[p] # <<>> /\ Head(toUs[p]).type = type /\ toUs'[p] = Tail(toUs[p])
      /\ toThem'[p] = toThem[p] \o w
  BY DEF Takes
<1>2. /\ toUs[p] \in Seq(FromRemote) /\ Coming(p) \in Seq(FromRemote) /\ toThem[p] \in Seq(ToRemote)
  BY ComingType DEF SInv, WireInv, RemoteTypes
<1>3. Coming(p) # <<>> /\ Coming(p)' = Tail(Coming(p))
  BY ComingTakes
<1>4. Free(toUs[p], {"choke"})
  BY <1>1 DEF Clean
<1>5. Free(toUs'[p], {"choke"}) /\ type # "choke"
  BY <1>4, FreeAfterTakes
<1>6. Free(toUs[p], {"unchoke"}) => Free(toUs'[p], {"unchoke"})
  BY FreeAfterTakes
<1>7. Free(Coming(p), {"piece"}) => Free(Tail(Coming(p)), {"piece"})
  BY <1>2, <1>3, FreeTail
<1>8. Once(toUs[p], [type |-> "unchoke"]) => Once(Tail(toUs[p]), [type |-> "unchoke"])
  BY <1>1, <1>2, OnceLists
<1>9. \A i \in Pieces, from \in Nat : InOrder(Coming(p), i, from) => InOrder(Tail(Coming(p)), i, from)
  BY <1>2, <1>3, TailBlocks
<1>10. \A i : Asking(toThem[p] \o w, i) <=> Asking(toThem[p], i) \/ Asking(w, i)
  BY <1>2, AskingLists
<1> QED
  BY <1>1, <1>3, <1>5, <1>6, <1>7, <1>8, <1>9, <1>10

\* A message that writes no request and keeps what is queued, or drops a piece that is
\* finished.
LEMMA CleanSilent ==
  ASSUME SInv, NEW p \in Peer, Clean(p), NEW type, type # "unchoke", NEW w \in Seq(ToRemote),
         Takes(p, type, w), Free(w, {"request"}),
         "PEER_CHOKING" \in state'[p] <=> "PEER_CHOKING" \in state[p],
         \A i \in Pieces : Known(p, i) => Known(p, i)',
         queue'[p] # <<>> => /\ QueueInOrder(p)'
                             /\ "PEER_CHOKING" \in state[p] => Queued(p)'.haveBlocks = 0
  PROVE  Clean(p)'
<1>1. \A i : ~Asking(w, i)
  BY DEF Free, Asking, Msg
<1>2. Free(toThem[p], {"request"}) => Free(toThem'[p], {"request"})
  BY FreeAfterTakes
<1>3. ASSUME "PEER_CHOKING" \in state'[p]  PROVE NotStarted(p)'
  <2>1. NotStarted(p)
    BY <1>3, CleanTail DEF Clean
  <2> QED
    BY <1>2, <1>3, <2>1, CleanTail DEF NotStarted
<1>4. ASSUME "PEER_CHOKING" \notin state'[p]  PROVE Free(toUs'[p], {"unchoke"})
  BY <1>4, CleanTail DEF Clean
<1>5. ASSUME NEW i \in Pieces, ~Known(p, i)'
      PROVE  InOrder(Coming(p)', i, NumBlocks[i]) /\ ~Asking(toThem'[p], i)
  <2>1. InOrder(Coming(p), i, NumBlocks[i]) /\ ~Asking(toThem[p], i)
    BY <1>5, CleanTail DEF Clean
  <2>2. NumBlocks[i] \in Nat
    BY BlockNumbers
  <2> QED
    BY <1>1, <2>1, <2>2, CleanTail
<1>6. Free(toUs'[p], {"choke"})
  BY CleanTail
<1> QED
  BY <1>3, <1>4, <1>5, <1>6 DEF Clean

\* Everything known is done when the next piece is chosen, so nothing of it is on its way.
LEMMA CleanAsks ==
  ASSUME SInv, NEW p \in Peer, Clean(p), NEW type, type # "unchoke", NEW done, AsksNext(p, type, done),
         \A i \in Pieces : Known(p, i) => i \in done /\ i \in finished'
  PROVE  Clean(p)'
<1>1. \A i \in Pieces : Known(p, i) => Known(p, i)'
  BY DEF Known
<1>2. CASE Takes(p, type, <<>>) /\ queue'[p] = <<>> /\ state'[p] = state[p]
  BY <1>1, <1>2, CleanSilent, WrittenTypes, FreeEmpty
<1>3. ASSUME NEW j \in Pieces \ done, Takes(p, type, Ask(p, j)), queue'[p] = <<NewEntry(j)>>,
             state'[p] = state[p] \cup {"AM_INTERESTED"}
      PROVE  Clean(p)'
  <2> DEFINE w == Ask(p, j)
  <2>1. w \in Seq(ToRemote) /\ toThem[p] \in Seq(ToRemote) /\ toThem'[p] = toThem[p] \o w
    BY <1>3, WrittenTypes DEF Takes, SInv, WireInv, RemoteTypes
  <2> HIDE DEF w
  <2>2. "PEER_CHOKING" \in state'[p] <=> "PEER_CHOKING" \in state[p]
    BY <1>3
  <2>3. /\ queue'[p] # <<>> /\ Queued(p)'.index = j /\ Queued(p)'.haveBlocks = 0
        /\ Queued(p)'.held = {} /\ Queued(p)'.bad = {}
    BY <1>3 DEF Queued, NewEntry
  <2>4. open[p] /\ ~Known(p, j)
    BY <1>3 DEF Takes
  <2>5. InOrder(Coming(p), j, NumBlocks[j]) /\ ~Asking(toThem[p], j) /\ NumBlocks[j] \in Nat
    BY <2>4, BlockNumbers DEF Clean
  <2>6. \A i : Asking(w, i) => i = j
    BY AskingWritten DEF w
  <2>7. /\ InOrder(Coming(p)', j, NumBlocks[j])
        /\ \A i : Asking(toThem'[p], i) <=> Asking(toThem[p], i) \/ Asking(w, i)
    BY <1>3, <2>1, <2>5, CleanTail DEF w
  <2>8. ASSUME "PEER_CHOKING" \in state'[p]  PROVE NotStarted(p)'
    <3>1. NotStarted(p)
      BY <2>2, <2>4, <2>8 DEF Clean
    <3>2. Free(w, {"request"})
      BY <2>2, <2>8, FreeWritten DEF w
    <3>3. Free(toThem'[p], {"request"})
      BY <2>1, <3>1, <3>2, FreeConcat DEF NotStarted
    <3>4. Free(Coming(p)', {"piece"}) /\ Once(toUs'[p], [type |-> "unchoke"])
      BY <1>3, <2>1, <3>1, CleanTail DEF NotStarted, w
    <3> QED
      BY <2>3, <3>3, <3>4 DEF NotStarted
  <2>9. ASSUME "PEER_CHOKING" \notin state'[p]  PROVE Free(toUs'[p], {"unchoke"})
    BY <1>3, <2>1, <2>2, <2>4, <2>9, CleanTail DEF Clean, w
  <2>10. QueueInOrder(p)'
    <3>1. Queued(p)'.held = 0 .. Queued(p)'.haveBlocks - 1
      BY <2>3
    <3>2. InOrder(Coming(p)', j, 0)
      BY <2>7, NoBlocks
    <3>3. Once(toThem'[p], Msg("request", j))
      <4>1. Once(w, Msg("request", j))
        <5>1. Signal("interested") # Msg("request", j)
          BY DEF Signal, Msg
        <5> QED
          BY <5>1 DEF w, Ask, Once
      <4>2. \A k \in DOMAIN toThem[p] : toThem[p][k] # Msg("request", j)
        BY <2>5 DEF Asking
      <4> QED
        BY <2>1, <4>1, <4>2, OnceLists
    <3> QED
      BY <2>3, <2>7, <3>1, <3>2, <3>3 DEF QueueInOrder
  <2>11. ASSUME NEW i \in Pieces, ~Known(p, i)'
         PROVE  InOrder(Coming(p)', i, NumBlocks[i]) /\ ~Asking(toThem'[p], i)
    <3>1. i # j /\ ~Known(p, i)
      BY <1>1, <2>3, <2>11 DEF Known
    <3>2. InOrder(Coming(p), i, NumBlocks[i]) /\ ~Asking(toThem[p], i) /\ NumBlocks[i] \in Nat
      BY <2>4, <3>1, BlockNumbers DEF Clean
    <3> QED
      BY <1>3, <2>1, <2>6, <2>7, <3>1, <3>2, CleanTail DEF w
  <2>12. Free(toUs'[p], {"choke"})
    BY <1>3, <2>1, CleanTail DEF w
  <2> QED
    BY <2>8, <2>9, <2>10, <2>11, <2>12 DEF Clean
<1> QED
  BY <1>2, <1>3 DEF AsksNext

LEMMA CleanTakes ==
  ASSUME SInv, NEW p \in Peer, OneRequest(p), ChokeAgrees(p), BlocksComing(p), Clean(p),
         finished \subseteq finished', TakesMessage(p)
  PROVE  Clean(p)'
<1> DEFINE i == Queued(p).index
           n == Queued(p).haveBlocks
<1>1. toThem[p] \in Seq(ToRemote) /\ <<>> \in Seq(ToRemote) /\ Coming(p) \in Seq(FromRemote)
  BY WrittenTypes, ComingType DEF SInv, WireInv, RemoteTypes
<1>2. CASE TakesChoke(p)
  BY <1>1, <1>2, CleanTail DEF TakesChoke
<1>3. CASE TakesUnchoke(p)
  <2> DEFINE w == RequestsFor(queue[p])
  <2>1. /\ Takes(p, "unchoke", w) /\ w \in Seq(ToRemote) /\ toThem'[p] = toThem[p] \o w
        /\ queue'[p] = queue[p] /\ "PEER_CHOKING" \notin state'[p]
    BY <1>3, WrittenTypes DEF TakesUnchoke, Takes
  <2> HIDE DEF w
  <2>2. open[p] /\ toUs[p] # <<>> /\ toUs'[p] = Tail(toUs[p]) /\ Head(toUs[p]).type = "unchoke"
    BY <2>1 DEF Takes
  <2>3. toUs[p] \in Seq(FromRemote) /\ Head(toUs[p]) = [type |-> "unchoke"]
    <3>1. toUs[p] \in Seq(FromRemote) /\ Head(toUs[p]) \in FromRemote
      BY <2>2, ComingType, TailElements
    <3> QED
      BY <2>2, <3>1 DEF FromRemote, BlockMessages
  <2>4. NotStarted(p)
    <3>1. ~Free(toUs[p], {"unchoke"})
      BY <2>2, <2>3, FreeTail
    <3> QED
      BY <2>2, <3>1 DEF Clean
  <2>5. Free(toUs'[p], {"unchoke"})
    <3>1. toUs'[p] \in Seq(FromRemote) /\ \A k \in DOMAIN toUs'[p] : toUs'[p][k] # [type |-> "unchoke"]
      BY <2>2, <2>3, <2>4, OnceLists, TailElements DEF NotStarted
    <3>2. \A k \in DOMAIN toUs'[p] : toUs'[p][k] \in FromRemote
      BY <3>1, LenProperties, ElementOfSeq
    <3> QED
      BY <3>1, <3>2 DEF FromRemote, BlockMessages, Free
  <2>6. Free(Coming(p)', {"piece"}) /\ Free(toUs'[p], {"choke"})
    BY <2>1, <2>4, CleanTail DEF NotStarted
  <2>7. \A k \in Pieces : InOrder(Coming(p)', k, NumBlocks[k])
    BY <2>6, NoBlocks
  <2>8. \A k : ~Asking(toThem[p], k)
    BY <2>4 DEF NotStarted, Asking, Free, Msg
  <2>9. \A k : Asking(toThem'[p], k) <=> Asking(w, k)
    BY <2>1, <2>8, CleanTail
  <2>10. CASE queue[p] = <<>>
    <3>1. \A k : ~Asking(w, k)
      BY <2>10 DEF w, RequestsFor, Asking
    <3> QED
      BY <2>1, <2>5, <2>6, <2>7, <2>9, <2>10, <3>1 DEF Clean
  <2>11. CASE queue[p] # <<>>
    <3>1. queue[p] = <<Queued(p)>> /\ Queued(p)' = Queued(p) /\ i \in Pieces /\ n = 0
      BY <2>1, <2>4, <2>11, QueuedOnly DEF Queued, NotStarted
    <3>2. \A k : Asking(w, k) => k = i
      BY <3>1, AskingWritten DEF w
    <3>3. \A k \in Pieces : ~Known(p, k)' => k # i
      BY <2>1, <2>11, <3>1 DEF Known
    <3>4. Once(toThem'[p], Msg("request", i))
      <4>1. Once(w, Msg("request", i))
        BY <3>1 DEF w, RequestsFor, Once
      <4>2. \A k \in DOMAIN toThem[p] : toThem[p][k] # Msg("request", i)
        BY <2>8 DEF Asking
      <4> QED
        BY <1>1, <2>1, <4>1, <4>2, OnceLists
    <3>5. QueueInOrder(p)
      BY <2>2, <2>11 DEF Clean
    <3>6. QueueInOrder(p)'
      <4>1. InOrder(Coming(p)', i, 0)
        BY <2>7, <3>1, NoBlocks
      <4> QED
        BY <2>7, <3>1, <3>4, <3>5, <4>1 DEF QueueInOrder
    <3>7. \A k \in Pieces : ~Known(p, k)' => ~Asking(toThem'[p], k)
      BY <2>9, <3>2, <3>3
    <3> QED
      BY <2>1, <2>5, <2>6, <2>7, <3>6, <3>7 DEF Clean
  <2> QED
    BY <2>10, <2>11
<1>4. CASE TakesHave(p)
  <2>1. Takes(p, "have", <<>>) /\ queue'[p] = queue[p] /\ state'[p] = state[p]
    BY <1>4 DEF TakesHave
  <2>2. \A k \in Pieces : Known(p, k) => Known(p, k)'
    BY <2>1 DEF Known, Queued
  <2>3. ASSUME queue'[p] # <<>>
        PROVE  QueueInOrder(p)' /\ ("PEER_CHOKING" \in state[p] => Queued(p)'.haveBlocks = 0)
    <3>1. queue[p] # <<>> /\ Queued(p)' = Queued(p) /\ open[p]
      BY <2>1, <2>3 DEF Queued, Takes
    <3>2. /\ QueueInOrder(p) /\ ("PEER_CHOKING" \in state[p] => n = 0)
          /\ i \in Pieces /\ n \in Nat /\ NumBlocks[i] \in Nat
      BY <3>1, QueuedOnly, BlockNumbers DEF Clean, NotStarted
    <3>3. toThem'[p] = toThem[p]
      BY <1>1, <2>1, ConcatEmptySeq DEF Takes
    <3>4. /\ InOrder(Coming(p)', i, n)
          /\ InOrder(Coming(p), i, NumBlocks[i]) => InOrder(Coming(p)', i, NumBlocks[i])
      BY <1>1, <2>1, <3>2, CleanTail DEF QueueInOrder
    <3> QED
      BY <3>1, <3>2, <3>3, <3>4 DEF QueueInOrder
  <2> QED
    BY <1>1, <2>1, <2>2, <2>3, CleanSilent, FreeEmpty
<1>5. CASE TakesBitfield(p)
  <2>1. \A k \in Pieces : Known(p, k) => k \in finished /\ k \in finished'
    BY <1>5 DEF TakesBitfield, Known
  <2> QED
    BY <1>5, <2>1, CleanAsks DEF TakesBitfield
<1>6. CASE TakesCancelled(p)
  <2>1. /\ queue[p] = <<Queued(p)>> /\ i \in finished /\ queue'[p] = <<>> /\ state'[p] = state[p]
        /\ Takes(p, "piece", <<Msg("cancel", i)>>)
    BY <1>6 DEF TakesCancelled
  <2>2. \A k \in Pieces : Known(p, k) => Known(p, k)'
    BY <2>1 DEF Known
  <2>3. <<Msg("cancel", i)>> \in Seq(ToRemote)
    BY <2>1, WrittenTypes
  <2>4. Free(<<Msg("cancel", i)>>, {"request"})
    BY DEF Free, Msg
  <2> QED
    BY <2>1, <2>2, <2>3, <2>4, CleanSilent
<1>7. CASE TakesStored(p)
  <2>1. /\ queue[p] = <<Queued(p)>> /\ queue[p] # <<>> /\ First(p).index = i
        /\ Takes(p, "piece", <<>>) /\ queue'[p] = <<BlockTaken(p)>> /\ state'[p] = state[p]
    BY <1>7 DEF TakesStored
  <2>2. /\ BlockTaken(p).index = i /\ BlockTaken(p).haveBlocks = n + 1
        /\ BlockTaken(p).held = 0 .. n /\ BlockTaken(p).bad = {}
    BY <2>1, BlockInOrder
  <2>3. Queued(p)' = BlockTaken(p)
    BY <2>1 DEF Queued
  <2>4. \A k \in Pieces : Known(p, k) => Known(p, k)'
    BY <2>1, <2>2, <2>3 DEF Known
  <2>5. First(p) = BlockMessage(i, n) /\ ~Asking(toThem[p], i)
    BY <2>1, HeadBlock
  <2>6. i \in Pieces /\ n \in Nat /\ n \in Blocks(i)
    <3>1. i \in Pieces /\ n \in Nat /\ n < NumBlocks[i]
      BY <2>1, QueuedOnly
    <3> QED
      BY <3>1, BlockNumbers DEF Blocks
  <2>7. /\ open[p] /\ Coming(p) # <<>> /\ Head(Coming(p)) = First(p) /\ Coming(p)' = Tail(Coming(p))
        /\ First(p).type = "piece"
    BY <2>1, ComingTakes DEF Takes
  <2>8. QueueInOrder(p)'
    <3>1. InOrder(Coming(p), i, n)
      BY <2>1, <2>7 DEF Clean, QueueInOrder
    <3>2. InOrder(Coming(p)', i, n + 1)
      BY <1>1, <2>5, <2>6, <2>7, <3>1, TailBlocks
    <3>3. ~Asking(toThem'[p], i)
      BY <1>1, <2>1, <2>5, CleanTail, AskingWritten
    <3>4. 0 .. n = 0 .. (n + 1) - 1
      BY <2>6
    <3> QED
      BY <2>2, <2>3, <3>2, <3>3, <3>4 DEF QueueInOrder
  <2>9. "PEER_CHOKING" \notin state[p]
    <3>1. ~Free(Coming(p), {"piece"})
      BY <1>1, <2>7, FreeTail
    <3> QED
      BY <2>7, <3>1 DEF Clean, NotStarted
  <2> QED
    BY <1>1, <2>1, <2>4, <2>8, <2>9, CleanSilent, FreeEmpty
<1>8. CASE TakesLast(p)
  <2>1. /\ queue[p] = <<Queued(p)>> /\ queue[p] # <<>> /\ First(p).index = i
        /\ BlockTaken(p).haveBlocks = NumBlocks[i] /\ AsksNext(p, "piece", finished')
    BY <1>8 DEF TakesLast
  <2>2. \E w : Takes(p, "piece", w)
    BY <2>1 DEF AsksNext
  <2>3. HashMatches(BlockTaken(p))
    BY <2>1, <2>2, BlockInOrder
  <2>4. finished' = finished \cup {i}
    BY <1>8, <2>3 DEF TakesLast
  <2>5. \A k \in Pieces : Known(p, k) => k \in finished'
    BY <2>4 DEF Known
  <2> QED
    BY <2>1, <2>5, CleanAsks
<1> QED
  BY <1>2, <1>3, <1>4, <1>5, <1>6, <1>7, <1>8 DEF TakesMessage

\* Elements of the second list are taken for it.
LEMMA ConcatSome ==
  ASSUME NEW S, NEW s \in Seq(S), NEW t \in Seq(S), NEW u \in Seq(Range(t))
  PROVE  \A k \in DOMAIN (s \o u) : \E m \in DOMAIN (s \o t) : (s \o t)[m] = (s \o u)[k]
<1>1. /\ Len(s) \in Nat /\ DOMAIN s = 1 .. Len(s)
      /\ Len(t) \in Nat /\ DOMAIN t = 1 .. Len(t)
      /\ DOMAIN (s \o t) = 1 .. Len(s) + Len(t)
      /\ \A m \in 1 .. Len(s) : (s \o t)[m] = s[m]
      /\ \A m \in 1 .. Len(t) : (s \o t)[Len(s) + m] = t[m]
  BY ConcatElements
<1>2. \A x \in Range(t) : x \in S /\ \E m \in 1 .. Len(t) : t[m] = x
  BY <1>1, ElementOfSeq DEF Range
<1>3. Len(u) \in Nat /\ \A k \in 1 .. Len(u) : u[k] \in Range(t)
  BY LenProperties, ElementOfSeq
<1>4. u \in Seq(S)
  <2>1. u \in [1 .. Len(u) -> Range(t)]
    BY LenProperties
  <2>2. u \in [1 .. Len(u) -> S]
    BY <1>2, <1>3, <2>1
  <2> QED
    BY <1>3, <2>2
<1>5. /\ DOMAIN (s \o u) = 1 .. Len(s) + Len(u)
      /\ \A m \in 1 .. Len(s) : (s \o u)[m] = s[m]
      /\ \A m \in 1 .. Len(u) : (s \o u)[Len(s) + m] = u[m]
  BY <1>4, ConcatElements
<1>6. SUFFICES ASSUME NEW k \in 1 .. Len(s) + Len(u)
               PROVE  \E m \in DOMAIN (s \o t) : (s \o t)[m] = (s \o u)[k]
  BY <1>5
<1>7. CASE k \in 1 .. Len(s)
  <2>1. k \in DOMAIN (s \o t) /\ (s \o t)[k] = s[k] /\ (s \o u)[k] = s[k]
    BY <1>1, <1>5, <1>7
  <2> QED
    BY <2>1
<1>8. CASE k \notin 1 .. Len(s)
  <2> DEFINE j == k - Len(s)
  <2>1. j \in 1 .. Len(u) /\ Len(s) + j = k
    BY <1>1, <1>3, <1>8
  <2> HIDE DEF j
  <2>2. PICK m \in 1 .. Len(t) : t[m] = u[j]
    BY <1>2, <1>3, <2>1
  <2>3. Len(s) + m \in DOMAIN (s \o t) /\ (s \o t)[Len(s) + m] = u[j]
    BY <1>1, <2>2
  <2>4. (s \o u)[k] = u[j]
    BY <1>5, <2>1
  <2> QED
    BY <2>3, <2>4
<1> QED
  BY <1>7, <1>8

LEMMA CleanActs ==
  ASSUME SInv, NEW p \in Peer, OneRequest(p), ChokeAgrees(p), Clean(p), MaxChokes = 0, chokes \in Nat,
         finished \subseteq finished', RemoteActs(p)
  PROVE  Clean(p)'
<1> DEFINE i == Queued(p).index
           n == Queued(p).haveBlocks
<1>1. SUFFICES ASSUME open'[p]  PROVE Clean(p)'
  BY DEF Clean
<1>2. /\ open[p] /\ queue'[p] = queue[p] /\ state'[p] = state[p] /\ Queued(p)' = Queued(p)
      /\ \A k \in Pieces : Known(p, k) => Known(p, k)'
  BY <1>1 DEF RemoteActs, UnchokesInterested, ReadsRequest, ReadsCancel, Ignores, SendsBlock,
              Chokes, Unchokes, Announces, Reads, OursUnchanged, Queued, Known
<1>3. /\ toThem[p] \in Seq(ToRemote) /\ toUs[p] \in Seq(FromRemote) /\ pending[p] \in Seq(FromRemote)
      /\ Coming(p) \in Seq(FromRemote)
  BY ComingType DEF SInv, WireInv, RemoteTypes
<1>4. /\ Free(toUs[p], {"choke"})
      /\ "PEER_CHOKING" \in state[p] => NotStarted(p)
      /\ "PEER_CHOKING" \notin state[p] => Free(toUs[p], {"unchoke"})
      /\ queue[p] # <<>> => QueueInOrder(p)
      /\ \A k \in Pieces : ~Known(p, k) =>
           InOrder(Coming(p), k, NumBlocks[k]) /\ ~Asking(toThem[p], k)
  BY <1>2 DEF Clean
<1>5. queue[p] # <<>> => i \in Pieces /\ n \in Nat
  BY QueuedOnly
<1>6. \A k \in Pieces : NumBlocks[k] \in Nat
  BY BlockNumbers
<1>7. ASSUME toThem'[p] = toThem[p] \/ (toThem[p] # <<>> /\ toThem'[p] = Tail(toThem[p]))
      PROVE  /\ \A k : Asking(toThem'[p], k) => Asking(toThem[p], k)
             /\ \A k : Once(toThem[p], Msg("request", k)) => Once(toThem'[p], Msg("request", k))
             /\ Free(toThem[p], {"request"}) => Free(toThem'[p], {"request"})
  BY <1>3, <1>7, AskingLists, OnceLists, FreeTail
\* Nothing of a piece is added to what is on its way.
<1>8. ASSUME Free(toUs'[p], {"choke"}),
             "PEER_CHOKING" \in state[p] => Once(toUs'[p], [type |-> "unchoke"]),
             "PEER_CHOKING" \notin state[p] => Free(toUs'[p], {"unchoke"}),
             Free(Coming(p), {"piece"}) => Free(Coming(p)', {"piece"}),
             \A k \in Pieces, from \in Nat : InOrder(Coming(p), k, from) => InOrder(Coming(p)', k, from),
             toThem'[p] = toThem[p] \/ (toThem[p] # <<>> /\ toThem'[p] = Tail(toThem[p]))
      PROVE  Clean(p)'
  <2>1. "PEER_CHOKING" \in state'[p] => NotStarted(p)'
    BY <1>2, <1>4, <1>7, <1>8 DEF NotStarted
  <2>2. queue'[p] # <<>> => QueueInOrder(p)'
    BY <1>2, <1>4, <1>5, <1>6, <1>7, <1>8 DEF QueueInOrder
  <2>3. ASSUME NEW k \in Pieces, ~Known(p, k)'
        PROVE  InOrder(Coming(p)', k, NumBlocks[k]) /\ ~Asking(toThem'[p], k)
    BY <1>2, <1>4, <1>6, <1>7, <1>8, <2>3
  <2> QED
    BY <1>2, <1>8, <2>1, <2>2, <2>3 DEF Clean
\* A message that is no block is sent.
<1>9. ASSUME NEW m \in FromRemote, m.type \notin {"choke", "piece"}, toUs'[p] = Append(toUs[p], m),
             pending'[p] = pending[p], m.type = "unchoke" => choking[p],
             toThem'[p] = toThem[p] \/ (toThem[p] # <<>> /\ toThem'[p] = Tail(toThem[p]))
      PROVE  Clean(p)'
  <2>1. Free(toUs'[p], {"choke"})
    BY <1>4, <1>9, FreeAfterSends
  <2>2. "PEER_CHOKING" \in state[p] => Once(toUs'[p], [type |-> "unchoke"])
    <3>1. ASSUME "PEER_CHOKING" \in state[p], m.type # "unchoke"
          PROVE  Once(toUs'[p], [type |-> "unchoke"])
      <4>1. m # [type |-> "unchoke"] /\ Once(toUs[p], [type |-> "unchoke"])
        BY <1>4, <3>1 DEF NotStarted
      <4> QED
        BY <1>3, <1>9, <4>1, OnceLists
    <3>2. ASSUME m.type = "unchoke"  PROVE Once(toUs'[p], [type |-> "unchoke"])
      <4>1. Free(toUs[p], {"unchoke"}) /\ "PEER_CHOKING" \in state[p]
        BY <1>2, <1>9, <3>2, CleanChoking
      <4>2. \A k \in DOMAIN toUs[p] : toUs[p][k] # [type |-> "unchoke"]
        BY <4>1 DEF Free
      <4>3. Once(toUs[p], [type |-> "unchoke"])
        BY <4>2 DEF Once
      <4> QED
        BY <1>3, <1>9, <4>2, <4>3, OnceLists
    <3> QED
      BY <3>1, <3>2
  <2>3. "PEER_CHOKING" \notin state[p] => Free(toUs'[p], {"unchoke"})
    <3>1. "PEER_CHOKING" \notin state[p] => m.type # "unchoke"
      BY <1>2, <1>9, CleanChoking
    <3> QED
      BY <1>4, <1>9, <3>1, FreeAfterSends
  <2>4. Coming(p)' = Append(toUs[p], m) \o pending[p]
    BY <1>9 DEF Coming
  <2>5. ASSUME Free(Coming(p), {"piece"})  PROVE Free(Coming(p)', {"piece"})
    <3>1. Free(toUs[p], {"piece"}) /\ Free(pending[p], {"piece"})
      BY <1>3, <2>5, FreeConcat DEF Coming
    <3>2. Free(Append(toUs[p], m), {"piece"}) /\ Append(toUs[p], m) \in Seq(FromRemote)
      BY <1>3, <1>9, <3>1, FreeAppend, AppendElements
    <3>3. Free(Append(toUs[p], m) \o pending[p], {"piece"})
      BY <1>3, <3>1, <3>2, FreeConcat
    <3> QED
      BY <2>4, <3>3
  <2>6. ASSUME NEW k \in Pieces, NEW from \in Nat, InOrder(Coming(p), k, from)
        PROVE  InOrder(Coming(p)', k, from)
    <3>1. Foreign(m, k)
      BY <1>9, ForeignType
    <3>2. InOrder(toUs[p] \o pending[p], k, from)
      BY <2>6 DEF Coming
    <3>3. InOrder(Append(toUs[p], m) \o pending[p], k, from)
      BY <1>3, <3>1, <3>2, InsertBlocks
    <3> QED
      BY <2>4, <3>3
  <2> QED
    BY <1>8, <1>9, <2>1, <2>2, <2>3, <2>5, <2>6
<1>10. CASE UnchokesInterested(p) \/ Unchokes(p)
  <2>1. PICK m \in FromRemote : m.type = "unchoke" /\ toUs'[p] = Append(toUs[p], m)
    BY <1>10, RemoteSends
  <2>2. /\ choking[p] /\ pending'[p] = pending[p]
        /\ toThem'[p] = toThem[p] \/ (toThem[p] # <<>> /\ toThem'[p] = Tail(toThem[p]))
    BY <1>10 DEF UnchokesInterested, Unchokes, Reads
  <2> QED
    BY <1>9, <2>1, <2>2
<1>11. CASE Announces(p)
  <2>1. PICK m \in FromRemote : m.type = "have" /\ toUs'[p] = Append(toUs[p], m)
    BY <1>11, RemoteSends
  <2> QED
    BY <1>9, <1>11, <2>1 DEF Announces
<1>12. CASE Chokes(p)
  BY <1>12 DEF Chokes
<1>13. CASE Ignores(p)
  <2>1. /\ toUs'[p] = toUs[p] /\ Coming(p)' = Coming(p)
        /\ toThem[p] # <<>> /\ toThem'[p] = Tail(toThem[p])
    BY <1>13 DEF Ignores, Reads, Coming
  <2> QED
    BY <1>4, <1>8, <2>1 DEF NotStarted
<1>14. CASE SendsBlock(p)
  <2>1. Coming(p)' = Coming(p) /\ toThem'[p] = toThem[p]
    BY <1>14, ComingSends DEF SendsBlock
  <2>2. PICK m \in FromRemote : m.type = "piece" /\ m = Head(pending[p]) /\ toUs'[p] = Append(toUs[p], m)
    BY <1>14, RemoteSends
  <2>3. "PEER_CHOKING" \notin state[p]
    <3>1. ~Free(pending[p], {"piece"})
      BY <1>3, <1>14, <2>2, FreeTail DEF SendsBlock
    <3>2. ~Free(Coming(p), {"piece"})
      BY <1>3, <3>1, FreeConcat DEF Coming
    <3> QED
      BY <1>4, <3>2 DEF NotStarted
  <2>4. Free(toUs'[p], {"choke"}) /\ Free(toUs'[p], {"unchoke"})
    BY <1>4, <2>2, <2>3, FreeAfterSends
  <2> QED
    BY <1>8, <2>1, <2>3, <2>4
<1>15. CASE ReadsCancel(p)
  <2>1. /\ toThem[p] # <<>> /\ Head(toThem[p]).type = "cancel" /\ toThem'[p] = Tail(toThem[p])
        /\ toUs'[p] = toUs[p] /\ pending'[p] \in Seq(Range(pending[p]))
    BY <1>15 DEF ReadsCancel, Reads
  <2>2. queue[p] = <<>>
    <3>1. ~Free(toThem[p], {"cancel"})
      BY <1>3, <2>1, FreeTail
    <3> QED
      BY <3>1 DEF OneRequest
  <2>3. ASSUME NEW k \in DOMAIN Coming(p)'  PROVE \E m \in DOMAIN Coming(p) : Coming(p)[m] = Coming(p)'[k]
    <3>1. Coming(p)' = toUs[p] \o pending'[p]
      BY <2>1 DEF Coming
    <3>2. \A j \in DOMAIN (toUs[p] \o pending'[p]) : \E m \in DOMAIN (toUs[p] \o pending[p]) :
            (toUs[p] \o pending[p])[m] = (toUs[p] \o pending'[p])[j]
      <4>1. \A s, t \in Seq(FromRemote) : \A u \in Seq(Range(t)) :
              \A j \in DOMAIN (s \o u) : \E m \in DOMAIN (s \o t) : (s \o t)[m] = (s \o u)[j]
        BY ConcatSome
      <4> QED
        BY <1>3, <2>1, <4>1, Zenon
    <3> QED
      BY <2>3, <3>1, <3>2 DEF Coming
  <2>4. \A k \in Pieces : InOrder(Coming(p), k, NumBlocks[k]) => InOrder(Coming(p)', k, NumBlocks[k])
    BY <2>3, NoBlocks
  <2>5. Free(Coming(p), {"piece"}) => Free(Coming(p)', {"piece"})
    BY <2>3 DEF Free
  <2>6. "PEER_CHOKING" \in state'[p] => NotStarted(p)'
    BY <1>2, <1>4, <1>7, <2>1, <2>2, <2>5 DEF NotStarted
  <2>7. ASSUME NEW k \in Pieces, ~Known(p, k)'
        PROVE  InOrder(Coming(p)', k, NumBlocks[k]) /\ ~Asking(toThem'[p], k)
    BY <1>2, <1>4, <1>7, <2>1, <2>4, <2>7
  <2> QED
    BY <1>2, <1>4, <2>1, <2>2, <2>6, <2>7 DEF Clean
<1>16. CASE ReadsRequest(p)
  <2>1. /\ toThem[p] # <<>> /\ Head(toThem[p]).type = "request" /\ toThem'[p] = Tail(toThem[p])
        /\ toUs'[p] = toUs[p]
    BY <1>16 DEF ReadsRequest, Reads
  <2>2. PICK j \in Pieces : Head(toThem[p]) = Msg("request", j)
    <3>1. Head(toThem[p]) \in ToRemote
      BY <1>3, <2>1, TailElements
    <3> QED
      BY <2>1, <3>1, ToRemoteFields
  <2>3. BlocksOf(j) \in Seq(FromRemote) /\ Coming(p)' = Coming(p) \o BlocksOf(j)
    BY <1>16, <2>2, ComingAnswers
  <2>4. "PEER_CHOKING" \notin state[p]
    <3>1. ~Free(toThem[p], {"request"})
      BY <1>3, <2>1, FreeTail
    <3> QED
      BY <1>4, <3>1 DEF NotStarted
  <2>5. Asking(toThem[p], j)
    <3>1. 1 \in DOMAIN toThem[p] /\ toThem[p][1] = Head(toThem[p])
      BY <1>3, <2>1, TailElements
    <3> QED
      BY <2>2, <3>1 DEF Asking
  <2>6. \A k \in Pieces, from \in Nat : k # j /\ InOrder(Coming(p), k, from) => InOrder(Coming(p)', k, from)
    BY <1>3, <2>3, AnswerBlocks
  <2>7. ASSUME queue[p] # <<>>  PROVE QueueInOrder(p)'
    <3>1. QueueInOrder(p) /\ i \in Pieces /\ n \in Nat
      BY <1>4, <1>5, <2>7
    <3>2. CASE i # j
      <4>1. /\ InOrder(Coming(p)', i, n)
            /\ InOrder(Coming(p), i, NumBlocks[i]) => InOrder(Coming(p)', i, NumBlocks[i])
        BY <1>6, <2>6, <3>1, <3>2 DEF QueueInOrder
      <4>2. Asking(toThem'[p], i) => Asking(toThem[p], i)
        BY <1>7, <2>1
      <4>3. Once(toThem[p], Msg("request", i)) => Once(toThem'[p], Msg("request", i))
        BY <1>7, <2>1
      <4> QED
        BY <1>2, <3>1, <4>1, <4>2, <4>3 DEF QueueInOrder
    <3>3. CASE i = j
      <4>1. n = 0 /\ Once(toThem[p], Msg("request", i)) /\ InOrder(Coming(p), i, NumBlocks[i])
        BY <2>5, <3>1, <3>3 DEF QueueInOrder
      <4>2. \A k \in DOMAIN Coming(p) : Foreign(Coming(p)[k], i)
        BY <3>1, <4>1, NoBlocks
      <4>3. InOrder(Coming(p)', i, 0)
        BY <1>3, <2>3, <3>3, <4>2, AnswerBlocks
      <4>4. ~Asking(toThem'[p], i)
        <5>1. Head(toThem[p]) = Msg("request", i)
          BY <2>2, <3>3
        <5>2. \A k \in DOMAIN Tail(toThem[p]) : Tail(toThem[p])[k] # Msg("request", i)
          <6>1. \A s \in Seq(ToRemote) : \A m :
                  s # <<>> /\ Once(s, m) /\ Head(s) = m => \A k \in DOMAIN Tail(s) : Tail(s)[k] # m
            BY OnceLists
          <6> QED
            BY <1>3, <2>1, <4>1, <5>1, <6>1, Zenon
        <5> QED
          BY <2>1, <5>2 DEF Asking
      <4> QED
        BY <1>2, <3>1, <4>1, <4>3, <4>4 DEF QueueInOrder
    <3> QED
      BY <3>2, <3>3
  <2>8. ASSUME NEW k \in Pieces, ~Known(p, k)'
        PROVE  InOrder(Coming(p)', k, NumBlocks[k]) /\ ~Asking(toThem'[p], k)
    <3>1. InOrder(Coming(p), k, NumBlocks[k]) /\ ~Asking(toThem[p], k)
      BY <1>2, <1>4, <2>8
    <3>2. k # j
      BY <2>5, <3>1
    <3> QED
      BY <1>6, <1>7, <2>1, <2>6, <3>1, <3>2
  <2> QED
    BY <1>2, <1>4, <2>1, <2>4, <2>7, <2>8 DEF Clean
<1> QED
  BY <1>10, <1>11, <1>12, <1>13, <1>14, <1>15, <1>16 DEF RemoteActs

NInv == QInv /\ chokes \in Nat /\ pieceHashMisses = 0 /\ \A p \in Peer : Clean(p)

LEMMA CleanStep ==
  ASSUME SInv, NEW p \in Peer, OneRequest(p), ChokeAgrees(p), BlocksComing(p), Clean(p),
         MaxChokes = 0, chokes \in Nat, finished \subseteq finished', SessionStep(p)
  PROVE  Clean(p)'
<1>1. CASE SessionUnchanged(p)
  <2>1. \A k \in Pieces : Known(p, k) => Known(p, k)'
    BY <1>1 DEF Known, Queued, SessionUnchanged
  <2>2. UNCHANGED <<open[p], state[p], queue[p], toUs[p], toThem[p], Queued(p), Coming(p)>>
    BY <1>1 DEF Queued, Coming, SessionUnchanged
  <2>3. NotStarted(p) => NotStarted(p)'
    BY <2>2 DEF NotStarted
  <2>4. QueueInOrder(p) => QueueInOrder(p)'
    BY <2>2 DEF QueueInOrder
  <2> QED
    BY <2>1, <2>2, <2>3, <2>4 DEF Clean
<1>2. CASE Opens(p)
  <2>1. PICK pieces \in SUBSET Pieces : toUs'[p] = <<[type |-> "bitfield", pieces |-> pieces]>>
    BY <1>2 DEF Opens
  <2>2. /\ toThem'[p] = <<>> /\ queue'[p] = <<>> /\ pending'[p] = <<>>
        /\ "PEER_CHOKING" \in state'[p]
    BY <1>2 DEF Opens, InitialState
  <2>3. Free(toUs'[p], {"choke"}) /\ Free(toUs'[p], {"piece"})
    BY <2>1 DEF Free
  <2>4. Coming(p)' = toUs'[p]
    <3>1. <<[type |-> "bitfield", pieces |-> pieces]>> \o <<>> = <<[type |-> "bitfield", pieces |-> pieces]>>
      OBVIOUS
    <3> QED
      BY <2>1, <2>2, <3>1 DEF Coming
  <2>5. Once(toUs'[p], [type |-> "unchoke"])
    BY <2>1 DEF Once
  <2>6. NotStarted(p)'
    BY <2>2, <2>3, <2>4, <2>5, FreeEmpty DEF NotStarted
  <2>7. \A k \in Pieces : InOrder(Coming(p)', k, NumBlocks[k]) /\ ~Asking(toThem'[p], k)
    <3>1. \A k \in Pieces : InOrder(Coming(p)', k, NumBlocks[k])
      BY <2>3, <2>4, NoBlocks
    <3>2. \A k : ~Asking(<<>>, k)
      BY DEF Asking
    <3> QED
      BY <2>2, <3>1, <3>2
  <2> QED
    BY <2>2, <2>3, <2>6, <2>7 DEF Clean
<1>3. CASE Ends(p)
  BY <1>3 DEF Ends, Clean
<1>4. CASE TakesMessage(p)
  BY <1>4, CleanTakes
<1>5. CASE RemoteActs(p)
  BY <1>5, CleanActs
<1> QED
  BY <1>1, <1>2, <1>3, <1>4, <1>5 DEF SessionStep

\* No complete piece fails its hash.
LEMMA CleanMisses ==
  ASSUME NInv, SwarmNext
  PROVE  finished \subseteq finished' /\ UNCHANGED pieceHashMisses
<1>1. SInv /\ \A q \in Peer : OneRequest(q) /\ ChokeAgrees(q) /\ BlocksComing(q) /\ Clean(q)
  BY DEF NInv, QInv
<1>2. /\ finished \subseteq finished'
      /\ \/ UNCHANGED pieceHashMisses
         \/ \E q \in Peer : TakesLast(q) /\ ~HashMatches(BlockTaken(q))
  BY <1>1, StepOutcome
<1>3. ASSUME NEW q \in Peer, TakesLast(q)  PROVE HashMatches(BlockTaken(q))
  <2>1. /\ queue[q] # <<>> /\ First(q).index = Queued(q).index
        /\ BlockTaken(q).haveBlocks = NumBlocks[Queued(q).index]
        /\ \E w : Takes(q, "piece", w)
    BY <1>3 DEF TakesLast, AsksNext
  <2> QED
    BY <1>1, <2>1, BlockInOrder
<1> QED
  BY <1>2, <1>3

LEMMA ChokesNat ==
  ASSUME chokes \in Nat, SwarmNext
  PROVE  chokes' \in Nat
<1>1. chokes' = chokes \/ chokes' = chokes + 1
  <2>1. PICK p \in Peer : Connect(p) \/ Deliver(p) \/ RemoteStep(p)
    BY DEF SwarmNext, RemoteStep
  <2>2. CASE Connect(p)
    BY <2>2 DEF Connect
  <2>3. CASE Deliver(p)
    BY <2>3 DEF Deliver, remoteVars
  <2>4. CASE RemoteStep(p)
    BY <2>4 DEF RemoteStep, RemoteReads, RemoteSendsBlock, RemoteChokes, RemoteUnchokes, RemoteGains
  <2> QED
    BY <2>1, <2>2, <2>3, <2>4
<1> QED
  BY <1>1

LEMMA KeepsNInv == MaxChokes = 0 => (NInv /\ [SwarmNext]_swarmVars => NInv')
<1> SUFFICES ASSUME MaxChokes = 0, NInv, [SwarmNext]_swarmVars  PROVE NInv'
  OBVIOUS
<1>1. SInv /\ \A q \in Peer : OneRequest(q) /\ ChokeAgrees(q) /\ BlocksComing(q) /\ Clean(q)
  BY DEF NInv, QInv
<1>2. QInv' /\ \A q \in Peer : SessionStep(q)
  BY <1>1, KeepsQInv, AnyStep DEF NInv
<1>3. chokes \in Nat /\ chokes' \in Nat
  BY ChokesNat DEF NInv, swarmVars, remoteVars
<1>4. finished \subseteq finished' /\ pieceHashMisses' = 0
  <2>1. CASE SwarmNext
    BY <2>1, CleanMisses DEF NInv
  <2>2. CASE UNCHANGED swarmVars
    BY <2>2 DEF NInv, swarmVars, vars, torrentVars
  <2> QED
    BY <2>1, <2>2
<1>5. \A q \in Peer : Clean(q)'
  BY <1>1, <1>2, <1>3, <1>4, CleanStep
<1> QED
  BY <1>2, <1>3, <1>4, <1>5 DEF NInv

LEMMA InitNInv == SwarmInit => NInv
<1> SUFFICES ASSUME SwarmInit  PROVE NInv
  OBVIOUS
<1>1. QInv
  BY InitQInv
<1>2. chokes \in Nat /\ pieceHashMisses = 0
  BY DEF SwarmInit, Init
<1>3. \A p \in Peer : Clean(p)
  BY InitSessions DEF Clean
<1> QED
  BY <1>1, <1>2, <1>3 DEF NInv

\* Remote peers that send the right bytes and never choke us cause no hash miss, however
\* the pieces are divided among them: haveBlocks, the counter by which a piece is taken
\* for complete, then counts its blocks, because they come in order and once.
THEOREM NoHashMissWithoutChokes ==
  ASSUME MaxChokes = 0
  PROVE  SwarmSpec => []NoHashMiss
<1>1. SwarmInit => NInv
  BY InitNInv
<1>2. NInv /\ [SwarmNext]_swarmVars => NInv'
  BY KeepsNInv
<1>3. NInv => NoHashMiss
  BY DEF NInv, NoHashMiss
<1> QED
  BY <1>1, <1>2, <1>3, PTL DEF SwarmSpec

\* Then haveBlocks is the number of slots that hold a block, which it is not once a
\* request was answered twice.
THEOREM HaveBlocksIsHeldWithoutChokes ==
  ASSUME MaxChokes = 0
  PROVE  SwarmSpec => []HaveBlocksIsHeld
<1>1. SwarmInit => NInv
  BY InitNInv
<1>2. NInv /\ [SwarmNext]_swarmVars => NInv'
  BY KeepsNInv
<1>3. ASSUME NInv, NEW p \in Peer, NEW k \in DOMAIN queue[p]
      PROVE  queue[p][k].haveBlocks = Cardinality(queue[p][k].held)
  <2>1. SInv /\ OneRequest(p) /\ Clean(p)
    BY <1>3 DEF NInv, QInv
  <2>2. queue[p] # <<>>
    BY <1>3
  <2>3. queue[p] = <<Queued(p)>> /\ Queued(p).haveBlocks \in Nat
    BY <2>1, <2>2, QueuedOnly
  <2>4. k = 1 /\ queue[p][k] = Queued(p)
    BY <1>3, <2>3
  <2>5. open[p]
    BY <2>1, <2>2 DEF SInv, WireInv, Fresh
  <2>6. Queued(p).held = 0 .. Queued(p).haveBlocks - 1
    BY <2>1, <2>2, <2>5 DEF Clean, QueueInOrder
  <2>7. \A n \in Nat : Cardinality(0 .. n - 1) = n
    <3>1. ASSUME NEW n \in Nat  PROVE Cardinality(0 .. n - 1) = n
      <4>1. Cardinality(0 .. n - 1) = IF 0 > n - 1 THEN 0 ELSE n - 1 - 0 + 1
        BY FS_Interval
      <4> QED
        BY <4>1
    <3> QED
      BY <3>1
  <2> QED
    BY <2>3, <2>4, <2>6, <2>7
<1>4. NInv => HaveBlocksIsHeld
  BY <1>3 DEF HaveBlocksIsHeld
<1> QED
  BY <1>1, <1>2, <1>4, PTL DEF SwarmSpec

=============================================================================
