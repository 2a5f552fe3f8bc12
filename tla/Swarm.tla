------------------------------- MODULE Swarm -------------------------------
(***************************************************************************)
(* The piece exchange of Exchange.tla with remote peers that follow the    *)
(* protocol, over connections that deliver every message in order: a       *)
(* remote peer announces what it has, unchokes a peer that is interested,  *)
(* answers each request with the right bytes unless it chokes or the       *)
(* request is cancelled, and may choke.  It drops the requests it has not  *)
(* answered when it chokes.  No connection breaks and no write fails.      *)
(*                                                                         *)
(* The tracker keeps naming every remote peer, so one that is no longer    *)
(* listed is connected to again.                                           *)
(***************************************************************************)
EXTENDS Exchange

CONSTANTS
  InitiallyHas,  \* the pieces each remote peer starts with
  MayGain,       \* whether remote peers obtain pieces later
  MaxChokes      \* bound on how often remote peers choke us

ASSUME SwarmAssumption ==
  /\ InitiallyHas \in [Peer -> SUBSET Pieces]
  /\ MayGain \in BOOLEAN
  /\ MaxChokes \in Nat

VARIABLES
  toUs,       \* messages on their way from each remote peer
  toThem,     \* messages on their way to each remote peer
  choking,    \* whether the remote peer chokes us
  pending,    \* blocks the remote peer was asked for and has not sent
  remoteHas,  \* pieces the remote peer has
  chokes,     \* how often we were choked
  asked       \* history: pieces requested from the peer during its session

remoteVars == <<choking, pending, remoteHas, chokes>>
swarmVars == <<vars, toUs, toThem, remoteVars, asked>>

SwarmInit ==
  /\ Init
  /\ toUs = [p \in Peer |-> <<>>]
  /\ toThem = [p \in Peer |-> <<>>]
  /\ choking = [p \in Peer |-> TRUE]
  /\ pending = [p \in Peer |-> <<>>]
  /\ remoteHas = InitiallyHas
  /\ chokes = 0
  /\ asked = [p \in Peer |-> {}]

-----------------------------------------------------------------------------
(***************************************************************************)
(* Our side: a handler of Exchange runs, and what it wrote is on its way.  *)
(***************************************************************************)
Requested(messages) == {messages[k].index : k \in {j \in DOMAIN messages : messages[j].type = "request"}}

\* Our end of the connections: a closed one loses what was on its way.
Flush(arrived) ==
  /\ toUs' = [q \in Peer |-> IF open'[q] THEN arrived[q] ELSE <<>>]
  /\ toThem' = [q \in Peer |-> IF open'[q] THEN toThem[q] \o sent'[q] ELSE <<>>]
  /\ asked' = [q \in Peer |-> IF open'[q] THEN asked[q] \cup Requested(sent'[q]) ELSE {}]

\* A session is opened to a remote peer, which announces its pieces first.
Connect(p) ==
  /\ Handshaked(p, FALSE)
  /\ choking' = [choking EXCEPT ![p] = TRUE]
  /\ pending' = [pending EXCEPT ![p] = <<>>]
  /\ Flush([toUs EXCEPT ![p] = <<[type |-> "bitfield", pieces |-> remoteHas[p]]>>])
  /\ UNCHANGED <<remoteHas, chokes>>

\* The handler of message m, the whole of Peer::handleMessage.
Handle(p, m) ==
  \/ m.type = "choke" /\ Choke(p)
  \/ m.type = "unchoke" /\ Unchoke(p)
  \/ m.type = "have" /\ Have(p, m.index)
  \/ m.type = "bitfield" /\ Bitfield(p, m.pieces)
  \/ /\ m.type = "piece"
     /\ \/ BlockRefused(p, m.index, m.block)
        \/ BlockCancelled(p, m.index, m.block)
        \/ BlockStored(p, m.index, m.block, TRUE)
        \/ PieceMismatch(p, m.index, m.block, TRUE)
        \/ PieceCompleted(p, m.index, m.block, TRUE)

Deliver(p) ==
  /\ toUs[p] # <<>>
  /\ Handle(p, Head(toUs[p]))
  /\ Flush([toUs EXCEPT ![p] = Tail(@)])
  /\ UNCHANGED remoteVars

-----------------------------------------------------------------------------
(***************************************************************************)
(* The remote peers.                                                       *)
(***************************************************************************)
Send(p, m) == toUs' = [toUs EXCEPT ![p] = Append(@, m)]

\* The messages that answer a request of piece i, in the order of requestPiece.
BlockMessage(i, b) == [type |-> "piece", index |-> i, block |-> b]
BlocksOf(i) == [k \in 1 .. NumBlocks[i] |-> BlockMessage(i, k - 1)]

\* What is left of the blocks to send when those of piece i are cancelled.
Without(blocks, i) ==
  LET kept[k \in 0 .. Len(blocks)] ==
        IF k = 0 THEN <<>>
        ELSE IF blocks[k].index = i THEN kept[k - 1] ELSE Append(kept[k - 1], blocks[k])
  IN kept[Len(blocks)]

RemoteUnchokesInterested(p) ==
  /\ Head(toThem[p]).type = "interested"
  /\ choking[p]
  /\ choking' = [choking EXCEPT ![p] = FALSE]
  /\ Send(p, [type |-> "unchoke"])
  /\ UNCHANGED pending

RemoteTakesRequest(p) ==
  /\ Head(toThem[p]).type = "request"
  /\ ~choking[p]
  /\ pending' = [pending EXCEPT ![p] = @ \o BlocksOf(Head(toThem[p]).index)]
  /\ UNCHANGED <<choking, toUs>>

RemoteTakesCancel(p) ==
  /\ Head(toThem[p]).type = "cancel"
  /\ pending' = [pending EXCEPT ![p] = Without(@, Head(toThem[p]).index)]
  /\ UNCHANGED <<choking, toUs>>

RemoteIgnores(p) ==
  /\ \/ Head(toThem[p]).type = "interested" /\ ~choking[p]
     \/ Head(toThem[p]).type = "request" /\ choking[p]
  /\ UNCHANGED <<choking, pending, toUs>>

RemoteReads(p) ==
  /\ toThem[p] # <<>>
  /\ \/ RemoteUnchokesInterested(p)
     \/ RemoteTakesRequest(p)
     \/ RemoteTakesCancel(p)
     \/ RemoteIgnores(p)
  /\ toThem' = [toThem EXCEPT ![p] = Tail(@)]
  /\ UNCHANGED <<vars, remoteHas, chokes, asked>>

RemoteSendsBlock(p) ==
  /\ open[p] /\ pending[p] # <<>>
  /\ Send(p, Head(pending[p]))
  /\ pending' = [pending EXCEPT ![p] = Tail(@)]
  /\ UNCHANGED <<vars, toThem, choking, remoteHas, chokes, asked>>

RemoteChokes(p) ==
  /\ open[p] /\ ~choking[p] /\ chokes < MaxChokes
  /\ choking' = [choking EXCEPT ![p] = TRUE]
  /\ pending' = [pending EXCEPT ![p] = <<>>]
  /\ chokes' = chokes + 1
  /\ Send(p, [type |-> "choke"])
  /\ UNCHANGED <<vars, toThem, remoteHas, asked>>

\* A remote peer that choked us lets us continue.
RemoteUnchokes(p) ==
  /\ open[p] /\ choking[p] /\ asked[p] # {}
  /\ choking' = [choking EXCEPT ![p] = FALSE]
  /\ Send(p, [type |-> "unchoke"])
  /\ UNCHANGED <<vars, toThem, pending, remoteHas, chokes, asked>>

RemoteGains(p, i) ==
  /\ MayGain /\ open[p] /\ i \notin remoteHas[p]
  /\ remoteHas' = [remoteHas EXCEPT ![p] = @ \cup {i}]
  /\ Send(p, [type |-> "have", index |-> i])
  /\ UNCHANGED <<vars, toThem, choking, pending, chokes, asked>>

SwarmNext ==
  \E p \in Peer :
    \/ Connect(p)
    \/ Deliver(p)
    \/ RemoteReads(p)
    \/ RemoteSendsBlock(p)
    \/ RemoteChokes(p)
    \/ RemoteUnchokes(p)
    \/ \E i \in Pieces : RemoteGains(p, i)

(***************************************************************************)
(* Fairness: what was sent is delivered and handled (async_read completes  *)
(* on the io thread), remote peers read and answer, those that choked us   *)
(* unchoke again, and the tracker is queried again and again (download()). *)
(***************************************************************************)
SwarmSpec ==
  /\ SwarmInit
  /\ [][SwarmNext]_swarmVars
  /\ \A p \in Peer :
       /\ WF_swarmVars(Connect(p))
       /\ WF_swarmVars(Deliver(p))
       /\ WF_swarmVars(RemoteReads(p))
       /\ WF_swarmVars(RemoteSendsBlock(p))
       /\ WF_swarmVars(RemoteUnchokes(p))
       /\ \A i \in Pieces : WF_swarmVars(RemoteGains(p, i))

-----------------------------------------------------------------------------
(***************************************************************************)
(* Properties.                                                             *)
(***************************************************************************)
\* Every piece some remote peer has is obtained: "Can fully download torrents"
\* (README.md).
DownloadCompletes == <>(finished = Pieces)

\* Remote peers that send the right bytes and do not choke cause no hash miss:
\* a piece asked of several peers at once is assembled from one peer's blocks.
NoHashMiss == pieceHashMisses = 0

\* No piece is waited for in vain: if a peer that does not choke us has nothing
\* more to send and nothing is on its way, nothing is queued at it.  Requests lost
\* to a choke, or never written because of one, are made up for.
QueuedIsPending ==
  \A p \in Peer :
    open[p] /\ ~choking[p] /\ toUs[p] = <<>> /\ toThem[p] = <<>> /\ pending[p] = <<>>
      => queue[p] = <<>>

\* "haveBlocks; how much i currently have" (struct Peer::Piece): the counter is
\* the number of slots that hold a block.
HaveBlocksIsHeld ==
  \A p \in Peer : \A k \in DOMAIN queue[p] :
    queue[p][k].haveBlocks = Cardinality(queue[p][k].held)

\* A session is only dropped over a block "which wasn't asked for" if the piece
\* was not asked for (the error message of handleMessage).
RefusedWasNotAskedFor ==
  [][\A p \in Peer :
       toUs[p] # <<>> /\ open[p] /\ ~open'[p] /\ Head(toUs[p]).type = "piece"
         => Head(toUs[p]).index \notin asked[p]]_swarmVars

=============================================================================
