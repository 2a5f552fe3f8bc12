----------------------------- MODULE PeerTable -----------------------------
(***************************************************************************)
(* The sessions of a torrent and the two containers that track them:       *)
(* activePeers and blackListed (torrent.cpp), with the life of a session   *)
(* (peer.cpp: connect, authenticate, handleError; connection.cpp).         *)
(*                                                                         *)
(* The main thread runs connectToPeers (from Tracker::query) and           *)
(* disconnectPeers, the io thread everything else.  peerContainersMutex    *)
(* makes connectToPeers atomic per address, and handshaked and removePeer  *)
(* atomic; disconnectPeers and the accept callback do not take it.  The    *)
(* messages exchanged on a session are the business of Exchange.tla.       *)
(***************************************************************************)
EXTENDS Integers, FiniteSets, SequencesExt

CONSTANTS
  Session,      \* the Peer objects the program creates: a bound
  Address,      \* the addresses of the other hosts
  ZeroAddress   \* the 0 that getIP returns without a remote endpoint

ASSUME PeerTableAssumption == ZeroAddress \notin Address

VARIABLES
  activePeers,   \* Torrent::activePeers
  blackListed,   \* Torrent::blackListed
  phase,         \* how far the session is
  outgoing,      \* whether we opened it
  addr,          \* the address of its host
  gone,          \* sessions whose remote end is gone: remote_endpoint() fails
  cursor,        \* index i of disconnectPeers, 0 before it starts
  accepting,     \* whether the handler of an accept is still to run
  late           \* sessions disconnectPeers closed with a message still to be handled

vars == <<activePeers, blackListed, phase, outgoing, addr, gone, cursor, accepting, late>>

Phase == {"unused", "connecting", "handshaking", "established", "closed"}
Live == {"handshaking", "established"}   \* the phases with a connected socket

Init ==
  /\ activePeers = <<>>
  /\ blackListed = {}
  /\ phase = [s \in Session |-> "unused"]
  /\ outgoing = [s \in Session |-> FALSE]
  /\ addr = [s \in Session |-> ZeroAddress]
  /\ gone = {}
  /\ cursor = 0
  /\ accepting = TRUE
  /\ late = {}

\* Connection::getIP: 0 unless the socket is open and has a remote endpoint.
RawIp(s) == IF phase[s] \in Live /\ s \notin gone THEN addr[s] ELSE ZeroAddress

\* Mutant: the addresses of listed peers are not looked at.
KnownIfPending(a) == a \in blackListed

\* connectToPeers skips an address that is pending, given up or listed.
Known(a) ==
  \/ a \in blackListed
  \/ \E k \in DOMAIN activePeers : RawIp(activePeers[k]) = a

-----------------------------------------------------------------------------
(***************************************************************************)
(* The main thread.                                                        *)
(***************************************************************************)
\* Mutants: the peer is listed at once; its address is not recorded.
ConnectToPeerListed(s, a) ==
  /\ cursor = 0
  /\ phase[s] = "unused"
  /\ a # ZeroAddress /\ ~Known(a)
  /\ activePeers' = Append(activePeers, s)
  /\ blackListed' = blackListed \cup {a}
  /\ phase' = [phase EXCEPT ![s] = "connecting"]
  /\ outgoing' = [outgoing EXCEPT ![s] = TRUE]
  /\ addr' = [addr EXCEPT ![s] = a]
  /\ UNCHANGED <<gone, cursor, accepting, late>>

ConnectToPeerUntracked(s, a) ==
  /\ cursor = 0
  /\ phase[s] = "unused"
  /\ a # ZeroAddress /\ ~Known(a)
  /\ phase' = [phase EXCEPT ![s] = "connecting"]
  /\ outgoing' = [outgoing EXCEPT ![s] = TRUE]
  /\ addr' = [addr EXCEPT ![s] = a]
  /\ UNCHANGED <<activePeers, blackListed, gone, cursor, accepting, late>>

\* One round of the loop of connectToPeers, for an address a tracker named.
ConnectToPeer(s, a) ==
  /\ cursor = 0
  /\ phase[s] = "unused"
  /\ a # ZeroAddress /\ ~Known(a)
  /\ blackListed' = blackListed \cup {a}
  /\ phase' = [phase EXCEPT ![s] = "connecting"]
  /\ outgoing' = [outgoing EXCEPT ![s] = TRUE]
  /\ addr' = [addr EXCEPT ![s] = a]
  /\ UNCHANGED <<activePeers, gone, cursor, accepting, late>>

\* The download is complete: no more tracker peers, and the loop starts.
StartDisconnectPeers ==
  /\ cursor = 0
  /\ cursor' = 1
  /\ UNCHANGED <<activePeers, blackListed, phase, outgoing, addr, gone, accepting, late>>

\* One round of the loop, which does not take the mutex: the list may change
\* between two rounds.  disconnect() also drops the error callback, so nothing
\* more is heard from the session but a message whose handler is queued already.
DisconnectNext ==
  /\ cursor \in DOMAIN activePeers
  /\ phase' = [phase EXCEPT ![activePeers[cursor]] = "closed"]
  /\ cursor' = cursor + 1
  /\ \/ late' = late
     \/ /\ phase[activePeers[cursor]] = "established"
        /\ late' = late \cup {activePeers[cursor]}
  /\ UNCHANGED <<activePeers, blackListed, outgoing, addr, gone, accepting>>

-----------------------------------------------------------------------------
(***************************************************************************)
(* The io thread.                                                          *)
(***************************************************************************)
Connected(s) ==
  /\ phase[s] = "connecting"
  /\ phase' = [phase EXCEPT ![s] = "handshaking"]
  /\ UNCHANGED <<activePeers, blackListed, outgoing, addr, gone, cursor, accepting, late>>

\* The accept callback, and the next accept.  acceptor->stop() comes before the
\* disconnect loop: a handler that is queued by then still runs, and is the last one.
\* The connection may be broken already, and then 0 is inserted.  The insertion races
\* with connectToPeers on the main thread and may be lost.
Accept(s, a, broken) ==
  /\ accepting
  /\ accepting' = (cursor = 0)
  /\ phase[s] = "unused"
  /\ LET ip == IF broken THEN ZeroAddress ELSE a IN
       blackListed' \in {blackListed \cup {ip}, blackListed}
  /\ phase' = [phase EXCEPT ![s] = "handshaking"]
  /\ addr' = [addr EXCEPT ![s] = a]
  /\ gone' = IF broken THEN gone \cup {s} ELSE gone
  /\ UNCHANGED <<activePeers, outgoing, cursor, late>>

\* An accept fails, or is cancelled by stop(): nothing starts the next one.
AcceptFails ==
  /\ accepting
  /\ accepting' = FALSE
  /\ UNCHANGED <<activePeers, blackListed, phase, outgoing, addr, gone, cursor, late>>

\* Mutant: the peer is listed a second time when it authenticates.
HandshakedTwice(s) ==
  /\ phase[s] = "handshaking"
  /\ activePeers' = activePeers \o <<s, s>>
  /\ blackListed' = blackListed \ {RawIp(s)}
  /\ phase' = [phase EXCEPT ![s] = "established"]
  /\ UNCHANGED <<outgoing, addr, gone, cursor, accepting, late>>

\* Mutant: the search is for the address of a closed socket.
HandshakedUnnamed(s) ==
  /\ phase[s] = "handshaking"
  /\ activePeers' = Append(activePeers, s)
  /\ blackListed' = blackListed \ {ZeroAddress}
  /\ phase' = [phase EXCEPT ![s] = "established"]
  /\ UNCHANGED <<outgoing, addr, gone, cursor, accepting, late>>

\* The other side's handshake is the right one: Torrent::handshaked.  Its address is
\* looked up again: an outgoing session whose host is gone by now leaves its own in
\* blackListed for good.
Handshaked(s) ==
  /\ phase[s] = "handshaking"
  /\ activePeers' = Append(activePeers, s)
  /\ blackListed' = blackListed \ {RawIp(s)}
  /\ phase' = [phase EXCEPT ![s] = "established"]
  /\ UNCHANGED <<outgoing, addr, gone, cursor, accepting, late>>

\* The connection breaks; the error is delivered in a later step.
RemoteGone(s) ==
  /\ phase[s] \in Live
  /\ gone' = gone \cup {s}
  /\ UNCHANGED <<activePeers, blackListed, phase, outgoing, addr, cursor, accepting, late>>

\* Mutant: the first peer of the list is unlisted, whoever it is.
WithoutFirst(list, s) == IF list = <<>> THEN list ELSE Tail(list)

\* removePeer: the first listed peer with the same address is erased.
WithoutPeer(list, s) ==
  LET k == SelectInSeq(list, LAMBDA t : RawIp(t) = RawIp(s))
  IN  IF k = 0 THEN list ELSE RemoveAt(list, k)

\* Peer::handleError: a connection attempt, the handshake, a read, a write or a
\* message failed.
HandleError(s) ==
  /\ phase[s] = "connecting" \/ phase[s] \in Live
  /\ activePeers' = WithoutPeer(activePeers, s)
  /\ phase' = [phase EXCEPT ![s] = "closed"]
  /\ UNCHANGED <<blackListed, outgoing, addr, gone, cursor, accepting, late>>

\* The message whose handler was queued is a bad one: removePeer looks for the
\* address 0 of the closed session.  (If the session is unlisted, nothing keeps its
\* Peer any more: Connection.tla.)
LateError(s) ==
  /\ s \in late
  /\ \E k \in DOMAIN activePeers : activePeers[k] = s
  /\ activePeers' = WithoutPeer(activePeers, s)
  /\ late' = late \ {s}
  /\ UNCHANGED <<blackListed, phase, outgoing, addr, gone, cursor, accepting>>

\* handleBlockRequest refuses a request: disconnected but not unlisted.
RefuseRequest(s) ==
  /\ phase[s] = "established"
  /\ phase' = [phase EXCEPT ![s] = "closed"]
  /\ UNCHANGED <<activePeers, blackListed, outgoing, addr, gone, cursor, accepting, late>>

Next ==
  \/ StartDisconnectPeers
  \/ DisconnectNext
  \/ AcceptFails
  \/ \E s \in Session :
       \/ \E a \in Address \cup {ZeroAddress} : ConnectToPeer(s, a)
       \/ \E a \in Address, broken \in BOOLEAN : Accept(s, a, broken)
       \/ Connected(s)
       \/ Handshaked(s)
       \/ RemoteGone(s)
       \/ HandleError(s)
       \/ LateError(s)
       \/ RefuseRequest(s)

Spec == Init /\ [][Next]_vars

-----------------------------------------------------------------------------
(***************************************************************************)
(* Properties.                                                             *)
(***************************************************************************)
\* The containers hold what their declarations say, and no peer twice.
TypeOK ==
  /\ activePeers \in Seq(Session)
  /\ IsInjective(activePeers)
  /\ blackListed \subseteq Address \cup {ZeroAddress}
  /\ phase \in [Session -> Phase]
  /\ outgoing \in [Session -> BOOLEAN]
  /\ addr \in [Session -> Address \cup {ZeroAddress}]
  /\ gone \subseteq Session
  /\ cursor \in Nat
  /\ accepting \in BOOLEAN
  /\ late \subseteq Session

\* "do not add it to our active peers list unless a connection was established
\* successfully" (connectToPeers).
ListedWasEstablished ==
  \A k \in DOMAIN activePeers : phase[activePeers[k]] \in {"established", "closed"}

\* No other host has opened a session to us so far.
OnlyOurs == \A s \in Session : phase[s] # "unused" => outgoing[s]

\* As long as only we open sessions, an address we are still trying is always
\* known, so a tracker that names it again does not start a second attempt.
PendingIsBlackListed ==
  OnlyOurs => \A s \in Session :
    phase[s] \in {"connecting", "handshaking"} => addr[s] \in blackListed

\* As long as only we open sessions, two unbroken sessions never go to one host:
\* the address passes from blackListed to activePeers without a gap, and removal
\* by address never takes it from the list too early.
OneSessionPerAddress ==
  OnlyOurs => \A s, t \in Session :
    RawIp(s) # ZeroAddress /\ RawIp(s) = RawIp(t) => s = t

\* As long as only we open sessions, an unbroken established session is listed and
\* so told of new pieces, although removePeer searches by address and broken
\* sessions all have the same one.
EstablishedIsListed ==
  OnlyOurs => \A s \in Session :
    phase[s] = "established" /\ s \notin gone =>
      \E k \in DOMAIN activePeers : activePeers[k] = s

\* As long as only we open sessions, the host of an unbroken established session is
\* not in blackListed: when the session ends, a tracker that names the host again has
\* it tried again.
EstablishedMayReturn ==
  OnlyOurs => \A s \in Session :
    phase[s] = "established" /\ s \notin gone => addr[s] \notin blackListed

=============================================================================
