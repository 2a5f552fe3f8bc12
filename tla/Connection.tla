----------------------------- MODULE Connection -----------------------------
(***************************************************************************)
(* One session: a Connection (connection.cpp), the asynchronous operations *)
(* it has started, and the Peer (peer.cpp) their handlers call back.       *)
(*                                                                         *)
(* An operation ends in the kernel; its handler then waits in the queue of *)
(* g_io_context, whose one thread runs the handlers in that order.  A      *)
(* handler holds the Connection, never the Peer: the Peer is kept by the   *)
(* error callback bound to it and by activePeers, and is destroyed when    *)
(* both let go of it.  The main thread meanwhile closes the sessions that  *)
(* are listed.                                                             *)
(*                                                                         *)
(* Where the program would use a destroyed Peer or call an emptied         *)
(* callback anything may follow: `undefined` is set and the model stops.   *)
(* What the messages say is Exchange.tla, whose address is looked for in   *)
(* which container is PeerTable.tla.                                       *)
(***************************************************************************)
EXTENDS Integers, Sequences, FiniteSets

CONSTANT MaxWrites   \* bound on the writes whose handlers have not run

ASSUME ConnectionAssumption == MaxWrites \in Nat /\ MaxWrites >= 2

VARIABLES
  role,         \* who opened the session, "none" before
  isOpen,       \* socket.is_open()
  broken,       \* the other end is gone
  pending,      \* how many operations of each kind have not ended
  ready,        \* ended operations whose handlers are to run, in order
  readCB,       \* the callback of the last read, named for what it reads
  inputStream,  \* what was read and not consumed
  errorCB,      \* whether the error callback is set, with its Peer
  listed,       \* whether activePeers has the Peer
  main,         \* how far the main thread is in disconnecting the Peer
  undefined,    \* whether the program left its defined behaviour
  writeFailed,  \* history: the handler of a failed write ended the session
  passedOver    \* history: removePeer unlisted the Peer for another one

socketVars == <<role, isOpen, broken>>
readVars == <<readCB, inputStream>>
ownerVars == <<errorCB, listed>>
history == <<writeFailed, passedOver>>
vars == <<socketVars, pending, ready, readVars, ownerVars, main, undefined, history>>

Op == {"resolve", "connect", "read", "write"}
Ear == Op \ {"write"}        \* the operations whose handlers go on with the session
Result == {"ok", "error", "aborted"}
Unit == {"handshake", "length", "body"}

Init ==
  /\ role = "none"
  /\ isOpen = FALSE
  /\ broken = FALSE
  /\ pending = [op \in Op |-> 0]
  /\ ready = <<>>
  /\ readCB = "handshake"
  /\ inputStream = <<>>
  /\ errorCB = FALSE
  /\ listed = FALSE
  /\ main = "away"
  /\ undefined = FALSE
  /\ writeFailed = FALSE
  /\ passedOver = FALSE

\* The shared_ptrs to the Peer.
Alive == errorCB \/ listed

Queued(op) == {i \in DOMAIN ready : ready[i].op = op}
Outstanding(op) == pending[op] > 0 \/ Queued(op) # {}

-----------------------------------------------------------------------------
(***************************************************************************)
(* Parts of the handlers.                                                  *)
(***************************************************************************)
Start(op, started) == [started EXCEPT ![op] = @ + 1]

\* The room for writes of one handler: a bound, and none on a closed socket.
Room == IF isOpen THEN 0 .. MaxWrites - (pending["write"] + Cardinality(Queued("write"))) ELSE {0}

\* Connection::write, n times: nothing happens on a closed socket.
Written(n) == [pending EXCEPT !["write"] = @ + n]

\* Connection::read after the operations in `started`: nothing on a closed socket.
Read(unit, started) ==
  IF isOpen
  THEN /\ pending' = Start("read", started)
       /\ readCB' = unit
  ELSE /\ pending' = started
       /\ UNCHANGED readCB

\* Mutant: the error callback is left.
DisconnectOnly ==
  /\ isOpen' = FALSE
  /\ UNCHANGED errorCB

\* Peer::disconnect: Connection::close, which does nothing the second time, and no
\* more error callback.
Disconnect ==
  /\ isOpen' = FALSE
  /\ errorCB' = FALSE

\* Peer::handleError: removePeer erases the first listed peer with this address,
\* which may be another one; the Peer is used once more after that.
HandleError ==
  /\ listed' \in {listed, FALSE}
  /\ undefined' = ~(errorCB \/ listed')
  /\ Disconnect

\* The next handler of the io thread, for an operation and its result.
Runs(op, result) ==
  /\ ~undefined
  /\ ready # <<>>
  /\ Head(ready) = [op |-> op, result |-> result]
  /\ ready' = Tail(ready)

\* Mutant: what was handed over is consumed only with the next bytes.
ConsumedLate(stream) == IF Len(stream) > 1 THEN Tail(stream) ELSE stream

\* The bytes of a read are appended (commit), handed over, and removed (consume)
\* after the callback, which has started the next read by then.
Consumed(stream) == Tail(stream)

-----------------------------------------------------------------------------
(***************************************************************************)
(* The start of a session.                                                 *)
(***************************************************************************)
\* Mutant: nothing holds the Peer when connectToPeers has returned.
ConnectUnbound ==
  /\ role = "none"
  /\ role' = "outgoing"
  /\ pending' = Start("resolve", pending)
  /\ UNCHANGED <<isOpen, broken, ready, readVars, ownerVars, main, undefined, history>>

\* Peer::connect, called by connectToPeers on the main thread.
Connect ==
  /\ role = "none"
  /\ role' = "outgoing"
  /\ errorCB' = TRUE
  /\ pending' = Start("resolve", pending)
  /\ UNCHANGED <<isOpen, broken, ready, readVars, listed, main, undefined, history>>

\* The handler of async_resolve: async_connect opens the socket.
Resolved ==
  /\ Runs("resolve", "ok")
  /\ isOpen' = TRUE
  /\ pending' = Start("connect", pending)
  /\ UNCHANGED <<role, broken, readVars, ownerVars, main, undefined, history>>

\* The handler of async_connect: our handshake is written, theirs is read.
Connected ==
  /\ Alive
  /\ Runs("connect", "ok")
  /\ Read("handshake", IF isOpen THEN Written(1) ELSE pending)
  /\ UNCHANGED <<socketVars, inputStream, ownerVars, main, undefined, history>>

\* Mutant: the length of the first message is asked for at once.
AuthenticateEagerly ==
  /\ role = "none"
  /\ role' = "incoming"
  /\ isOpen' = TRUE
  /\ errorCB' = TRUE
  /\ pending' = [pending EXCEPT !["read"] = 2]
  /\ readCB' = "handshake"
  /\ UNCHANGED <<broken, ready, inputStream, listed, main, undefined, history>>

\* The accept callback and Peer::authenticate.
Authenticate ==
  /\ role = "none"
  /\ role' = "incoming"
  /\ isOpen' = TRUE
  /\ errorCB' = TRUE
  /\ pending' = Start("read", pending)
  /\ readCB' = "handshake"
  /\ UNCHANGED <<broken, ready, inputStream, listed, main, undefined, history>>

-----------------------------------------------------------------------------
(***************************************************************************)
(* The handler of async_read.                                              *)
(***************************************************************************)
\* A read has ended well and its callback is called, on a Peer that is alive.
Received(unit) ==
  /\ Alive
  /\ Runs("read", "ok")
  /\ readCB = unit
  /\ inputStream' = Consumed(Append(inputStream, readCB))

\* The handshake is the right one: the Peer is listed.  To a host that came to us
\* our handshake and the bitfield are written.
GoodHandshake ==
  /\ Received("handshake")
  /\ listed' = TRUE
  /\ Read("length", IF role = "incoming" /\ isOpen THEN Written(2) ELSE pending)
  /\ UNCHANGED <<socketVars, errorCB, main, undefined, history>>

BadHandshake ==
  /\ Received("handshake")
  /\ HandleError
  /\ UNCHANGED <<role, broken, pending, readCB, main, history>>

\* Peer::handle: a length of 0 is followed by the next one.
Length ==
  /\ Received("length")
  /\ \E next \in {"length", "body"} : Read(next, pending)
  /\ UNCHANGED <<socketVars, ownerVars, main, undefined, history>>

\* handleMessage to its end, with the answers it writes.
GoodMessage ==
  /\ Received("body")
  /\ \E n \in Room : Read("length", Written(n))
  /\ UNCHANGED <<socketVars, ownerVars, main, undefined, history>>

\* handleMessage returns handleError(...).
BadMessage ==
  /\ Received("body")
  /\ HandleError
  /\ UNCHANGED <<role, broken, pending, readCB, main, history>>

\* handleBlockRequest disconnects the Peer and returns to handleMessage, which
\* uses it for the next read.
RefuseRequest ==
  /\ Received("body")
  /\ Disconnect
  /\ undefined' = ~listed
  /\ UNCHANGED <<role, broken, pending, readCB, listed, main, history>>

-----------------------------------------------------------------------------
(***************************************************************************)
(* Connection::handleError, and handlers that do nothing.                  *)
(***************************************************************************)
Commit(op) ==
  inputStream' = IF op = "read" THEN Append(inputStream, readCB) ELSE inputStream

\* Mutant: the end of the stream is taken for an abort.
FailIgnored(op) ==
  /\ Runs(op, "error")
  /\ Commit(op)
  /\ UNCHANGED <<socketVars, pending, readCB, ownerVars, main, undefined, history>>

\* The error callback is called if it is set; without one the socket is closed.
Fail(op) ==
  /\ Runs(op, "error")
  /\ Commit(op)
  /\ \/ errorCB /\ HandleError
     \/ /\ ~errorCB
        /\ isOpen' = FALSE
        /\ UNCHANGED <<ownerVars, undefined>>
  /\ writeFailed' = (writeFailed \/ (op = "write" /\ errorCB))
  /\ UNCHANGED <<role, broken, pending, readCB, main, passedOver>>

\* operation_aborted: the socket was closed on this side.
Aborted(op) ==
  /\ Runs(op, "aborted")
  /\ Commit(op)
  /\ UNCHANGED <<socketVars, pending, readCB, ownerVars, main, undefined, history>>

WriteDone ==
  /\ Runs("write", "ok")
  /\ UNCHANGED <<socketVars, pending, readVars, ownerVars, main, undefined, history>>

-----------------------------------------------------------------------------
(***************************************************************************)
(* Handlers of other sessions.                                             *)
(***************************************************************************)
\* handlePieceCompleted writes HAVE to the listed peers.
Have ==
  /\ ~undefined /\ listed
  /\ 1 \in Room
  /\ pending' = Written(1)
  /\ UNCHANGED <<socketVars, ready, readVars, ownerVars, main, undefined, history>>

\* removePeer for a session with the same address, or for a broken one if this is
\* broken too, finds this one.
PassOver ==
  /\ ~undefined /\ listed
  /\ listed' = FALSE
  /\ passedOver' = TRUE
  /\ UNCHANGED <<socketVars, pending, ready, readVars, errorCB, main, undefined, writeFailed>>

-----------------------------------------------------------------------------
(***************************************************************************)
(* The main thread: one round of the loop of disconnectPeers.              *)
(***************************************************************************)
\* close() tests isConnected() ...
MainDisconnects ==
  /\ ~undefined /\ main = "away" /\ listed
  /\ main' = IF isOpen THEN "close" ELSE "drop"
  /\ UNCHANGED <<socketVars, pending, ready, readVars, ownerVars, undefined, history>>

\* ... and takes the lock again to close the socket.
MainCloses ==
  /\ ~undefined /\ main = "close" /\ Alive
  /\ isOpen' = FALSE
  /\ main' = "drop"
  /\ UNCHANGED <<role, broken, pending, ready, readVars, ownerVars, undefined, history>>

MainDropsCallback ==
  /\ ~undefined /\ main = "drop" /\ Alive
  /\ errorCB' = FALSE
  /\ main' = "done"
  /\ UNCHANGED <<socketVars, pending, ready, readVars, listed, undefined, history>>

\* A callback, or the main thread in the middle of disconnect(), uses a Peer that
\* was destroyed.
DeadPeerUsed ==
  /\ ~undefined /\ ~Alive
  /\ \/ Runs("connect", "ok") \/ Runs("read", "ok")
     \/ main \in {"close", "drop"} /\ UNCHANGED ready
  /\ undefined' = TRUE
  /\ UNCHANGED <<socketVars, pending, readVars, ownerVars, main, history>>

\* The handlers start operations on the socket and call and empty the error callback
\* without the lock: one that runs while the main thread closes the one or empties
\* the other may find it half changed.
Collide ==
  /\ ~undefined
  /\ main \in {"close", "drop"}
  /\ ready # <<>>
  /\ undefined' = TRUE
  /\ UNCHANGED <<socketVars, pending, ready, readVars, ownerVars, main, history>>

-----------------------------------------------------------------------------
(***************************************************************************)
(* The kernel and the other end.                                           *)
(***************************************************************************)
Break ==
  /\ ~undefined
  /\ isOpen /\ ~broken
  /\ broken' = TRUE
  /\ UNCHANGED <<role, isOpen, pending, ready, readVars, ownerVars, main, undefined, history>>

\* The results an operation may end with.  What was received before the connection
\* broke can still be read.  close() aborts an operation; one that is between two
\* partial transfers then fails on the closed descriptor.
Possible(op, result) ==
  \/ op = "resolve" /\ result # "aborted"
  \/ op = "connect" /\ isOpen /\ result # "aborted"
  \/ op \in {"read", "write"} /\ isOpen /\ result = "ok"
  \/ op \in {"read", "write"} /\ isOpen /\ broken /\ result = "error"
  \/ op # "resolve" /\ ~isOpen /\ result # "ok"

Ends(op, result) ==
  /\ ~undefined
  /\ pending[op] > 0
  /\ Possible(op, result)
  /\ pending' = [pending EXCEPT ![op] = @ - 1]
  /\ ready' = Append(ready, [op |-> op, result |-> result])
  /\ UNCHANGED <<socketVars, readVars, ownerVars, main, undefined, history>>

-----------------------------------------------------------------------------
IoThread ==
  \/ Resolved
  \/ Connected
  \/ GoodHandshake
  \/ BadHandshake
  \/ Length
  \/ GoodMessage
  \/ BadMessage
  \/ RefuseRequest
  \/ \E op \in Op : Fail(op) \/ Aborted(op)
  \/ WriteDone

MainThread == MainCloses \/ MainDropsCallback

Next ==
  \/ Connect
  \/ Authenticate
  \/ IoThread
  \/ Have
  \/ PassOver
  \/ MainDisconnects
  \/ MainThread
  \/ DeadPeerUsed
  \/ Collide
  \/ Break
  \/ \E op \in Op, result \in Result : Ends(op, result)

(***************************************************************************)
(* Fairness: both threads are scheduled; the kernel ends an attempt to     *)
(* resolve or to connect; and it does not deliver without end from a       *)
(* connection that is broken.  The other end need not send or read.        *)
(***************************************************************************)
Spec ==
  /\ Init /\ [][Next]_vars
  /\ WF_vars(IoThread) /\ WF_vars(MainThread) /\ WF_vars(DeadPeerUsed)
  /\ \A op \in {"resolve", "connect"} : WF_vars(\E result \in Result : Ends(op, result))
  /\ SF_vars(Ends("read", "error"))

-----------------------------------------------------------------------------
(***************************************************************************)
(* Properties.                                                             *)
(***************************************************************************)
\* The operation that goes on with the session is one: two reads would share the
\* stream and the callback.
OneEar ==
  /\ \A op \in Ear : pending[op] <= 1
  /\ \A op, other \in Ear : pending[op] > 0 /\ pending[other] > 0 => op = other
  /\ \A op \in Ear, i \in DOMAIN ready : pending[op] > 0 => ready[i].op \notin Ear
  /\ \A i, j \in DOMAIN ready : ready[i].op \in Ear /\ ready[j].op \in Ear => i = j

\* Every variable has its type, and at most one operation is under way that the
\* session waits for.
TypeOK ==
  /\ role \in {"none", "outgoing", "incoming"}
  /\ isOpen \in BOOLEAN
  /\ broken \in BOOLEAN
  /\ pending \in [Op -> Nat]
  /\ ready \in Seq([op : Op, result : Result])
  /\ readCB \in Unit
  /\ inputStream \in Seq(Unit)
  /\ errorCB \in BOOLEAN
  /\ listed \in BOOLEAN
  /\ main \in {"away", "close", "drop", "done"}
  /\ undefined \in BOOLEAN
  /\ writeFailed \in BOOLEAN
  /\ passedOver \in BOOLEAN
  /\ OneEar

\* The callbacks hold a raw Peer (connect, authenticate, handle bind `this`), and
\* handleError and handleBlockRequest drop its owners while it is used.  It is
\* destroyed too early in no order of completions, unless the handler of a failed
\* write came before that of a read, removePeer took it for another Peer, or the
\* main thread disconnected it.
UsesLivePeer == undefined => writeFailed \/ passedOver \/ main # "away"

\* The Peer and its Connection hold each other through the error callback.  As long
\* as that is set an operation is under way whose handler goes on with the session
\* or ends it: no session is left open and deaf, and none leaks.
HeardOfAgain ==
  errorCB /\ main = "away" /\ ~undefined => \E op \in Ear : Outstanding(op)

\* A callback is handed the bytes of its own read: nothing of an earlier message is
\* left in the stream, although the next read starts before the last is consumed.
ReadsItsOwn == isOpen => inputStream = <<>>

\* A connection that broke is closed, and its Peer let go of.
BrokenIsClosed == broken ~> undefined \/ (~isOpen /\ ~errorCB)

=============================================================================
