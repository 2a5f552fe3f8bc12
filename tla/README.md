# A TLA+ development of yTorrent

yTorrent (`src/`) is a small BitTorrent client: it reads a metainfo file, asks a
tracker for peers, downloads the pieces from several peers at once, checks each
against its hash, writes it to the file, and then seeds. This directory holds
TLA+ modules of its core, TLC configurations that check them on small instances,
and TLAPS proofs of the results that hold for every instance.
`PROJECT.json` maps each definition to the lines it models and lists the runs,
the hazards, the findings and the theorems.

Paths below are relative to `src/src/` unless they begin with `main.cpp`.

## 1. Inventory of the system

### Threads

Two threads run. The **io thread** executes `g_io_context.run()`: every socket
callback (connect, accept, read, write) runs on it, so the handlers of different
peers never overlap. The **main thread** runs `main`, `Torrent::download` and
`Torrent::seed`; it queries trackers (blocking), opens sessions
(`connectToPeers`) and, when the download is over, closes them
(`disconnectPeers`). `peerContainersMutex` protects `activePeers` and
`blackListed` in some of the functions that use them, not in all (section 2.3).

### Components

| component | state | operations | talks to |
|---|---|---|---|
| `Peer` (`torrent/peer.cpp`) | `state` (four flags), `hasPieceIndexes`, `pieceQueue`, `conn` | `connect`, `authenticate`, `handle`, `handleMessage`, `sendPieceRequest`, `requestPiece`, `sendCancelRequest`, `handleError`, `disconnect` | its `Connection` (calls and callbacks), `Torrent` (calls) |
| `Torrent`, piece table (`torrent/torrent.cpp`) | `pieces` (`finished`, `priority`, hash), `bitfield`, `completedPieces`, `pieceHashMisses`, the file | `selectPieceAndRequest`, `checkPieceHash`, `handlePieceCompleted`, `handleBlockRequest`, `pieceDone` | called by `Peer`; `handlePieceCompleted` writes HAVE to other peers |
| `Torrent`, peer containers | `activePeers`, `blackListed` | `connectToPeers`, `handshaked`, `removePeer`, `disconnectPeers`, the accept callback | main thread and io thread |
| `Torrent`, life cycle (`torrent/torrent.cpp`, `main.cpp`) | where the main thread is, `mainTracker`, `acceptor` | `download`, `seed`, `validateTracker`, `buildTrackerQuery`, `customDownload` | `Tracker`, `Acceptor` |
| `Tracker` (`torrent/tracker.cpp`) | `timeToNextRequest` | `query`, `httpRequest` over a blocking socket, `isNextRequestDue` | `Torrent::connectToPeers` |
| `Connection` (`net/connection.cpp`) | socket, stream buffer, `readCallback`, `errorCallback` | `connect`, `read`, `write`, `close`, `getIP` | asio; calls back into `Peer` with a raw pointer |
| `Acceptor` (`net/acceptor.cpp`) | the listening socket, `started` | `initiateAsyncAcceptLoop`, `stop`, `isStarted` | asio; calls back into `Torrent` |
| messages (`net/*message.hpp`, `utils/transcoder.hpp`) | a byte buffer and a position | big-endian reads and writes | `Peer` |
| metainfo (`Torrent::parseFile`) | fills the piece table | `parseFile` | cpp-bencoding |
| command line, progress (`main.cpp`, `utils`) | none | option parsing, printing | the log file |

### What is hard, and what makes each part correct

* **Piece exchange.** One piece may be asked of several peers; blocks arrive in
  any order, twice, wrong, or for a piece another peer has finished; a peer may
  choke between request and answer; a write to the file may fail half way, and the
  file may hold what an earlier run left.
  *Correct:* a finished piece is in the file with the right bytes, is counted
  once and never taken back; only bytes of finished pieces are sent, and of the piece that was
  asked for (finding 4 says where this fails); no REQUEST goes to a peer
  that chokes us; a queued piece is really waited for; with cooperative peers the
  download ends.
* **Peer containers.** Two threads; an address read from a socket that may be
  gone by then (`getIP` returns 0); removal by address.
  *Correct:* one session per host, only established peers are listed, an
  established peer is listed, an address being tried is not tried again.
* **Connection.** Callbacks hold raw pointers; a write keeps a pointer into a
  buffer; `close` tests a flag before it takes the lock; the `Peer` and its connection hold
  each other through the error callback; nothing has a timeout.
  *Correct:* no callback runs on a destroyed `Peer`, no session is left open with nobody
  reading from it, a callback gets the bytes of its own read, a broken connection is closed,
  no write outlives its buffer.
* **Life cycle and tracker.** The main thread polls a counter that must be hit
  exactly and sums over marks, both written by the io thread without a lock;
  tracker failures; an accept loop that may end; the port that is announced.
  *Correct:* the loop ends when all pieces are there and not before; what the
  tracker is told and `main` returns is true; disconnected peers stay so; the port
  announced is the one listened on; a seed accepts connections.
* **Conversions and geometry.** Widths, byte order, the short last piece and
  block. *Correct:* decoding inverts encoding; the blocks of a piece partition
  it; the range check of a REQUEST accepts every block of a piece and nothing else. (It does accept
  more: what exactly is `RangeCheckPasses`, what follows from it is finding 4.)

`PROJECT.json` lists every hazard at its line, with the properties that cover it
or the reason none does.

## 2. Modules

| module | models | kind |
|---|---|---|
| `Exchange` | message handlers of `Peer` with the piece table of `Torrent` | one component, open environment |
| `Download` | what `Exchange` promises | abstract specification |
| `Swarm` | `Exchange` with remote peers and connections that follow the protocol | composition, with fairness |
| `PeerTable` | `activePeers` / `blackListed`, the life of a session, both threads | one component |
| `Connection` | a connection's asynchronous operations and the `Peer` they call back | one component, two threads, with fairness |
| `Transcoder` | byte orders, frames, the bitfield, addresses | pure operators |
| `Transfer` | one file from this program to this program, byte for byte | two ends of the protocol, over `Transcoder`, with fairness |
| `Lifecycle` | `main`, `download`, `seed`, tracker requests, the accept loop, the counting of pieces | one component, two threads, with fairness |
| `MCExchange`, `MCSwarm`, `MCPeerTable`, `MCTransfer` | values of constants, VIEW, constraints, symmetry | model checking |
| `ListLemmas` | facts about least elements, `RemoveAt`, `Append`, `Tail` and concatenation | proofs |
| `ExchangeProofs` | the inductive invariant of `Exchange`, its action properties, and that it implements `Download` | proofs |
| `SwarmProofs` | that `Swarm` implements `Exchange`, and its invariants about messages under way | proofs |
| `PeerTableProofs` | the invariants of `PeerTable` | proofs |
| `LifecycleProofs` | the invariant of `Lifecycle` and its theorems | proofs |
| `ConnectionProofs` | the invariant of `Connection` and its theorems | proofs |
| `TranscoderProofs` | decoding inverts encoding | proofs |
| `TransferProofs` | the invariant of `Transfer`, and that it implements `Download` | proofs |

### 2.1 Exchange

State: `finished`, `completedPieces`, `pieceHashMisses`, `priority`, `disk` are
the torrent's, `terminated` says that an exception left the io thread (which
calls `std::terminate`), `activePeers` is the list as a set, and `open`, `state`,
`has`, `queue` belong to each peer. `sent` is what the handler just executed has
written to each socket, in order; it is output, no handler reads it.

Each handler is one action because all of them run on the io thread. The remote
side is unconstrained: any message may arrive on an open session. `handleMessage`
is `Choke`, `Unchoke`, `Interested`, `NotInterested`, `Have`, `Bitfield`,
`Request` (refused, ignored, disconnects, served) and `PieceBlock` (refused,
cancelled, stored, mismatch, completed, disk failure). `RequestNext` is the tail
of three of them: `selectPieceAndRequest` followed by `sendPieceRequest`.
`HandleError` is `handleError` with `removePeer` and `disconnect`.

Abstractions:

* A block is a slot of its piece and whether its bytes are right. The hash
  matches iff every slot holds right bytes. A slot is right for its length too, so
  block lengths do not occur here.
* The REQUESTs (CANCELs) that are written for the blocks of one piece are one
  entry of `sent`: no step separates them.
* `removePeer` looks for an address. Which listed peer it finds is left open
  (`HandleError`, `Unlist`); `PeerTable` models addresses.
* `begin` and `length` of a REQUEST are classified as the code's checks do (`RequestRange`): longer than
  `MAX_BLOCK_REQUEST_SIZE`; found to end beyond the piece; in the piece; or so near 2^32 that the sum of
  32 bits wraps to an end inside the piece. A wrapped request passes and reads some 4 GiB behind
  the piece: nothing, or, if the piece is one of `FarReach` (it begins that long before the end of the
  file), bytes that are not the piece's, sent in a PIECE message named `Stray`. `RangeCheckPasses`
  (section 5) proves that these are all the requests that pass. For an index beyond the table `pieceDone` reads past the end of the vector: both
  outcomes are possible in the model.
* The file at the start is whatever an earlier run left, perhaps one that was cut short:
  the pieces of `Leftover` are right in it, the others are not (`InitialDisk`).
  `parseFile` opens it without looking inside, so nothing is finished.
* Three idealisations. stdio buffers what `fwrite` is given: a failure that shows only when the buffer is
  written out, after the piece was marked, is not in `DiskFailure`. A handler that was queued when
  the socket was closed still runs in the code; here it can only run before (`Receiving`), while
  `Connection` and `LateError` of `PeerTable` have it. And messages are written whole: what the stream looks like
  if two `async_write`s of one socket are each taken in parts, and so mixed, is not modelled.
* A closed session's fields are reset where the code destroys the `Peer`; a `Peer`
  of the constant may then stand for a new session.

### 2.2 Download

What a user of the exchange may rely on: `Obtain` one piece with its bytes in
the file, `Serve` an obtained one, or `Work`, a step that does neither and that may
spoil what the file holds of a *missing* piece (a failed write), never of an
obtained one. `Exchange` implements it under `obtained <- finished`,
`count <- completedPieces`, `stored <-` the pieces whose disk content is verified,
`served <-` the pieces named by PIECE messages in `sent` (`ImplementsDownload`).

### 2.3 PeerTable

`connectToPeers` is one action per address (it holds the mutex for a round), run
by the main thread; `disconnectPeers` is one action per round, without the mutex,
so the list may change under its index (`cursor`). On the io thread: `Connected`,
`Accept` (which inserts in `blackListed` without the mutex; the insertion may be lost),
`Handshaked`, `HandleError` (with `removePeer`), `RefuseRequest` (a session that is
disconnected and stays listed). `RemoteGone` is the environment: a connection
breaks, and from then on its address reads as 0, although its error is delivered
later. `RawIp` is `Connection::getIP`. `accepting` says that the handler of an accept
is still to run: `acceptor->stop()` cancels it, unless it is queued already, and then it
runs once more (`Accept` with `cursor # 0`); a failed accept ends the loop (`AcceptFails`).
`late` are the sessions `disconnectPeers` closed while a message of theirs was queued: if it is a bad one
its handler still calls `removePeer`, which looks for the address 0 of a closed socket (`LateError`).

### 2.4 Swarm

`Swarm` EXTENDS `Exchange` and runs its handlers against remote peers: two FIFO
channels per peer, `choking`, `pending` (blocks a remote was asked for),
`remoteHas`. Remotes announce their pieces when a session opens, unchoke who is
interested, answer requests with right bytes in order, drop requests when they
choke and when they are cancelled. `asked` is a history variable used by one
property. The remote peers are not code of this repository: their definitions
follow from what `peer.cpp` expects and are marked external in the map.

### 2.5 Lifecycle

`stage` is where the main thread stands between two of its blocking calls. Its actions
follow `main`, `download` and `seed`: `ParseFile` (which ends the program if it fails, or
`MainFails` does, with an exception of the decoder), `AnnounceStarted` (`validateTracker`), `Listen`
(the acceptor), `CheckCount` and `Poll` (the condition and the body of the loop), `Finish`
(`disconnectPeers` unless we seed), `Report` (the last request of `download` and what
`main` makes of its result), `SeedAnnounce`, `SeedPoll` (`seed`), `MainFails` (an exception,
or the null pointer of a reply without peers). A request is `Answered`, `Refused` (it
reports an error; `due` stays as it was), ends the program, or never ends: it is made of blocking
calls without a timeout, and `AtTracker` says that the main thread is in one. `Init` is the state after the
constructor of `Torrent`; the option parsing before it, with its exits, is left out. The io thread marks a piece
and counts it in two steps (`MarkPiece`, `CountPiece`), may fail to write (`IoFails`), and
loses its accept loop to a failed accept (`AcceptFails`). `IntervalElapses` is time.

Abstractions: of a request the event, the port and the number of missing pieces (for the
bytes `left`) are kept, in `announce`. The sum of `buildTrackerQuery` over the marks is one
step: the marks only grow, so a sum taken piece by piece is between the sums before and after
it. The marks and the counter are plain `bool`s and integers that two threads use without a lock; the model
takes their writes in program order (sequential consistency), which the language does not promise. `connects` is output: whether the step just taken called `connectToPeers`. How pieces arrive
is `Exchange`, and what addresses are used for is `PeerTable`; `NoPeersAfterDisconnect` is what
`PeerTable` takes for granted when `ConnectToPeer` needs `cursor = 0`. `LastEvent` keeps the
"stopped" of the source, which the loop before it makes unreachable.

### 2.6 Connection

One session. An operation (`resolve`, `connect`, `read`, `write`) is first in `pending`; when the
kernel ends it (`Ends`) its handler goes to `ready`, the queue of `g_io_context`, and the io thread
runs the handlers in that order. Between the two anything may happen: the connection may break, the
main thread may close it, another session's handler may unlist this `Peer`. `Possible` says which
results asio can deliver: after `close()` an operation is aborted, or fails on the closed
descriptor; after a break what was received can still be read.

The handlers are the callbacks of `peer.cpp`: `Connected`, `GoodHandshake`, `BadHandshake`, `Length`
(`Peer::handle`), `GoodMessage` and `BadMessage` (`handleMessage` to its end, or to a
`return handleError`), `RefuseRequest` (which disconnects and goes on); and those of
`connection.cpp`: `Fail`, `Aborted`, `WriteDone`. They capture the `Connection` and a raw `this`
of the `Peer`. `errorCB` and `listed` are the `shared_ptr`s that keep the `Peer`; when a
step lets go of both and uses the `Peer` afterwards, or a later handler does (`DeadPeerUsed`),
`undefined` is set. The main thread disconnects in three steps (`MainDisconnects`, `MainCloses`,
`MainDropsCallback`), because `close()` tests first and locks afterwards; handlers that run
meanwhile may find the socket or the callback half changed (`Collide`).
What a message says is `Exchange`, which address is removed is `PeerTable`: here both are left open.

### 2.7 Transcoder and Transfer

`Transcoder` has the conversions of `transcoder.hpp`, the frames as sequences of bytes, the
three swaps that turn a block of the bitset into a byte of the bitfield, the loop that reads it, and
the addresses (`readAsLE32` of the compact peer list against `getIP` of the socket). Numbers keep
their 16 and 32 bits. (`writeAsBE16` converts to `uint8_t` before it shifts and so writes 0 for the high byte;
only `addU16` calls it, which nothing uses.)

`Transfer` runs this program against itself: `U` accepted the session and has the whole file, `D`
opened it and has nothing. It is what `Exchange` abstracts from: `pieceSize` with its short last
piece, the number of blocks, the loop of `requestPiece` (one round a step), the slot a
block goes to, the offsets in piece and file, the range check of `handleBlockRequest` in 32 bits, the loop that
puts the blocks together, and the frames that carry all this. Which piece is selected is left open.
The parsed metainfo is assumed to be consistent (`WellFormed`: the number of hashes fits the length), which
`parseFile` expects and does not check. The byte where nothing was written is `Hole`; a hash match is
equality of bytes. `Transfer` implements `Download` too (`TransferIsDownload`, with
`obtained <- finished` and `stored <-` the pieces whose bytes are in the file).

## 3. Runs

| run | module / cfg | checks | result |
|---|---|---|---|
| `download` | `MCExchange` / `MCDownload.cfg` | `TypeOK`, `FinishedIsVerified`, `CompletedPiecesIsFinished`, `QueueEntryIncomplete`, `QueuedIsCounted`, `RequestOnlyUnchoked`, `ImplementsDownload` | holds |
| `upload` | `MCExchange` / `MCUpload.cfg` | `ServedIsVerified`, `ImplementsDownload` | holds |
| `sessions` | `MCPeerTable` / `MCPeerTable.cfg` | `TypeOK`, `ListedWasEstablished`, `PendingIsBlackListed`, `OneSessionPerAddress`, `EstablishedIsListed`, `EstablishedMayReturn` | holds |
| `swarm_of_seeds` | `MCSwarm` / `MCSwarmSeeds.cfg` | `NoHashMiss`, `DownloadCompletes` | holds |
| `swarm_choking` | `MCSwarm` / `MCSwarmChoke.cfg` | `QueuedIsPending` | holds |
| `lifecycle` | `Lifecycle` / `Lifecycle.cfg` | `TypeOK`, `CompletedLeavesNothing`, `SuccessMeansComplete`, `NoPeersAfterDisconnect`, `DownloadEnds` | holds |
| `transfer` | `MCTransfer` / `MCTransfer.cfg` | `TypeOK`, `NeverDropped`, `BlocksMakeThePiece`, `WholeFile`, `Completes`, `TransferIsDownload` | holds |
| `connection` | `Connection` / `Connection.cfg` | `TypeOK`, `UsesLivePeer`, `HeardOfAgain`, `ReadsItsOwn`, `BrokenIsClosed` | holds |
| `count_of_blocks` | `MCSwarm` / `MCSwarmCount.cfg` | `HaveBlocksIsHeld` | violated (finding 1) |
| `late_block` | `MCSwarm` / `MCSwarmCancel.cfg` | `RefusedWasNotAskedFor` | violated (finding 2) |
| `idle_after_cancel` | `MCSwarm` / `MCSwarmIdle.cfg` | `DownloadCompletes` | violated (finding 3) |
| `wrapped_request` | `MCExchange` / `MCUploadFar.cfg` | `ServedIsVerified` | violated (finding 4) |

### Bounds and why they are enough

* **Exchange.** Two peers are what every interference needs (one asked, another
  completing). Two pieces, the first of two blocks and the last of one, give a
  choice in the selection, a first and a last block, and the short last piece.
  `MaxQueue` 2 lets the same piece be queued twice at one peer (a second BITFIELD
  does that) and different pieces at once. `MaxPriority` bounds the requests of a
  piece; 2 lets both peers be asked for it. `MaxMisses` bounds the hash misses.
  An action whose counter is at its bound is disabled; no property speaks of the
  bound. `Leftover` has one piece that is right in the file from the start and one that is not.
  `FarReach` is empty in all runs but `wrapped_request`: the file has at most 2^32 - 16384 bytes. Wrapped
  requests are made all the same.
* The `download` run does not follow states in which a peer is interested in us or
  has announced an index out of range (CONSTRAINT `DownloadSide`); the `upload` run
  follows those and not the ones with a wrong block in a queue (`UploadSide`), with
  smaller queues. `ImplementsDownload` is checked in both: `Serve` steps occur in the second only. The two sides share only `finished` and `disk`, which both runs reach
  in all combinations. Steps *into* an excluded state are still checked.
* VIEW `StoredState` leaves out `sent`: it is written by every step and read by none,
  so its value does not matter for what can follow. Invariants are about the rest of
  the state, and the properties of steps (`RequestOnlyUnchoked`, `ServedIsVerified`,
  the steps of `ImplementsDownload`) are evaluated on each step with its own `sent'`.
  `ImplementsDownload` reads `served` unprimed only in stuttering steps.
* SYMMETRY over peers (`Exchange`), sessions and addresses (`PeerTable`): these are
  interchangeable model values, and no liveness is checked in those runs.
* **PeerTable.** Three sessions and two addresses let a host be tried, lost, and tried again while
  another session is under way or broken, two sessions of one host be open when the removal by
  address looks for one of them, and a third be under way meanwhile. The session constant is the
  only bound; the properties are also proved for any number of sessions.
* **Swarm.** `swarm_of_seeds` has two peers that have all of three pieces.
  `swarm_choking` has two chokes to spend, an unequal distribution and peers that
  obtain pieces later; the invariant then includes all crossings of CHOKE, UNCHOKE,
  REQUEST and CANCEL. `QueuedIsPending` is also proved for every number of chokes, `NoHashMiss` for every
  number of peers and pieces. `MaxPriority` and `MaxMisses` are never reached there.

* **Lifecycle.** Three pieces give a first, a middle and a last one to mark and count while the
  main thread is at any of its stages; the state space is complete, no counter is capped. The
  port matters only through `SeedPort`, which the theorems treat for every port, the one that
  wraps to 0 included.

* **Connection.** `MaxWrites` 3 bounds the writes under way: two are written by the handshake, a third
  by a message, so that a failed write can come before, between and after the handlers of reads.
  Reads are not bounded. The theorems hold for every bound of at least 2.
* **Transfer.** Every file of 1 to 17 bytes in pieces of 2, 3, 5 or 7, with blocks of 3: pieces smaller than a
  block, of exactly one, of one and a short one, of two and a short one; last pieces that are
  full or shorter, down to one byte; up to nine pieces, so that the bitfield has a second byte. All bytes
  of the content differ, so that one in the wrong place is seen. Numbers near 2^32 are beyond these
  instances; the theorems treat them.

`CHECK_DEADLOCK FALSE` in all runs: `Exchange` stops when the program terminated, and
may stop at a bound; `PeerTable` stops when all sessions of the constant are used;
`Swarm` stops when everything is downloaded; `Lifecycle` stops when the program has ended;
`Connection` stops when the session is over or undefined, `Transfer` when the file is complete.

### Fairness

`Connection` has weak fairness of `IoThread` (`g_io_context.run()` goes on as long as a handler is
queued), of `MainThread` and `DeadPeerUsed` (a thread does not stop in the middle of a function), and of the ends of
`resolve` and `connect` (the kernel gives up in the end); and strong fairness of
`Ends("read", "error")`: from a connection that stays broken a read fails sooner or later, although
what was received before can still be delivered. Nothing makes the other end send, read or break.
`Transfer` has weak fairness of the io threads of both ends.

`Lifecycle` has weak fairness of `Proceed` (the main thread is scheduled where it does not wait for a
tracker) and of `CountPiece` (the io thread ends the handler it is in). Nothing makes a request to the tracker end:
`DownloadEnds` therefore says that the program ends or seeds *or* stays in a request for ever. Nothing makes pieces
arrive, so it starts from the last mark.

`SwarmSpec` has weak fairness of: `Deliver` (asio completes
a pending read, and the io thread runs the handler), `RemoteReads`,
`RemoteSendsBlock`, `RemoteUnchokes` (a remote that follows the protocol reads,
answers and unchokes in the end), `RemoteGains` (a leecher gets the pieces it lacks),
`Connect` (`download` queries the trackers at their interval for as long as the
download lasts, and `connectToPeers` opens what is not open). Choking has no fairness.
No connection breaks in `Swarm`. A run that refutes `DownloadCompletes` therefore
says: *while the connections last*, the download does not go on.

## 4. Findings

1. **`haveBlocks` counts arrivals** (`peer.cpp:272`), not the blocks held
   (`peer.hpp:56`: "how much i currently have"). After CHOKE and UNCHOKE all blocks
   of queued pieces are requested again, honest duplicates arrive, and a piece
   is assembled with a slot missing. The hash catches it (that no wrong piece is
   ever marked is proved); the piece is downloaded again.
2. **A late block ends the session** (`peer.cpp:254`). After the CANCEL for a piece another
   peer has finished, blocks the remote sent before it read the CANCEL find no queue
   entry and the session is dropped as if the piece had not been asked for.
3. **A cancelled peer stays idle** (`peer.cpp:261`). The handler returns without
   selecting another piece; as nothing is queued at that peer, nothing it sends will
   select one. If it is the only one with a missing piece, the download stops there as
   long as the session lasts. (A remote that ends idle sessions, and is
   named by the tracker again, hides this at the price of minutes.) This contradicts
   "Can fully download torrents" (`src/README.md:91`).
4. **The end of a requested block wraps** (`torrent.cpp:531`). `begin + length` is a sum of two `uint32_t`, widened
   afterwards. A request that begins within 16384 bytes of 2^32 passes the check of the next line, and the
   read begins at that offset in the file, counted from the named piece: where the file reaches so far,
   bytes of another piece, perhaps one that was never verified, are sent as bytes of this one; and a read
   that comes out short is sent at the full length. In smaller files nothing is found there and nothing sent, which is
   what `ServedIsVerified` is proved for (`FarReach = {}`).

Other behaviours the models show, without a run of their own:

* The port announced for seeding (`main.cpp:98`). `download(startport++, seed)` binds the socket to `--port`;
  `seed(startport)` then tells the tracker the next port, where nobody listens. The help says "Specify
  port for seeding." (`main.cpp:23`). In every state of `Lifecycle` with `stage = "seeding"` the port of
  `announce` is `SeedPort` and not `listenPort`.
* HAVE never selects a piece (`peer.cpp:174`). A piece is selected when a BITFIELD arrives and when a piece is
  completed. A peer that had nothing we miss by then is never asked for what it obtains later: with one peer that has
  the first of two pieces when it connects and obtains the other, `DownloadCompletes` fails in `Swarm`, against "Can
  fully download torrents" (`src/README.md:91`).
* A silent tracker stops the program (`tracker.cpp:92`). Name lookup, connect, write and `read_until` have no timeout
  and run on the thread that waits for the download to be over. A tracker that takes the connection and does not
  answer holds it there with every piece finished (`[]AtTracker` in `DownloadEnds`), while the message for this case
  is "The tracker has failed to respond in time" (`main.cpp:110`).
* Seeding is given up at the first failure (`torrent.cpp:224`). If the tracker fails between download and seed,
  `seed` returns and the program ends with success (`SeedAnnounce`); the README has it seed "until the user stops
  the program (ctrl+c)" (`src/README.md:76`).
* The comment in `handshaked` says that the search in `blackListed` "should only fail after incoming
  connection" (`torrent.cpp:335`). The address is read from the socket again and is 0 if the remote end has gone
  since its handshake arrived; the search then fails for an outgoing session too, and its host is never
  tried again. For sessions that are not broken `EstablishedMayReturn` says that this cannot happen.
* `UsesLivePeer` of `Connection` names the three ways to a callback on a destroyed `Peer`: the error of a write
  is handled before a read that has ended already, `removePeer` unlists a peer in place of another
  one with the same (or no) address, or the main thread disconnects while a handler is queued.
  TLC finds a violation of the invariant without any one of the three.
* One accept that fails ends the accept loop and leaves `started` set (`net/acceptor.cpp:39`), so `seed` does not
  start it again and accepts nobody (`SeedAnnounce` after `AcceptFails` in `Lifecycle`).

## 5. Proofs

`ExchangeProofs` proves, for any number of peers, pieces and blocks:

| theorem | statement |
|---|---|
| `ExchangeInvariant` | `Spec => []IInv` |
| `ExchangeTypeOK` | `Spec => []TypeOK` |
| `FinishedPiecesVerified` | `Spec => []FinishedIsVerified` |
| `CountMatchesFinished` | `Spec => []CompletedPiecesIsFinished` |
| `QueuedPiecesWait` | `Spec => []QueueEntryIncomplete` |

The only assumption is `ExchangeAssumption` (the constants are natural numbers, every
piece has at least one block, the pieces of `Leftover` and `FarReach` are pieces). `Peer` may be infinite.

The inductive invariant `IInv` is the conjunction of the four, none of which is
inductive alone. `TypeOK` includes `completedPieces <= NumPieces`, which holds
because the counter is the cardinality of a set of pieces
(`CompletedPiecesIsFinished`); that it grows with the set rests on the check of
`finished` in `Accepting`. `FinishedIsVerified` needs that a failed or repeated write
never concerns a finished piece. `QueueEntryIncomplete` makes the arrival counter hit
its target exactly: it is below the number of blocks before a block, so at most equal
to it afterwards, and an entry that is left in the queue is below it again.
For the proof the invariant is split in `TorrentInv` and `SessionInv`; each handler has a
lemma, `RequestNextType` serves the three that ask for another piece, and
`NextKeepsIInv` puts them together. `ListLemmas` has what is needed about the community
modules' list operators (least elements, `RemoveAt`) and about heads, tails and concatenations of lists.

The second half of `ExchangeProofs` proves what every step of `Exchange` may do, from the same invariant:

| theorem | statement |
|---|---|
| `RequestsOnlyUnchoked` | `Spec => RequestOnlyUnchoked` |
| `ServedPiecesVerified` | `FarReach = {}` gives `Spec => ServedIsVerified` |
| `ExchangeImplementsDownload` | `FarReach = {}` gives `Spec => ImplementsDownload` |
| `QueuedPiecesCounted` | `Spec => []QueuedIsCounted` |

The steps are sorted by what they write: plain messages, REQUESTs (only `RequestNext` and
`Unchoke` write them, and both test the flag in the state they leave behind), and
PIECE messages (only of a finished piece, and `FinishedIsVerified` says what the file has of
it). The two theorems about serving are for files of at most 2^32 - `MAX_BLOCK_REQUEST_SIZE` bytes, with any
requests, wrapped ones included; the run `wrapped_request` shows that they fail in a larger one. For the refinement each action is an `Obtain`, a `Serve`, a `Work` or a stutter of `Download`; a failed
write is a `Work` because the piece it spoils is not finished. `QueuedPiecesCounted` counts the places of a piece in the
queues of all peers (`CountInv`): every new entry comes with a raised priority and no step lowers one.

`SwarmProofs` proves, for any number of remote peers, pieces, blocks and chokes (`MaxChokes` is any natural
number; assumptions: `ExchangeAssumption`, `SwarmAssumption`):

| theorem | statement |
|---|---|
| `SwarmInvariant` | `SwarmSpec => []SInv` |
| `SwarmImplementsExchange` | `SwarmSpec => Spec` |
| `SwarmImplementsDownload` | `SwarmSpec => ImplementsDownload` |
| `QueuedPiecesPending` | `SwarmSpec => []QueuedIsPending` |
| `NoHashMissWithoutChokes` | `MaxChokes = 0` gives `SwarmSpec => []NoHashMiss` |
| `HaveBlocksIsHeldWithoutChokes` | `MaxChokes = 0` gives `SwarmSpec => []HaveBlocksIsHeld` |

`SInv` is `IInv` with the types of the wires; a session that is closed leaves nothing behind. The other
invariants speak of one session at a time, so the proofs first say what a step can be for a session (`SessionStep`:
nothing happens to it, it opens, it ends, we take a message, the remote peer acts) and that it can be nothing
else (`StepOutcome`). `QueuedIsPending` is far from inductive; what makes it so are three facts about
the messages in flight:

* `OneRequest`: at most one piece is queued, because a remote announces its pieces once and each request follows
  the end of the one before; after a CANCEL nothing is queued (finding 3), so a CANCEL that the remote reads
  late drops no block we still wait for.
* `ChokeAgrees`: reading all that is under way brings our `PEER_CHOKING` to what the remote does (`WillChoke`: the
  last CHOKE or UNCHOKE decides). A request the remote ignored was therefore followed by an UNCHOKE that is
  still to be read, and its handler asks again.
* `BlocksComing`: when the remote lets us ask and we know it, the queued piece's request is still on the
  wire, or all missing blocks are in what was sent and what is still to be sent, and after each block the
  later ones. The second half is needed for duplicates: after CHOKE and UNCHOKE blocks come twice, and
  `haveBlocks` advances past what is really there; that the *numbers* from `haveBlocks` on are still
  to come holds nevertheless, because each block is followed by the later ones.

`QueuedIsPending` follows: if nothing is under way no block can be missing, and a queued piece always misses one
(`QueueEntryIncomplete`).

For `NoHashMiss` the remotes must not choke: with one choke a piece can be taken for complete with a slot missing
(finding 1). `Clean` says that then, before the first UNCHOKE is read, nothing has been asked for; that afterwards the blocks of the
queued piece come in strictly growing order, from `haveBlocks` on, and the slots before are filled; and that nothing
of a piece that is neither queued nor finished is on either wire. With `BlocksComing` the next block is exactly
number `haveBlocks` (`HeadBlock`), so the last one completes the right piece (`BlockInOrder`) and
no hash fails.

What a remote drops at a CANCEL is a recursive function (`Without`), of which only is proved that
it keeps some of the blocks (by a least counterexample, as induction theorems are not available); nothing more is needed.

`PeerTableProofs` proves, for any number of sessions and hosts:

| theorem | statement |
|---|---|
| `TableInvariant` | `Spec => []TableInv` |
| `PeerTableTypeOK` | `Spec => []TypeOK` |
| `ListedPeersWereEstablished` | `Spec => []ListedWasEstablished` |
| `SoleInvariant` | `Spec => []SoleInv` |
| `PendingAddressKnown` | `Spec => []PendingIsBlackListed` |
| `EstablishedSessionListed` | `Spec => []EstablishedIsListed` |
| `EstablishedHostMayReturn` | `Spec => []EstablishedMayReturn` |
| `NoSecondSession` | `Spec => []OneSessionPerAddress` |

The last five say what holds as long as no other host has opened a session to us (`OnlyOurs`, which
they contain): they fail with an accepted session, which is not looked up in either container.
`AcceptEndsOnlyOurs` and `OnlyOursBefore` show that `OnlyOurs` once lost is lost for good. `SoleInv` needs its three parts together: a new attempt is
not a second one because attempts are in `blackListed` and unbroken sessions in `activePeers`, and the
removal by address takes away the right entry because no two sessions hold one host (`OneHolds`).

`LifecycleProofs` proves, for any number of pieces and any port:

| theorem | statement |
|---|---|
| `LifecycleInvariant` | `Spec => []IInv` |
| `LifecycleTypeOK` | `Spec => []TypeOK` |
| `CompletedAnnouncedTruly` | `Spec => []CompletedLeavesNothing` |
| `SuccessIsTrue` | `Spec => []SuccessMeansComplete` |
| `DisconnectedForGood` | `Spec => NoPeersAfterDisconnect` |

Its `IInv` adds two facts: past the loop the counter is at its end (`PastLoop`), which with "the
counter is never ahead of the marks" gives that every piece is marked; and once the peers were
disconnected only the last request of `download` is to come (`DisconnectedAtEnd`).

`ConnectionProofs` proves, for any bound on the writes:

| theorem | statement |
|---|---|
| `ConnectionInvariant` | `Spec => []IInv` |
| `ConnectionTypeOK` | `Spec => []TypeOK` |
| `PeerLives` | `Spec => []UsesLivePeer` |
| `SessionsGoOn` | `Spec => []HeardOfAgain` |
| `StreamIsRead` | `Spec => []ReadsItsOwn` |

`TypeOK` includes that at most one operation is under way that the session waits for (`OneEar`); an ear whose
handler runs is therefore the only one, which is what lets a handler start the next (`EarTurn`,
`ReadStarts`). `IInv` adds who owns the `Peer` while an ear is under way (`Owned`), that aborted
operations belong to closed sockets (`AbortedIsClosed`), and that the socket is open, or about to be, as long
as the error callback is set (`OpenToHear`).

`TranscoderProofs` proves for all values of their width: `DecodedAsEncoded` (REQUEST and CANCEL),
`BlockDecodedAsEncoded` (PIECE), `BitfieldRoundTrip` (for every number of pieces and every set of them), and
`AddressesAgree` (the address of a compact peer entry is the one `getIP` reads from the socket, so
that the searches in `blackListed` and `activePeers` compare like with like).

`TransferProofs` proves, for every well-formed file, every content and every block size:

| theorem | statement |
|---|---|
| `Invariance` | `Spec => []IInv` |
| `TypeCorrect` | `Spec => []TypeOK` |
| `NothingDropped` | `Spec => []NeverDropped` |
| `PieceFromBlocks` | `Spec => []BlocksMakeThePiece` |
| `FileComplete` | `Spec => []WholeFile` |
| `TransferImplementsDownload` | `Spec => TransferIsDownload` |
| `RangeCheckPasses` | `InPiece`, the check of `handleBlockRequest`, passes exactly the requests that lie in the piece or whose end wraps into it; the latter begin within `MAX_BLOCK_REQUEST_SIZE` of 2^32 |

The assumptions are `TransferAssumption` and `ContentAssumption`: sizes fit the 32-bit fields, the content is bytes.
None of the properties is inductive, because each depends on what the frames in flight say. `IInv` says it: the
transfer is greeting, choked, working or over, and while it works the blocks of the queued piece are, in
order, in their slots, on the wire to `D`, asked for on the wire to `U`, and still to be asked
for (`InOrder`). That every frame is decoded as it was encoded comes from `TranscoderProofs`; that the
blocks partition the piece and stay below the limits from arithmetic on `BlockLength`.

`RangeCheckPasses` speaks of the requests `D` never makes: it follows from what the conversion to 32 bits does to a sum
of two words (`WordWraps`), and ties the classes of `RequestRange` to the arithmetic of the code.

`SwarmImplementsDownload` needs no condition on the file: the remotes of `Swarm` request nothing.

Every invariant and every action property that a passing run checks is also a theorem. Only
model-checked are the liveness properties `DownloadCompletes`, `DownloadEnds`, `Completes` and
`BrokenIsClosed`: liveness under fairness is out of TLAPS's reach.

## 6. Not modelled

* `customDownload` connects to one given address and waits for the counter; nothing in the
  repository calls it.
* cpp-bencoding and the decoding of the metainfo: a third-party library on local data. Of `parseFile` its
  outcomes, the file it opens and the sizes it delivers are modelled (`Lifecycle`, `Exchange`, `Transfer`).
* The text of HTTP requests and replies (their outcomes are in `Lifecycle`), the URL and SHA-1 helpers, option parsing, progress display: pure
  input/output and formatting. The exits of the option parsing (help, version, errors) come before the first
  state of `Lifecycle`.
* Whether the freed buffer of a write still holds the message when the socket takes it (`net/connection.cpp:111`):
  the writes are modelled, the allocator is not.
* The 64-bit conversions and the little-endian writes of `transcoder.hpp`, which nothing calls.

## 7. Plan

Done, in this order: `Exchange` and `Download`, `PeerTable`, `Swarm`, `Lifecycle`, `Transcoder`, `Transfer`,
`Connection`, and the theorems of section 5. What could follow:

1. `Connection` for several sessions at once over `PeerTable`'s containers, so that `passedOver` follows from
   addresses instead of being left open.
2. Uploads in `Swarm`: when a remote learns of pieces we obtained after it connected.
