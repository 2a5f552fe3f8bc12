----------------------------- MODULE Lifecycle -----------------------------
(***************************************************************************)
(* The run of the program: main (main.cpp), Torrent::download and seed     *)
(* (torrent.cpp), the requests to the tracker (tracker.cpp) and the accept *)
(* loop (acceptor.cpp).                                                    *)
(*                                                                         *)
(* The main thread runs main, download and seed, and waits for each        *)
(* answer of the tracker.  The io thread finishes pieces meanwhile: it     *)
(* marks a piece and counts it in two steps, without a lock, and the main  *)
(* thread reads both.  How pieces are obtained is Exchange.tla, what the   *)
(* addresses a tracker names are used for is PeerTable.tla.                *)
(*                                                                         *)
(* Data abstraction: of a request the event, the port and the number of    *)
(* missing pieces (for the bytes `left`) are kept; of the time, whether    *)
(* the next request is due.                                                *)
(***************************************************************************)
EXTENDS Integers

CONSTANTS
  NumPieces,  \* pieces.size()
  StartPort   \* --port

\* The values of a uint16_t.
PortCount == 65536
Port == 0 .. PortCount - 1

ASSUME LifecycleAssumption ==
  /\ NumPieces \in Nat
  /\ StartPort \in Port

VARIABLES
  stage,            \* where the main thread is
  seedAfter,        \* --seed
  exitCode,         \* what main returned, 0 before
  due,              \* Tracker::isNextRequestDue of mainTracker
  announce,         \* the last request to a tracker
  connects,         \* whether the last step called connectToPeers
  disconnected,     \* whether disconnectPeers ran
  listening,        \* whether an accept is pending on the listening socket
  started,          \* Acceptor::started
  listenPort,       \* the port of the listening socket
  finished,         \* how many pieces[i].finished are set
  completedPieces   \* Torrent::completedPieces

networkVars == <<disconnected, listening, started, listenPort>>
pieceVars == <<finished, completedPieces>>
vars == <<stage, seedAfter, exitCode, due, announce, connects, networkVars, pieceVars>>

Stage == {"parse", "announce", "listen", "wait", "poll", "finish", "report", "seedAnnounce",
          "seeding", "exited", "terminated"}
Event == {"none", "completed", "started", "stopped"}
Request == [event : Event, port : Port, left : 0 .. NumPieces]

\* download(startport++, seed): seed() gets the port after it, in 16 bits.
SeedPort == (StartPort + 1) % PortCount

\* Mutant: the last piece is left out of the sum of buildTrackerQuery.
LeftButLast == IF finished = NumPieces THEN 1 ELSE NumPieces - finished
Left == NumPieces - finished

\* main when its options are parsed and the Torrent is constructed.
Init ==
  /\ stage = "parse"
  /\ seedAfter \in BOOLEAN
  /\ exitCode = 0
  /\ due = TRUE
  /\ announce = [event |-> "none", port |-> StartPort, left |-> NumPieces]
  /\ connects = FALSE
  /\ disconnected = FALSE
  /\ listening = FALSE
  /\ started = FALSE
  /\ listenPort = 0
  /\ finished = 0
  /\ completedPieces = 0

-----------------------------------------------------------------------------
(***************************************************************************)
(* Tracker::httpRequest.  It may be answered; it may fail in a way that is *)
(* reported (no host, no connection, no HTTP reply, status not 200); or an *)
(* exception or a null pointer ends the program (the write fails, the      *)
(* reply is no dictionary, or one without peers or interval).              *)
(***************************************************************************)
Ask(event, port) == announce' = [event |-> event, port |-> port, left |-> Left]

\* Mutant: the peers of every answer are connected to.
AnsweredConnects(event, port) ==
  /\ Ask(event, port)
  /\ due' = FALSE
  /\ connects' = TRUE

Answered(event, port) ==
  /\ Ask(event, port)
  /\ due' = FALSE
  /\ connects' = (event \in {"none", "started"})

\* The time of the next request stays as it was.
Refused(event, port) ==
  /\ Ask(event, port)
  /\ connects' = FALSE
  /\ UNCHANGED due

Terminate ==
  /\ stage' = "terminated"
  /\ connects' = FALSE
  /\ UNCHANGED <<seedAfter, exitCode, due, announce, networkVars, pieceVars>>

Query(event, port) == Answered(event, port) \/ Refused(event, port)

Exit(code) ==
  /\ stage' = "exited"
  /\ exitCode' = code

-----------------------------------------------------------------------------
(***************************************************************************)
(* The main thread.                                                        *)
(***************************************************************************)
\* parseFile: the torrent file cannot be opened or names several files, or the file
\* to download to cannot be opened; then main returns 1.
ParseFile ==
  /\ stage = "parse"
  /\ \/ stage' = "announce" /\ UNCHANGED exitCode
     \/ Exit(1)
  /\ connects' = FALSE
  /\ UNCHANGED <<seedAfter, due, announce, networkVars, pieceVars>>

\* validateTracker: the tracker is kept if it answers; main returns 1 if not.
AnnounceStarted ==
  /\ stage = "announce"
  /\ \/ /\ Answered("started", StartPort)
        /\ stage' = "listen"
        /\ UNCHANGED exitCode
     \/ /\ Refused("started", StartPort)
        /\ Exit(1)
  /\ UNCHANGED <<seedAfter, networkVars, pieceVars>>

\* The socket is bound and the accept loop starts; an exception is not caught.
Listen ==
  /\ stage = "listen"
  /\ stage' = "wait"
  /\ listening' = TRUE
  /\ started' = TRUE
  /\ listenPort' = StartPort
  /\ connects' = FALSE
  /\ UNCHANGED <<seedAfter, exitCode, due, announce, disconnected, pieceVars>>

\* The condition of the loop of download.
CheckCount ==
  /\ stage = "wait"
  /\ stage' = IF completedPieces # NumPieces THEN "poll" ELSE "finish"
  /\ connects' = FALSE
  /\ UNCHANGED <<seedAfter, exitCode, due, announce, networkVars, pieceVars>>

\* Its body: a failed request is repeated in the next round.
Poll ==
  /\ stage = "poll"
  /\ stage' = "wait"
  /\ \/ due /\ Query("none", StartPort)
     \/ ~due /\ connects' = FALSE /\ UNCHANGED <<due, announce>>
  /\ UNCHANGED <<seedAfter, exitCode, networkVars, pieceVars>>

\* disconnectPeers stops the acceptor first.
Finish ==
  /\ stage = "finish"
  /\ stage' = "report"
  /\ connects' = FALSE
  /\ disconnected' = ~seedAfter
  /\ listening' = (listening /\ seedAfter)
  /\ started' = seedAfter
  /\ UNCHANGED <<seedAfter, exitCode, due, announce, listenPort, pieceVars>>

\* The last request of download; whether it is answered decides nothing.
LastEvent == IF completedPieces = NumPieces THEN "completed" ELSE "stopped"

Report ==
  /\ stage = "report"
  /\ Query(LastEvent, StartPort)
  /\ IF LastEvent = "completed" /\ seedAfter
     THEN stage' = "seedAnnounce" /\ UNCHANGED exitCode
     ELSE Exit(IF LastEvent = "completed" THEN 0 ELSE 1)
  /\ UNCHANGED <<seedAfter, networkVars, pieceVars>>

\* seed() returns at once if the tracker does not answer.  The accept loop is
\* started again only if started is not set.
SeedAnnounce ==
  /\ stage = "seedAnnounce"
  /\ \/ /\ Answered("started", SeedPort)
        /\ stage' = "seeding"
        /\ listening' = (listening \/ ~started)
        /\ started' = TRUE
        /\ UNCHANGED exitCode
     \/ /\ Refused("started", SeedPort)
        /\ Exit(0)
        /\ UNCHANGED <<listening, started>>
  /\ UNCHANGED <<seedAfter, disconnected, listenPort, pieceVars>>

\* The loop of seed, which has no end.
SeedPoll ==
  /\ stage = "seeding" /\ due
  /\ Query("completed", SeedPort)
  /\ UNCHANGED <<stage, seedAfter, exitCode, networkVars, pieceVars>>

\* An exception or a null pointer ends the program: in a torrent file that is not
\* bencoded or lacks an entry, in a request, or when the socket cannot be bound.
MainFails ==
  /\ \/ stage \in {"parse", "announce", "listen", "report", "seedAnnounce"}
     \/ stage \in {"poll", "seeding"} /\ due
  /\ Terminate

-----------------------------------------------------------------------------
(***************************************************************************)
(* The io thread, and time.                                                *)
(***************************************************************************)
Running == stage \notin {"exited", "terminated"}

\* handlePieceCompleted: the piece is marked, then counted, before the handler of
\* the next one.  No peer is known before the first answer of the tracker.
MarkPiece ==
  /\ Running /\ stage \notin {"parse", "announce"}
  /\ finished <= completedPieces /\ finished < NumPieces
  /\ finished' = finished + 1
  /\ connects' = FALSE
  /\ UNCHANGED <<stage, seedAfter, exitCode, due, announce, networkVars, completedPieces>>

\* Mutants: the piece is counted before it is marked; it is counted twice.
CountPieceFirst ==
  /\ Running
  /\ completedPieces <= finished /\ completedPieces < NumPieces
  /\ completedPieces' = completedPieces + 1
  /\ connects' = FALSE
  /\ UNCHANGED <<stage, seedAfter, exitCode, due, announce, networkVars, finished>>

CountPieceTwice ==
  /\ Running
  /\ completedPieces < finished
  /\ completedPieces' = completedPieces + 2
  /\ connects' = FALSE
  /\ UNCHANGED <<stage, seedAfter, exitCode, due, announce, networkVars, finished>>

CountPiece ==
  /\ Running
  /\ completedPieces < finished
  /\ completedPieces' = completedPieces + 1
  /\ connects' = FALSE
  /\ UNCHANGED <<stage, seedAfter, exitCode, due, announce, networkVars, finished>>

\* The file cannot be written: the exception leaves the io thread.
IoFails ==
  /\ Running /\ stage \notin {"parse", "announce"} /\ finished < NumPieces
  /\ Terminate

\* An accept fails: the loop ends and nobody is told.
AcceptFails ==
  /\ Running /\ listening
  /\ listening' = FALSE
  /\ connects' = FALSE
  /\ UNCHANGED <<stage, seedAfter, exitCode, due, announce, disconnected, started,
                 listenPort, pieceVars>>

IntervalElapses ==
  /\ Running /\ ~due
  /\ due' = TRUE
  /\ connects' = FALSE
  /\ UNCHANGED <<stage, seedAfter, exitCode, announce, networkVars, pieceVars>>

Main ==
  \/ ParseFile
  \/ AnnounceStarted
  \/ Listen
  \/ CheckCount
  \/ Poll
  \/ Finish
  \/ Report
  \/ SeedAnnounce
  \/ SeedPoll
  \/ MainFails

Next ==
  \/ Main
  \/ MarkPiece
  \/ CountPiece
  \/ IoFails
  \/ AcceptFails
  \/ IntervalElapses

\* httpRequest connects, writes and reads without a timeout: while the next step of
\* the main thread is a request, it may wait for ever for a tracker that is silent.
AtTracker ==
  \/ stage \in {"announce", "report", "seedAnnounce"}
  \/ stage \in {"poll", "seeding"} /\ due

Proceed == ~AtTracker /\ Main

(***************************************************************************)
(* Fairness: the main thread is scheduled where it does not wait for a     *)
(* tracker; the io thread ends the handler it is in.  Nothing says that a  *)
(* request ends or that pieces arrive.                                     *)
(***************************************************************************)
Spec == Init /\ [][Next]_vars /\ WF_vars(Proceed) /\ WF_vars(CountPiece)

-----------------------------------------------------------------------------
(***************************************************************************)
(* Properties.                                                             *)
(***************************************************************************)
\* Every variable has its type, and the counter is never ahead of the marks.
TypeOK ==
  /\ stage \in Stage
  /\ seedAfter \in BOOLEAN
  /\ exitCode \in {0, 1}
  /\ due \in BOOLEAN
  /\ announce \in Request
  /\ connects \in BOOLEAN
  /\ disconnected \in BOOLEAN
  /\ listening \in BOOLEAN
  /\ started \in BOOLEAN
  /\ listenPort \in Port
  /\ finished \in 0 .. NumPieces
  /\ completedPieces \in 0 .. finished

\* The tracker is told "completed" only with nothing left, although the event is
\* chosen by the counter and `left` is summed over the marks, both written by the
\* io thread meanwhile.
CompletedLeavesNothing == announce.event = "completed" => announce.left = 0

\* Success is returned only when every piece is there.
SuccessMeansComplete ==
  stage = "exited" /\ exitCode = 0 => finished = NumPieces

\* Once the peers were disconnected no address of a tracker is connected to, though
\* the tracker is asked once more (PeerTable.tla rests on it).
NoPeersAfterDisconnect == [][disconnected => ~connects']_vars

Over == stage \in {"exited", "seeding", "terminated"}

\* When the last piece is marked, the loop of download, which waits for the counter
\* to be equal to the number of pieces, is left, and the program ends or seeds:
\* unless it waits for the tracker for ever.
DownloadEnds == finished = NumPieces ~> Over \/ []AtTracker

=============================================================================
