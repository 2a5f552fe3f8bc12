-------------------------- MODULE LifecycleProofs --------------------------
(***************************************************************************)
(* Proofs about Lifecycle for any number of pieces and any port.           *)
(*                                                                         *)
(* What ties the two threads together is that the counter is never ahead   *)
(* of the marks (TypeOK) and that the main thread passes the loop of       *)
(* download only with the counter at its end (PastLoop).                   *)
(***************************************************************************)
EXTENDS Lifecycle, TLAPS

PastLoop ==
  stage \in {"finish", "report", "seedAnnounce", "seeding"} => completedPieces = NumPieces

\* Where the main thread may be once the peers were disconnected.
DisconnectedAtEnd ==
  disconnected => /\ ~seedAfter
                  /\ stage \in {"report", "exited", "terminated"}

IInv ==
  /\ TypeOK
  /\ PastLoop
  /\ DisconnectedAtEnd
  /\ CompletedLeavesNothing
  /\ SuccessMeansComplete

LEMMA Constants ==
  /\ NumPieces \in Nat
  /\ 0 \in Port /\ StartPort \in Port /\ SeedPort \in Port
<1>1. PortCount \in Nat \ {0}
  BY DEF PortCount
<1>2. 0 \in Port /\ StartPort \in Port
  BY <1>1, LifecycleAssumption DEF Port
<1>3. SeedPort \in 0 .. PortCount - 1
  BY <1>1, <1>2 DEF SeedPort, Port
<1> QED
  BY <1>2, <1>3, LifecycleAssumption DEF Port

LEMMA InitIInv == Init => IInv
<1> SUFFICES ASSUME Init  PROVE IInv
  OBVIOUS
<1>1. announce \in Request
  BY Constants DEF Init, Request, Event
<1>2. TypeOK
  <2>1. stage \in Stage /\ exitCode \in {0, 1} /\ listenPort \in Port
    BY Constants DEF Init, Stage
  <2>2. seedAfter \in BOOLEAN /\ due \in BOOLEAN /\ connects \in BOOLEAN
    BY Zenon DEF Init
  <2>3. disconnected \in BOOLEAN /\ listening \in BOOLEAN /\ started \in BOOLEAN
    BY Zenon DEF Init
  <2>4. finished \in 0 .. NumPieces /\ completedPieces \in 0 .. finished
    BY Constants DEF Init
  <2> QED
    BY <1>1, <2>1, <2>2, <2>3, <2>4 DEF TypeOK
<1>3. PastLoop /\ DisconnectedAtEnd /\ CompletedLeavesNothing /\ SuccessMeansComplete
  BY DEF Init, PastLoop, DisconnectedAtEnd, CompletedLeavesNothing, SuccessMeansComplete
<1> QED
  BY <1>2, <1>3 DEF IInv

\* A request keeps its type, and says "completed" only with nothing left.
LEMMA QueryType ==
  ASSUME IInv, NEW event \in Event, NEW port \in Port, Query(event, port),
         event = "completed" => completedPieces = NumPieces
  PROVE  /\ announce' \in Request
         /\ due' \in BOOLEAN /\ connects' \in BOOLEAN
         /\ CompletedLeavesNothing'
<1>1. announce' = [event |-> event, port |-> port, left |-> NumPieces - finished]
  BY DEF Query, Answered, Refused, Ask, Left
<1>2. finished \in 0 .. NumPieces /\ completedPieces \in 0 .. finished /\ NumPieces \in Nat
  BY Constants DEF IInv, TypeOK
<1>3. NumPieces - finished \in 0 .. NumPieces
  BY <1>2
<1>4. announce' \in Request
  BY <1>1, <1>3 DEF Request
<1>5. CompletedLeavesNothing'
  BY <1>1, <1>2 DEF CompletedLeavesNothing
<1>6. due' \in BOOLEAN
  BY Zenon DEF Query, Answered, Refused, IInv, TypeOK
<1>7. connects' \in BOOLEAN
  <2>1. CASE Answered(event, port)
    <3>1. connects' = (event \in {"none", "started"})
      BY <2>1 DEF Answered
    <3>2. (event \in {"none", "started"}) \in BOOLEAN
      OBVIOUS
    <3> QED
      BY <3>1, <3>2, Zenon
  <2>2. CASE Refused(event, port)
    BY <2>2, Zenon DEF Refused
  <2> QED
    BY <2>1, <2>2 DEF Query
<1> QED
  BY <1>4, <1>5, <1>6, <1>7

LEMMA TerminateKeepsIInv ==
  ASSUME IInv, Terminate
  PROVE  IInv'
BY DEF Terminate, IInv, TypeOK, Stage, PastLoop, DisconnectedAtEnd, CompletedLeavesNothing,
       SuccessMeansComplete, networkVars, pieceVars

LEMMA MainKeepsIInv ==
  ASSUME IInv, Main
  PROVE  IInv'
<1> USE Constants DEF networkVars, pieceVars
<1> DEFINE Parts == /\ stage' \in Stage /\ seedAfter' \in BOOLEAN /\ exitCode' \in {0, 1}
                    /\ disconnected' \in BOOLEAN /\ listening' \in BOOLEAN
                    /\ started' \in BOOLEAN /\ listenPort' \in Port
                    /\ UNCHANGED <<finished, completedPieces>>
                    /\ PastLoop' /\ DisconnectedAtEnd' /\ SuccessMeansComplete'
<1>1. ASSUME NEW event \in Event, NEW port \in Port, Query(event, port),
             event = "completed" => completedPieces = NumPieces, Parts
      PROVE  IInv'
  BY <1>1, QueryType DEF IInv, TypeOK
<1>2. CASE AnnounceStarted
  <2>1. Query("started", StartPort)
    BY <1>2 DEF AnnounceStarted, Query
  <2>2. Parts
    BY <1>2 DEF AnnounceStarted, Exit, IInv, TypeOK, Stage, PastLoop, DisconnectedAtEnd,
                SuccessMeansComplete
  <2> QED
    BY <1>1, <2>1, <2>2 DEF Event
<1>3. CASE Poll
  <2>1. Parts
    BY <1>3 DEF Poll, IInv, TypeOK, Stage, PastLoop, DisconnectedAtEnd, SuccessMeansComplete
  <2>2. CASE Query("none", StartPort)
    BY <1>1, <2>1, <2>2 DEF Event
  <2>3. CASE connects' = FALSE /\ UNCHANGED <<due, announce>>
    BY <2>1, <2>3 DEF IInv, TypeOK, CompletedLeavesNothing
  <2> QED
    BY <1>3, <2>2, <2>3 DEF Poll
<1>4. CASE Report
  <2>1. LastEvent = "completed" => completedPieces = NumPieces
    BY DEF LastEvent
  <2>2. LastEvent \in Event
    BY DEF LastEvent, Event
  <2>3. completedPieces = NumPieces /\ finished = NumPieces
    BY <1>4 DEF Report, IInv, PastLoop, TypeOK
  <2>4. Parts
    BY <1>4, <2>3
       DEF Report, Exit, LastEvent, IInv, TypeOK, Stage, PastLoop, DisconnectedAtEnd,
           SuccessMeansComplete
  <2> QED
    BY <1>1, <1>4, <2>1, <2>2, <2>4 DEF Report
<1>5. CASE SeedAnnounce
  <2>1. Query("started", SeedPort)
    BY <1>5 DEF SeedAnnounce, Query
  <2>2. completedPieces = NumPieces /\ finished = NumPieces
    BY <1>5 DEF SeedAnnounce, IInv, PastLoop, TypeOK
  <2>3. Parts
    BY <1>5, <2>2
       DEF SeedAnnounce, Exit, IInv, TypeOK, Stage, PastLoop, DisconnectedAtEnd,
           SuccessMeansComplete
  <2> QED
    BY <1>1, <2>1, <2>3 DEF Event
<1>6. CASE SeedPoll
  <2>1. completedPieces = NumPieces
    BY <1>6 DEF SeedPoll, IInv, PastLoop
  <2>2. Parts
    BY <1>6 DEF SeedPoll, IInv, TypeOK, PastLoop, DisconnectedAtEnd, SuccessMeansComplete
  <2> QED
    BY <1>1, <1>6, <2>1, <2>2 DEF SeedPoll, Event
<1>7. CASE Listen
  BY <1>7 DEF Listen, IInv, TypeOK, Stage, PastLoop, DisconnectedAtEnd,
              CompletedLeavesNothing, SuccessMeansComplete
<1>8. CASE CheckCount
  BY <1>8 DEF CheckCount, IInv, TypeOK, Stage, PastLoop, DisconnectedAtEnd,
              CompletedLeavesNothing, SuccessMeansComplete
<1>9. CASE Finish
  BY <1>9 DEF Finish, IInv, TypeOK, Stage, PastLoop, DisconnectedAtEnd,
              CompletedLeavesNothing, SuccessMeansComplete
<1>10. CASE MainFails
  BY <1>10, TerminateKeepsIInv DEF MainFails
<1>11. CASE ParseFile
  <2>1. /\ UNCHANGED <<seedAfter, due, announce, disconnected, listening, started, listenPort,
                        finished, completedPieces>>
        /\ connects' = FALSE
        /\ stage' \in {"announce", "exited"} /\ exitCode' \in {0, 1}
        /\ stage' = "exited" => exitCode' = 1
        /\ stage = "parse"
    BY <1>11 DEF ParseFile, Exit, IInv, TypeOK
  <2>2. connects' \in BOOLEAN
    BY <2>1
  <2>3. TypeOK'
    BY <2>1, <2>2 DEF IInv, TypeOK, Stage
  <2>4. PastLoop' /\ CompletedLeavesNothing' /\ SuccessMeansComplete'
    BY <2>1 DEF IInv, PastLoop, CompletedLeavesNothing, SuccessMeansComplete
  <2>5. DisconnectedAtEnd'
    BY <2>1 DEF IInv, DisconnectedAtEnd
  <2> QED
    BY <2>3, <2>4, <2>5 DEF IInv
<1> QED
  BY <1>2, <1>3, <1>4, <1>5, <1>6, <1>7, <1>8, <1>9, <1>10, <1>11 DEF Main

\* The io thread moves the marks first and the counter after them.
LEMMA IoKeepsIInv ==
  ASSUME IInv, MarkPiece \/ CountPiece \/ IoFails \/ AcceptFails \/ IntervalElapses
  PROVE  IInv'
<1>1. CASE MarkPiece
  <2>1. /\ UNCHANGED <<stage, seedAfter, exitCode, due, announce, networkVars, completedPieces>>
        /\ connects' = FALSE /\ finished' = finished + 1
        /\ finished < NumPieces
    BY <1>1 DEF MarkPiece
  <2>2. finished \in Nat /\ NumPieces \in Nat /\ completedPieces \in 0 .. finished
    BY Constants DEF IInv, TypeOK
  <2>3. finished' \in 0 .. NumPieces /\ completedPieces' \in 0 .. finished'
    BY <2>1, <2>2
  <2>4. TypeOK'
    BY <2>1, <2>3 DEF IInv, TypeOK, networkVars
  <2>5. PastLoop' /\ DisconnectedAtEnd' /\ CompletedLeavesNothing' /\ SuccessMeansComplete'
    BY <1>1, <2>1 DEF MarkPiece, Running, IInv, PastLoop, DisconnectedAtEnd,
                      CompletedLeavesNothing, SuccessMeansComplete, networkVars
  <2> QED
    BY <2>4, <2>5 DEF IInv
<1>2. CASE CountPiece
  <2>1. /\ UNCHANGED <<stage, seedAfter, exitCode, due, announce, networkVars, finished>>
        /\ connects' = FALSE /\ completedPieces' = completedPieces + 1
        /\ completedPieces < finished
    BY <1>2 DEF CountPiece
  <2>2. completedPieces \in Nat /\ finished \in 0 .. NumPieces /\ NumPieces \in Nat
    BY Constants DEF IInv, TypeOK
  <2>3. completedPieces' \in 0 .. finished' /\ completedPieces # NumPieces
    BY <2>1, <2>2
  <2>4. TypeOK'
    BY <2>1, <2>3 DEF IInv, TypeOK, networkVars
  <2>5. PastLoop' /\ DisconnectedAtEnd' /\ CompletedLeavesNothing' /\ SuccessMeansComplete'
    BY <2>1, <2>3 DEF IInv, PastLoop, DisconnectedAtEnd, CompletedLeavesNothing,
                      SuccessMeansComplete, networkVars
  <2> QED
    BY <2>4, <2>5 DEF IInv
<1>3. CASE IoFails
  BY <1>3, TerminateKeepsIInv DEF IoFails
<1>4. CASE AcceptFails \/ IntervalElapses
  <2>1. UNCHANGED <<stage, seedAfter, exitCode, announce, disconnected, started, listenPort,
                    finished, completedPieces>>
    BY <1>4 DEF AcceptFails, IntervalElapses, networkVars, pieceVars
  <2>2. due' \in BOOLEAN /\ listening' \in BOOLEAN /\ connects' \in BOOLEAN
    BY <1>4, Zenon DEF AcceptFails, IntervalElapses, networkVars, IInv, TypeOK
  <2>3. TypeOK'
    BY <2>1, <2>2 DEF IInv, TypeOK
  <2>4. PastLoop' /\ DisconnectedAtEnd' /\ CompletedLeavesNothing' /\ SuccessMeansComplete'
    BY <2>1 DEF IInv, PastLoop, DisconnectedAtEnd, CompletedLeavesNothing,
                SuccessMeansComplete
  <2> QED
    BY <2>3, <2>4 DEF IInv
<1> QED
  BY <1>1, <1>2, <1>3, <1>4

LEMMA StutterKeepsIInv == IInv /\ UNCHANGED vars => IInv'
BY DEF IInv, TypeOK, PastLoop, DisconnectedAtEnd, CompletedLeavesNothing,
       SuccessMeansComplete, vars, networkVars, pieceVars

\* The inductive invariant of the run of the program.
THEOREM LifecycleInvariant == Spec => []IInv
<1>1. Init => IInv
  BY InitIInv
<1>2. IInv /\ [Next]_vars => IInv'
  BY MainKeepsIInv, IoKeepsIInv, StutterKeepsIInv DEF Next
<1> QED
  BY <1>1, <1>2, PTL DEF Spec

\* The counter is never ahead of the marks, and every variable has its type.
THEOREM LifecycleTypeOK == Spec => []TypeOK
BY LifecycleInvariant, PTL DEF IInv

\* "completed" is announced only with nothing left, although counter and marks are
\* written by the other thread.
THEOREM CompletedAnnouncedTruly == Spec => []CompletedLeavesNothing
BY LifecycleInvariant, PTL DEF IInv

\* main returns 0 only when every piece is there.
THEOREM SuccessIsTrue == Spec => []SuccessMeansComplete
BY LifecycleInvariant, PTL DEF IInv

\* After disconnectPeers no answer of a tracker opens a session again.
THEOREM DisconnectedForGood == Spec => NoPeersAfterDisconnect
<1> DEFINE Allowed == disconnected => ~connects'
<1>1. ASSUME IInv, Next  PROVE Allowed
  <2> SUFFICES ASSUME disconnected  PROVE ~connects'
    OBVIOUS
  <2>1. stage \in {"report", "exited", "terminated"}
    BY <1>1 DEF IInv, DisconnectedAtEnd
  <2>2. CASE Report
    BY <2>2 DEF Report, Query, Answered, Refused, LastEvent
  <2>3. CASE MainFails
    BY <2>3 DEF MainFails, Terminate
  <2>4. CASE MarkPiece \/ CountPiece \/ IoFails \/ AcceptFails \/ IntervalElapses
    BY <2>4 DEF MarkPiece, CountPiece, IoFails, Terminate, AcceptFails, IntervalElapses
  <2>5. ~ (ParseFile \/ AnnounceStarted \/ Listen \/ CheckCount \/ Poll \/ Finish \/ SeedAnnounce \/ SeedPoll)
    BY <2>1 DEF ParseFile, AnnounceStarted, Listen, CheckCount, Poll, Finish, SeedAnnounce, SeedPoll
  <2> QED
    BY <1>1, <2>2, <2>3, <2>4, <2>5 DEF Next, Main
<1>2. IInv /\ [Next]_vars => [Allowed]_vars
  BY <1>1
<1>3. Spec => [][Allowed]_vars
  BY <1>2, LifecycleInvariant, PTL DEF Spec
<1> QED
  BY <1>3 DEF NoPeersAfterDisconnect

=============================================================================
