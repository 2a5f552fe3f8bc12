-------------------------- MODULE ConnectionProofs --------------------------
(***************************************************************************)
(* The inductive invariant of Connection, and its theorems.                *)
(***************************************************************************)
EXTENDS Connection, SequenceTheorems, TLAPS

Completion == [op : Op, result : Result]

\* The orders of events that UsesLivePeer leaves out.
Excused == writeFailed \/ passedOver \/ main # "away"

\* Nothing has happened to a session that was not started.
Fresh ==
  role = "none" =>
    /\ ready = <<>> /\ inputStream = <<>> /\ pending = [op \in Op |-> 0]
    /\ ~isOpen /\ ~errorCB /\ ~listed /\ ~undefined
    /\ main = "away" /\ readCB = "handshake"

\* Before the socket is opened there is nothing but the resolver.
Resolving ==
  Outstanding("resolve") =>
    /\ pending["write"] = 0 /\ Queued("write") = {}
    /\ inputStream = <<>> /\ ~isOpen

\* Only what the closing of the socket ended is aborted.
AbortedIsClosed ==
  \A i \in DOMAIN ready :
    ready[i].result = "aborted" => ~isOpen /\ ready[i].op # "resolve"

\* The Peer that an operation goes on with is kept by the error callback, and an
\* established one by activePeers too.
Owned ==
  ~Excused =>
    /\ ~undefined
    /\ \A op \in Ear : Outstanding(op) => errorCB
    /\ errorCB /\ readCB \in {"length", "body"} => listed

\* As long as the error callback is set the session can go on.
OpenToHear ==
  errorCB /\ main = "away" /\ ~undefined =>
    (isOpen \/ Outstanding("resolve")) /\ \E op \in Ear : Outstanding(op)

IInv ==
  /\ TypeOK
  /\ Fresh
  /\ Resolving
  /\ AbortedIsClosed
  /\ Owned
  /\ OpenToHear
  /\ ReadsItsOwn

\* Outstanding in terms of the elements of the queue.
LEMMA OutstandingAt ==
  ASSUME NEW op
  PROVE  /\ Queued(op) = {} <=> \A i \in DOMAIN ready : ready[i].op # op
         /\ Outstanding(op) <=> pending[op] > 0 \/ \E i \in DOMAIN ready : ready[i].op = op
BY DEF Queued, Outstanding

LEMMA OutstandingAtNext ==
  ASSUME NEW op
  PROVE  /\ Queued(op)' = {} <=> \A i \in DOMAIN ready' : ready'[i].op # op
         /\ Outstanding(op)' <=> pending'[op] > 0 \/ \E i \in DOMAIN ready' : ready'[i].op = op
BY DEF Queued, Outstanding

\* The first handler leaves the queue.
LEMMA RunsQueue ==
  ASSUME ready \in Seq(Completion), NEW op \in Op, NEW result \in Result, Runs(op, result)
  PROVE  /\ ready' \in Seq(Completion)
         /\ 1 \in DOMAIN ready /\ ready[1].op = op /\ ready[1].result = result
         /\ \A i \in DOMAIN ready' : i + 1 \in DOMAIN ready /\ ready'[i] = ready[i + 1]
         /\ \A i \in DOMAIN ready : i = 1 \/ (i - 1 \in DOMAIN ready' /\ ready'[i - 1] = ready[i])
         /\ DOMAIN ready \subseteq Nat /\ DOMAIN ready' \subseteq Nat
BY DEF Runs, Completion

\* When an ear has its turn there is no other.
LEMMA EarTurn ==
  ASSUME TypeOK, NEW op \in Ear, NEW result \in Result, Runs(op, result)
  PROVE  /\ \A other \in Ear : pending[other] = 0
         /\ \A i \in DOMAIN ready' : ready'[i].op \notin Ear
<1>1. op \in Op /\ ready \in Seq(Completion) /\ pending \in [Op -> Nat] /\ OneEar
  BY DEF TypeOK, Ear, Completion
<1>2. /\ 1 \in DOMAIN ready /\ ready[1].op = op
      /\ \A i \in DOMAIN ready' : i + 1 \in DOMAIN ready /\ ready'[i] = ready[i + 1] /\ i + 1 # 1
  <2>1. \A i \in DOMAIN ready' : i \in Nat /\ i # 0
    BY <1>1, RunsQueue DEF Runs
  <2> QED
    BY <1>1, <2>1, RunsQueue
<1>3. \A other \in Ear : ~(pending[other] > 0)
  BY <1>1, <1>2 DEF OneEar
<1>4. \A other \in Ear : pending[other] \in Nat
  BY <1>1 DEF Ear
<1>5. \A i \in DOMAIN ready' : ready'[i].op \notin Ear
  BY <1>1, <1>2 DEF OneEar
<1> QED
  BY <1>3, <1>4, <1>5

\* The operations of a handler that goes on with the session: one ear again.
LEMMA ReadStarts ==
  ASSUME NEW unit \in Unit, NEW started \in [Op -> Nat], Read(unit, started),
         \A op \in Ear : started[op] = 0,
         \A i \in DOMAIN ready' : ready'[i].op \notin Ear,
         readCB \in Unit, isOpen \in BOOLEAN
  PROVE  /\ pending' \in [Op -> Nat] /\ readCB' \in Unit
         /\ OneEar'
         /\ pending'["write"] = started["write"]
         /\ isOpen => pending'["read"] = 1 /\ readCB' = unit
         /\ ~isOpen => pending'["read"] = 0 /\ readCB' = readCB
         /\ pending'["resolve"] = 0 /\ pending'["connect"] = 0
BY DEF Read, Start, Ear, Op, OneEar, Unit

\* The writes of a handler are no ears.
LEMMA WrittenStarts ==
  ASSUME pending \in [Op -> Nat], NEW n \in Nat
  PROVE  /\ Written(n) \in [Op -> Nat]
         /\ \A op \in Ear : Written(n)[op] = pending[op]
         /\ Written(n)["write"] = pending["write"] + n
BY DEF Written, Op, Ear

\* A handler that starts nothing and closes the session, or does nothing, leaves at
\* most the ears there were.
LEMMA EarsLeft ==
  ASSUME TypeOK, NEW op \in Op, NEW result \in Result, Runs(op, result), UNCHANGED pending
  PROVE  OneEar'
<1>1. ready \in Seq(Completion) /\ OneEar
  BY DEF TypeOK, Completion
<1>2. /\ \A i \in DOMAIN ready' : i + 1 \in DOMAIN ready /\ ready'[i] = ready[i + 1]
      /\ DOMAIN ready' \subseteq Nat
  BY <1>1, RunsQueue
<1> QED
  BY <1>1, <1>2 DEF OneEar

\* What is left in the stream after a callback.
LEMMA StreamConsumed ==
  ASSUME inputStream \in Seq(Unit), readCB \in Unit,
         inputStream' = Consumed(Append(inputStream, readCB))
  PROVE  inputStream' \in Seq(Unit) /\ (inputStream = <<>> => inputStream' = <<>>)
<1>1. Append(inputStream, readCB) \in Seq(Unit) /\ Append(inputStream, readCB) # <<>>
  BY AppendProperties
<1>2. inputStream = <<>> => inputStream' = <<>>
  BY DEF Consumed
<1> QED
  BY <1>1, <1>2 DEF Consumed

\* Every step keeps the types and the single ear.
LEMMA TypeStep ==
  ASSUME TypeOK, Fresh, [Next]_vars
  PROVE  TypeOK'
<1>1. /\ role \in {"none", "outgoing", "incoming"} /\ isOpen \in BOOLEAN /\ broken \in BOOLEAN
      /\ pending \in [Op -> Nat] /\ ready \in Seq(Completion) /\ readCB \in Unit
      /\ inputStream \in Seq(Unit) /\ errorCB \in BOOLEAN /\ listed \in BOOLEAN
      /\ main \in {"away", "close", "drop", "done"} /\ undefined \in BOOLEAN
      /\ writeFailed \in BOOLEAN /\ passedOver \in BOOLEAN /\ OneEar
  BY DEF TypeOK, Completion
<1> USE <1>1
<1>2. CASE Resolved
  <2>1. Runs("resolve", "ok") /\ "resolve" \in Ear /\ "ok" \in Result /\ "resolve" \in Op
    BY <1>2 DEF Resolved, Ear, Op, Result
  <2>2. /\ \A op \in Ear : pending[op] = 0
        /\ \A i \in DOMAIN ready' : ready'[i].op \notin Ear
    BY <2>1, EarTurn
  <2>3. ready' \in Seq(Completion)
    BY <2>1, RunsQueue
  <2>4. pending' = [pending EXCEPT !["connect"] = @ + 1]
    BY <1>2 DEF Resolved, Start
  <2>5. pending' \in [Op -> Nat] /\ OneEar'
    BY <2>2, <2>4 DEF OneEar, Op, Ear
  <2> QED
    BY <1>2, <2>3, <2>5 DEF TypeOK, Resolved, Completion, socketVars, readVars, ownerVars, history
<1>3. CASE Connected
  <2>1. Runs("connect", "ok") /\ "connect" \in Ear /\ "ok" \in Result /\ "connect" \in Op
    BY <1>3 DEF Connected, Ear, Op, Result
  <2>2. /\ \A op \in Ear : pending[op] = 0
        /\ \A i \in DOMAIN ready' : ready'[i].op \notin Ear
    BY <2>1, EarTurn
  <2>3. ready' \in Seq(Completion)
    BY <2>1, RunsQueue
  <2> DEFINE started == IF isOpen THEN Written(1) ELSE pending
  <2>4. started \in [Op -> Nat] /\ \A op \in Ear : started[op] = 0
    BY <2>2, WrittenStarts
  <2>5. Read("handshake", started) /\ "handshake" \in Unit
    BY <1>3 DEF Connected, Unit
  <2> HIDE DEF started
  <2>6. pending' \in [Op -> Nat] /\ readCB' \in Unit /\ OneEar'
    BY <2>2, <2>4, <2>5, ReadStarts
  <2> QED
    BY <1>3, <2>3, <2>6 DEF TypeOK, Connected, Completion, socketVars, ownerVars, history
<1>4. CASE GoodHandshake
  <2>1. /\ Runs("read", "ok") /\ "read" \in Ear /\ "ok" \in Result /\ "read" \in Op
        /\ inputStream' = Consumed(Append(inputStream, readCB))
    BY <1>4 DEF GoodHandshake, Received, Ear, Op, Result
  <2>2. /\ \A op \in Ear : pending[op] = 0
        /\ \A i \in DOMAIN ready' : ready'[i].op \notin Ear
    BY <2>1, EarTurn
  <2>3. ready' \in Seq(Completion) /\ inputStream' \in Seq(Unit)
    BY <2>1, RunsQueue, StreamConsumed
  <2> DEFINE started == IF role = "incoming" /\ isOpen THEN Written(2) ELSE pending
  <2>4. started \in [Op -> Nat] /\ \A op \in Ear : started[op] = 0
    BY <2>2, WrittenStarts
  <2>5. Read("length", started) /\ "length" \in Unit
    BY <1>4 DEF GoodHandshake, Unit
  <2> HIDE DEF started
  <2>6. pending' \in [Op -> Nat] /\ readCB' \in Unit /\ OneEar'
    BY <2>2, <2>4, <2>5, ReadStarts
  <2> QED
    BY <1>4, <2>3, <2>6 DEF TypeOK, GoodHandshake, Completion, socketVars, history
<1>5. CASE Length
  <2>1. /\ Runs("read", "ok") /\ "read" \in Ear /\ "ok" \in Result /\ "read" \in Op
        /\ inputStream' = Consumed(Append(inputStream, readCB))
    BY <1>5 DEF Length, Received, Ear, Op, Result
  <2>2. /\ \A op \in Ear : pending[op] = 0
        /\ \A i \in DOMAIN ready' : ready'[i].op \notin Ear
    BY <2>1, EarTurn
  <2>3. ready' \in Seq(Completion) /\ inputStream' \in Seq(Unit)
    BY <2>1, RunsQueue, StreamConsumed
  <2>4. PICK next \in Unit : Read(next, pending)
    BY <1>5 DEF Length, Unit
  <2>5. pending' \in [Op -> Nat] /\ readCB' \in Unit /\ OneEar'
    BY <2>2, <2>4, ReadStarts
  <2> QED
    BY <1>5, <2>3, <2>5 DEF TypeOK, Length, Completion, socketVars, ownerVars, history
<1>6. CASE GoodMessage
  <2>1. /\ Runs("read", "ok") /\ "read" \in Ear /\ "ok" \in Result /\ "read" \in Op
        /\ inputStream' = Consumed(Append(inputStream, readCB))
    BY <1>6 DEF GoodMessage, Received, Ear, Op, Result
  <2>2. /\ \A op \in Ear : pending[op] = 0
        /\ \A i \in DOMAIN ready' : ready'[i].op \notin Ear
    BY <2>1, EarTurn
  <2>3. ready' \in Seq(Completion) /\ inputStream' \in Seq(Unit)
    BY <2>1, RunsQueue, StreamConsumed
  <2>4. PICK n \in Room : Read("length", Written(n))
    BY <1>6 DEF GoodMessage
  <2>5. n \in Nat
    BY DEF Room
  <2>6. Written(n) \in [Op -> Nat] /\ (\A op \in Ear : Written(n)[op] = 0) /\ "length" \in Unit
    BY <2>2, <2>5, WrittenStarts DEF Unit
  <2>7. pending' \in [Op -> Nat] /\ readCB' \in Unit /\ OneEar'
    BY <2>2, <2>4, <2>6, ReadStarts
  <2> QED
    BY <1>6, <2>3, <2>7 DEF TypeOK, GoodMessage, Completion, socketVars, ownerVars, history
<1>7. CASE BadHandshake \/ BadMessage \/ RefuseRequest
  <2>1. /\ Runs("read", "ok") /\ "ok" \in Result /\ "read" \in Op
        /\ inputStream' = Consumed(Append(inputStream, readCB)) /\ UNCHANGED pending
    BY <1>7 DEF BadHandshake, BadMessage, RefuseRequest, Received, Op, Result
  <2>2. ready' \in Seq(Completion) /\ inputStream' \in Seq(Unit) /\ OneEar'
    BY <2>1, RunsQueue, StreamConsumed, EarsLeft
  <2>3. /\ isOpen' \in BOOLEAN /\ errorCB' \in BOOLEAN /\ listed' \in BOOLEAN /\ undefined' \in BOOLEAN
        /\ UNCHANGED <<role, broken, pending, readCB, main, history>>
    BY <1>7, Zenon DEF BadHandshake, BadMessage, RefuseRequest, HandleError, Disconnect
  <2> QED
    BY <2>2, <2>3 DEF TypeOK, Completion, history
<1>8. ASSUME NEW op \in Op, Fail(op) \/ Aborted(op)  PROVE TypeOK'
  <2>1. PICK result \in Result : Runs(op, result)
    BY <1>8 DEF Fail, Aborted, Result
  <2>2. UNCHANGED pending /\ Commit(op)
    BY <1>8 DEF Fail, Aborted
  <2>3. ready' \in Seq(Completion) /\ OneEar' /\ inputStream' \in Seq(Unit)
    BY <2>1, <2>2, RunsQueue, EarsLeft DEF Commit
  <2>4. /\ isOpen' \in BOOLEAN /\ errorCB' \in BOOLEAN /\ listed' \in BOOLEAN /\ undefined' \in BOOLEAN
        /\ writeFailed' \in BOOLEAN
        /\ UNCHANGED <<role, broken, pending, readCB, main, passedOver>>
    BY <1>8, Zenon DEF Fail, Aborted, HandleError, Disconnect, socketVars, ownerVars, history
  <2> QED
    BY <2>3, <2>4 DEF TypeOK, Completion
<1>9. CASE WriteDone
  <2>1. Runs("write", "ok") /\ "ok" \in Result /\ "write" \in Op /\ UNCHANGED pending
    BY <1>9 DEF WriteDone, Op, Result
  <2>2. ready' \in Seq(Completion) /\ OneEar'
    BY <2>1, RunsQueue, EarsLeft
  <2> QED
    BY <1>9, <2>2 DEF TypeOK, WriteDone, Completion, socketVars, readVars, ownerVars, history
<1>10. CASE Connect
  <2>1. ready = <<>> /\ pending = [op \in Op |-> 0]
    BY <1>10 DEF Connect, Fresh
  <2>2. pending' = [pending EXCEPT !["resolve"] = @ + 1] /\ UNCHANGED ready
    BY <1>10 DEF Connect, Start
  <2>3. pending' \in [Op -> Nat] /\ OneEar'
    BY <2>1, <2>2 DEF OneEar, Op, Ear
  <2> QED
    BY <1>10, <2>3 DEF TypeOK, Connect, Completion, readVars, history
<1>11. CASE Authenticate
  <2>1. ready = <<>> /\ pending = [op \in Op |-> 0]
    BY <1>11 DEF Authenticate, Fresh
  <2>2. pending' = [pending EXCEPT !["read"] = @ + 1] /\ UNCHANGED ready
    BY <1>11 DEF Authenticate, Start
  <2>3. pending' \in [Op -> Nat] /\ OneEar'
    BY <2>1, <2>2 DEF OneEar, Op, Ear
  <2> QED
    BY <1>11, <2>3 DEF TypeOK, Authenticate, Completion, Unit, history
<1>12. CASE Have
  <2>1. pending' = Written(1) /\ UNCHANGED ready
    BY <1>12 DEF Have
  <2>2. pending' \in [Op -> Nat] /\ OneEar'
    BY <2>1, WrittenStarts DEF OneEar
  <2> QED
    BY <1>12, <2>2 DEF TypeOK, Have, Completion, socketVars, readVars, ownerVars, history
<1>13. CASE PassOver \/ MainDisconnects \/ MainThread \/ Collide \/ Break
  <2>1. OneEar'
    BY <1>13, Zenon DEF OneEar, PassOver, MainDisconnects, MainThread, MainCloses, MainDropsCallback,
            Collide, Break, socketVars, readVars, ownerVars, history
  <2> QED
    BY <1>13, <2>1 DEF TypeOK, Completion, PassOver, MainDisconnects, MainThread, MainCloses,
            MainDropsCallback, Collide, Break, socketVars, readVars, ownerVars, history
<1>14. CASE DeadPeerUsed
  <2>1. /\ UNCHANGED pending
        /\ (\E op \in Op : Runs(op, "ok")) \/ UNCHANGED ready
    BY <1>14 DEF DeadPeerUsed, Op
  <2>2. ready' \in Seq(Completion) /\ OneEar'
    BY <2>1, RunsQueue, EarsLeft DEF Result, OneEar
  <2> QED
    BY <1>14, <2>2 DEF TypeOK, DeadPeerUsed, Completion, socketVars, readVars, ownerVars, history
<1>15. ASSUME NEW op \in Op, NEW result \in Result, Ends(op, result)  PROVE TypeOK'
  <2>1. /\ pending[op] > 0
        /\ pending' = [pending EXCEPT ![op] = @ - 1]
        /\ ready' = Append(ready, [op |-> op, result |-> result])
    BY <1>15 DEF Ends
  <2>2. pending' \in [Op -> Nat]
    BY <2>1
  <2>3. ready' \in Seq(Completion)
    BY <2>1 DEF Completion
  <2>4. OneEar'
    <3>1. /\ \A i \in DOMAIN ready' : i = Len(ready) + 1 \/ (i \in DOMAIN ready /\ ready'[i] = ready[i])
          /\ ready'[Len(ready) + 1].op = op
      BY <2>1 DEF Completion
    <3>2. \A other \in Op : other # op => pending'[other] = pending[other]
      BY <2>1
    <3>3. op \in Ear => pending[op] = 1 /\ pending'[op] = 0
      BY <2>1 DEF OneEar
    <3>4. Ear \subseteq Op
      BY DEF Ear
    <3> QED
      BY <2>1, <3>1, <3>2, <3>3, <3>4 DEF OneEar
  <2> QED
    BY <1>15, <2>2, <2>3, <2>4 DEF TypeOK, Ends, Completion, socketVars, readVars, ownerVars, history
<1>16. CASE UNCHANGED vars
  <2>1. OneEar'
    BY <1>16, Zenon DEF OneEar, vars
  <2> QED
    BY <1>16, <2>1 DEF TypeOK, vars, Completion, socketVars, readVars, ownerVars, history
<1> QED
  BY <1>2, <1>3, <1>4, <1>5, <1>6, <1>7, <1>8, <1>9, <1>10, <1>11, <1>12, <1>13, <1>14, <1>15, <1>16
     DEF Next, IoThread

\* No ear is outstanding.
Deaf ==
  /\ \A op \in Ear : pending[op] = 0
  /\ \A i \in DOMAIN ready : ready[i].op \notin Ear

\* What the handlers that go on with a read have in common.
GoesOn == Connected \/ GoodHandshake \/ Length \/ GoodMessage

\* The handlers that go on with the session leave at most one ear, the read they start.
LEMMA GoesOnEffect ==
  ASSUME TypeOK, GoesOn
  PROVE  /\ \E op \in {"connect", "read"} : Runs(op, "ok")
         /\ Alive
         /\ \A i \in DOMAIN ready' : ready'[i].op \notin Ear
         /\ pending'["resolve"] = 0 /\ pending'["connect"] = 0
         /\ isOpen => pending'["read"] = 1
         /\ ~isOpen => pending'["read"] = 0 /\ readCB' = readCB
         /\ UNCHANGED <<role, isOpen, errorCB, main, undefined, writeFailed, passedOver>>
         /\ listed' \in {listed, TRUE}
         /\ isOpen /\ readCB' \in {"length", "body"} /\ ~listed' =>
              readCB \in {"length", "body"} /\ ~listed
         /\ inputStream = <<>> => inputStream' = <<>>
<1>1. /\ pending \in [Op -> Nat] /\ isOpen \in BOOLEAN /\ readCB \in Unit /\ inputStream \in Seq(Unit)
      /\ listed \in BOOLEAN
  BY DEF TypeOK
<1>2. PICK op \in {"connect", "read"} : Runs(op, "ok")
  BY DEF GoesOn, Connected, GoodHandshake, Length, GoodMessage, Received
<1>3. /\ \A other \in Ear : pending[other] = 0
      /\ \A i \in DOMAIN ready' : ready'[i].op \notin Ear
  <2>1. op \in Ear /\ "ok" \in Result
    BY DEF Ear, Op, Result
  <2> QED
    BY <1>2, <2>1, EarTurn
<1>4. PICK unit \in Unit, n \in Nat :
        /\ Read(unit, IF n = 0 THEN pending ELSE Written(n))
        /\ unit = "handshake" \/ (Received("handshake") /\ listed' = TRUE)
             \/ (readCB \in {"length", "body"} /\ listed' = listed)
  <2>1. CASE Connected
    <3>1. Read("handshake", IF (IF isOpen THEN 1 ELSE 0) = 0
                            THEN pending ELSE Written(IF isOpen THEN 1 ELSE 0))
      BY <2>1, <1>1 DEF Connected
    <3> QED
      BY <3>1 DEF Unit
  <2>2. CASE GoodHandshake
    <3> DEFINE k == IF role = "incoming" /\ isOpen THEN 2 ELSE 0
    <3>1. Read("length", IF k = 0 THEN pending ELSE Written(k))
      BY <2>2 DEF GoodHandshake
    <3>2. k \in Nat
      OBVIOUS
    <3>3. Received("handshake") /\ listed' = TRUE
      BY <2>2 DEF GoodHandshake
    <3> HIDE DEF k
    <3> QED
      BY <3>1, <3>2, <3>3 DEF Unit
  <2>3. CASE Length
    <3>1. PICK next \in {"length", "body"} : Read(next, pending)
      BY <2>3 DEF Length
    <3>2. readCB \in {"length", "body"} /\ listed' = listed
      BY <2>3 DEF Length, Received, ownerVars
    <3> QED
      BY <3>1, <3>2 DEF Unit
  <2>4. CASE GoodMessage
    <3>1. PICK k \in Room : Read("length", Written(k))
      BY <2>4 DEF GoodMessage
    <3>2. readCB \in {"length", "body"} /\ listed' = listed
      BY <2>4 DEF GoodMessage, Received, ownerVars
    <3>3. k \in Nat /\ (k = 0 => Written(k) = pending)
      BY <1>1 DEF Room, Written
    <3>4. Read("length", IF k = 0 THEN pending ELSE Written(k))
      BY <3>1, <3>3
    <3> QED
      BY <3>2, <3>3, <3>4 DEF Unit
  <2> QED
    BY <2>1, <2>2, <2>3, <2>4 DEF GoesOn
<1> DEFINE started == IF n = 0 THEN pending ELSE Written(n)
<1>5. started \in [Op -> Nat] /\ \A other \in Ear : started[other] = 0
  BY <1>1, <1>3, WrittenStarts
<1>6. Read(unit, started)
  BY <1>4
<1> HIDE DEF started
<1>7. /\ isOpen => pending'["read"] = 1 /\ readCB' = unit
      /\ ~isOpen => pending'["read"] = 0 /\ readCB' = readCB
      /\ pending'["resolve"] = 0 /\ pending'["connect"] = 0
  BY <1>1, <1>3, <1>5, <1>6, ReadStarts
<1>8. /\ Alive /\ listed' \in {listed, TRUE}
      /\ UNCHANGED <<role, isOpen, errorCB, main, undefined, writeFailed, passedOver>>
  BY DEF GoesOn, Connected, GoodHandshake, Length, GoodMessage, Received, socketVars, ownerVars,
         history
<1>9. inputStream = <<>> => inputStream' = <<>>
  <2>1. UNCHANGED inputStream \/ inputStream' = Consumed(Append(inputStream, readCB))
    BY DEF GoesOn, Connected, GoodHandshake, Length, GoodMessage, Received
  <2> QED
    BY <1>1, <2>1, StreamConsumed
<1>10. isOpen /\ readCB' \in {"length", "body"} /\ ~listed' => readCB \in {"length", "body"} /\ ~listed
  BY <1>4, <1>7
<1> QED
  BY <1>2, <1>3, <1>7, <1>8, <1>9, <1>10

\* What the handlers that end the session have in common.
Refuses == BadHandshake \/ BadMessage \/ RefuseRequest

\* The handlers that refuse end the session.
LEMMA RefusesEffect ==
  ASSUME TypeOK, Refuses
  PROVE  /\ Runs("read", "ok")
         /\ Alive
         /\ Deaf'
         /\ ~isOpen' /\ ~errorCB'
         /\ UNCHANGED <<role, pending, readCB, main, writeFailed, passedOver>>
         /\ undefined' => ~errorCB \/ (~listed /\ readCB = "body")
<1>1. Runs("read", "ok") /\ "read" \in Ear /\ "ok" \in Result /\ UNCHANGED pending
  BY DEF Refuses, BadHandshake, BadMessage, RefuseRequest, Received, Ear, Op, Result
<1>2. Deaf'
  BY <1>1, EarTurn DEF Deaf
<1>3. /\ Alive /\ ~isOpen' /\ ~errorCB'
      /\ UNCHANGED <<role, pending, readCB, main, writeFailed, passedOver>>
  BY DEF Refuses, BadHandshake, BadMessage, RefuseRequest, Received, HandleError, Disconnect, history
<1>4. undefined' => ~errorCB \/ (~listed /\ readCB = "body")
  BY DEF Refuses, BadHandshake, BadMessage, RefuseRequest, Received, HandleError, TypeOK
<1> QED
  BY <1>1, <1>2, <1>3, <1>4

\* Before it is started the only steps of a session are the two that start it.
LEMMA StartsFirst ==
  ASSUME TypeOK, Fresh, Next, role = "none"
  PROVE  Connect \/ Authenticate
<1>1. /\ ready = <<>> /\ \A op \in Op : ~(pending[op] > 0)
      /\ ~isOpen /\ ~errorCB /\ ~listed /\ main = "away"
  BY DEF Fresh
<1>2. \A op, result : ~Runs(op, result)
  BY <1>1 DEF Runs
<1>3. ~IoThread
  BY <1>2 DEF IoThread, Resolved, Connected, GoodHandshake, BadHandshake, Length, GoodMessage,
              BadMessage, RefuseRequest, Received, Fail, Aborted, WriteDone
<1>4. ~Have /\ ~PassOver /\ ~MainDisconnects /\ ~MainThread /\ ~DeadPeerUsed /\ ~Collide /\ ~Break
  BY <1>1, <1>2 DEF Have, PassOver, MainDisconnects, MainThread, MainCloses, MainDropsCallback,
                    DeadPeerUsed, Collide, Break
<1>5. \A op \in Op, result \in Result : ~Ends(op, result)
  BY <1>1 DEF Ends
<1> QED
  BY <1>3, <1>4, <1>5 DEF Next

\* Nothing happens to a session before its start.
LEMMA FreshStep ==
  ASSUME TypeOK, Fresh, [Next]_vars
  PROVE  Fresh'
<1>1. CASE UNCHANGED vars
  BY <1>1, Zenon DEF Fresh, vars, socketVars, readVars, ownerVars
<1>2. CASE Next /\ role = "none"
  <2>1. role' # "none"
    BY <1>2, StartsFirst DEF Connect, Authenticate
  <2> QED
    BY <2>1 DEF Fresh
<1>3. CASE Next /\ role # "none"
  <2>1. role' = role
    BY <1>3, Zenon DEF Next, IoThread, Connect, Authenticate, Resolved, Connected, GoodHandshake, BadHandshake,
      Length, GoodMessage, BadMessage, RefuseRequest, Fail, Aborted, WriteDone, Have,
      PassOver, MainDisconnects, MainThread, MainCloses, MainDropsCallback, DeadPeerUsed,
      Collide, Break, Ends, socketVars
  <2> QED
    BY <1>3, <2>1 DEF Fresh
<1> QED
  BY <1>1, <1>2, <1>3

\* A handler that leaves the session as it was: of a write, or of an abort.
Idles == WriteDone \/ \E op \in Op : Aborted(op)

\* Steps that touch neither the operations nor the queue nor the socket.
Aside == PassOver \/ MainDisconnects \/ MainDropsCallback \/ Collide \/ Break

\* The steps by what they do to the operations and the queue.
LEMMA NextCases ==
  ASSUME Next
  PROVE  \/ Connect \/ Authenticate \/ Resolved \/ GoesOn \/ Refuses \/ Idles
         \/ \E op \in Op : Fail(op)
         \/ Have \/ Aside \/ MainCloses \/ DeadPeerUsed
         \/ \E op \in Op, result \in Result : Ends(op, result)
BY Zenon DEF Next, IoThread, MainThread, GoesOn, Refuses, Idles, Aside

\* What the resolver has to itself.
LEMMA ResolvingStep ==
  ASSUME IInv, [Next]_vars
  PROVE  Resolving'
<1>1. TypeOK /\ Fresh /\ Resolving
  BY DEF IInv
<1>2. ready \in Seq(Completion) /\ pending \in [Op -> Nat] /\ OneEar /\ isOpen \in BOOLEAN
  BY <1>1 DEF TypeOK, Completion
<1> DEFINE None == pending'["resolve"] = 0 /\ \A i \in DOMAIN ready' : ready'[i].op # "resolve"
<1>3. None => Resolving'
  BY OutstandingAtNext DEF Resolving
<1>4. CASE Connect
  <2>1. /\ ready' = <<>> /\ pending'["write"] = 0 /\ inputStream' = <<>> /\ ~isOpen'
    BY <1>1, <1>4 DEF Connect, Fresh, Start, Op, readVars
  <2> QED
    BY <2>1 DEF Resolving, Queued
<1>5. CASE Authenticate
  <2>1. None
    BY <1>1, <1>5 DEF Authenticate, Fresh, Start, Op
  <2> QED
    BY <2>1, <1>3
<1>6. CASE Resolved
  <2>1. None
    <3>1. Runs("resolve", "ok") /\ "resolve" \in Ear /\ "ok" \in Result
      BY <1>6 DEF Resolved, Ear, Op, Result
    <3>2. pending["resolve"] = 0 /\ \A i \in DOMAIN ready' : ready'[i].op \notin Ear
      BY <1>1, <3>1, EarTurn
    <3> QED
      BY <1>2, <1>6, <3>1, <3>2 DEF Resolved, Start, Op
  <2> QED
    BY <2>1, <1>3
<1>7. CASE GoesOn \/ Refuses
  <2>1. /\ pending'["resolve"] = 0
        /\ \A i \in DOMAIN ready' : ready'[i].op \notin Ear
    <3>1. CASE GoesOn
      BY <1>1, <3>1, GoesOnEffect
    <3>2. CASE Refuses
      BY <1>1, <3>2, RefusesEffect DEF Deaf, Ear, Op
    <3> QED
      BY <1>7, <3>1, <3>2
  <2>2. None
    BY <2>1 DEF Ear, Op
  <2> QED
    BY <2>2, <1>3
<1>8. CASE Idles \/ (\E op \in Op : Fail(op)) \/ (DeadPeerUsed /\ \E op \in {"connect", "read"} : Runs(op, "ok"))
  <2>1. PICK op \in Op, result \in Result : Runs(op, result)
    BY <1>8 DEF Idles, WriteDone, Fail, Aborted, DeadPeerUsed, Op, Result
  <2>2. UNCHANGED pending /\ (isOpen' => isOpen)
    <3>1. UNCHANGED pending /\ (isOpen' = FALSE \/ UNCHANGED isOpen)
      BY <1>8, Zenon DEF Idles, WriteDone, Fail, Aborted, DeadPeerUsed, socketVars, HandleError, Disconnect
    <3> QED
      BY <3>1
  <2>3. SUFFICES ASSUME Outstanding("resolve")'
                 PROVE  pending'["write"] = 0 /\ Queued("write")' = {} /\ inputStream' = <<>> /\ ~isOpen'
    BY DEF Resolving
  <2>4. /\ 1 \in DOMAIN ready /\ ready[1].op = op
        /\ \A i \in DOMAIN ready' : i + 1 \in DOMAIN ready /\ ready'[i] = ready[i + 1]
        /\ DOMAIN ready' \subseteq Nat
    BY <1>2, <2>1, RunsQueue
  <2>5. Outstanding("resolve")
    BY <2>2, <2>3, <2>4, OutstandingAt, OutstandingAtNext
  <2>6. pending["write"] = 0 /\ Queued("write") = {} /\ inputStream = <<>> /\ ~isOpen
    BY <1>1, <2>5 DEF Resolving
  <2>7. Queued("write")' = {}
    BY <2>4, <2>6, OutstandingAt, OutstandingAtNext
  <2>8. op # "write"
    BY <2>4, <2>6, OutstandingAt
  <2>9. op \notin Ear
    BY <1>1, <2>1, <2>2, <2>3, EarTurn, OutstandingAtNext DEF Ear, Op
  <2> QED
    BY <2>1, <2>8, <2>9 DEF Ear
<1>9. CASE Have
  <2>1. isOpen /\ UNCHANGED ready /\ pending'["resolve"] = pending["resolve"]
    BY <1>2, <1>9 DEF Have, Room, Written, Op
  <2>2. ~Outstanding("resolve")
    BY <1>1, <2>1 DEF Resolving
  <2> QED
    BY <2>1, <2>2, OutstandingAt, OutstandingAtNext DEF Resolving
<1>10. CASE Aside \/ MainCloses \/ (DeadPeerUsed /\ UNCHANGED ready) \/ UNCHANGED vars
  <2>1. UNCHANGED <<pending, ready, inputStream>> /\ (isOpen' => isOpen)
    BY <1>10 DEF Aside, PassOver, MainDisconnects, MainDropsCallback, Collide, Break, MainCloses, DeadPeerUsed,
                 vars, socketVars, readVars
  <2> QED
    BY <1>1, <2>1 DEF Resolving, Outstanding, Queued
<1>11. ASSUME NEW op \in Op, NEW result \in Result, Ends(op, result)  PROVE Resolving'
  <2>1. /\ pending[op] > 0 /\ pending' = [pending EXCEPT ![op] = @ - 1]
        /\ ready' = Append(ready, [op |-> op, result |-> result])
        /\ UNCHANGED <<isOpen, inputStream>>
    BY <1>11 DEF Ends, socketVars, readVars
  <2>2. /\ \A i \in DOMAIN ready' : i = Len(ready) + 1 \/ (i \in DOMAIN ready /\ ready'[i] = ready[i])
        /\ ready'[Len(ready) + 1].op = op
    BY <1>2, <2>1 DEF Completion
  <2>3. SUFFICES ASSUME Outstanding("resolve")'
                 PROVE  pending'["write"] = 0 /\ Queued("write")' = {} /\ inputStream' = <<>> /\ ~isOpen'
    BY DEF Resolving
  <2>4. Outstanding("resolve")
    <3>1. pending'["resolve"] > 0 => pending["resolve"] > 0
      BY <1>2, <2>1 DEF Op
    <3>2. ASSUME NEW i \in DOMAIN ready', ready'[i].op = "resolve"
          PROVE  pending["resolve"] > 0 \/ \E j \in DOMAIN ready : ready[j].op = "resolve"
      BY <2>1, <2>2, <3>2
    <3> QED
      BY <2>3, <3>1, <3>2, OutstandingAt, OutstandingAtNext
  <2>5. pending["write"] = 0 /\ Queued("write") = {} /\ inputStream = <<>> /\ ~isOpen
    BY <1>1, <2>4 DEF Resolving
  <2>6. op # "write"
    BY <2>1, <2>5
  <2>7. Queued("write")' = {}
    BY <2>2, <2>5, <2>6, OutstandingAt, OutstandingAtNext
  <2> QED
    BY <1>2, <2>1, <2>5, <2>6, <2>7 DEF Op
<1>12. DeadPeerUsed => UNCHANGED ready \/ \E op \in {"connect", "read"} : Runs(op, "ok")
  BY DEF DeadPeerUsed
<1> QED
  BY <1>4, <1>5, <1>6, <1>7, <1>8, <1>9, <1>10, <1>11, <1>12, NextCases

\* The socket is opened with nothing under way but the resolver, or at the start.
LEMMA OpensClean ==
  ASSUME IInv, Next, isOpen'
  PROVE  isOpen \/ (inputStream' = <<>> /\ ready' = <<>>)
<1>1. CASE Connect
  BY <1>1 DEF Connect, Resolving, IInv
<1>2. CASE Authenticate
  BY <1>2 DEF Authenticate, Fresh, IInv
<1>3. CASE Resolved
  <2>1. /\ Runs("resolve", "ok") /\ "resolve" \in Ear /\ "ok" \in Result /\ "resolve" \in Op
        /\ UNCHANGED inputStream
    BY <1>3 DEF Resolved, Ear, Op, Result, readVars
  <2>2. ready \in Seq(Completion) /\ TypeOK
    BY DEF TypeOK, Completion, IInv
  <2>3. \A i \in DOMAIN ready' : ready'[i].op \notin Ear
    BY <2>1, <2>2, EarTurn
  <2>4. /\ 1 \in DOMAIN ready /\ ready[1].op = "resolve"
        /\ \A i \in DOMAIN ready' : i + 1 \in DOMAIN ready /\ ready'[i] = ready[i + 1]
        /\ ready' \in Seq(Completion)
    BY <2>1, <2>2, RunsQueue
  <2>5. inputStream = <<>> /\ Queued("write") = {}
    BY <2>4, OutstandingAt DEF IInv, Resolving
  <2>6. \A i \in DOMAIN ready' : ready'[i].op # "write"
    BY <2>4, <2>5, OutstandingAt
  <2>7. \A i \in DOMAIN ready' : ready'[i].op \in Op
    <3>1. \A i \in DOMAIN ready' : ready'[i] \in Completion
      BY <2>4
    <3> QED
      BY <3>1 DEF Completion
  <2>8. DOMAIN ready' = {}
    BY <2>3, <2>6, <2>7 DEF Ear
  <2> QED
    BY <2>1, <2>4, <2>5, <2>8
<1>4. CASE GoesOn
  BY <1>4, GoesOnEffect DEF IInv
<1>5. CASE Refuses
  BY <1>5, RefusesEffect DEF IInv
<1>6. CASE Idles \/ Have \/ Aside \/ MainCloses \/ DeadPeerUsed \/ \E op \in Op, result \in Result : Ends(op, result)
  BY <1>6, Zenon DEF Idles, WriteDone, Aborted, Have, Aside, PassOver, MainDisconnects, MainDropsCallback,
     Collide, Break, MainCloses, DeadPeerUsed, Ends, socketVars
<1>7. CASE \E op \in Op : Fail(op)
  BY <1>7 DEF Fail, HandleError, Disconnect
<1> QED
  BY <1>1, <1>2, <1>3, <1>4, <1>5, <1>6, <1>7, NextCases

\* Only an operation of a closed socket is aborted.
LEMMA AbortedStep ==
  ASSUME IInv, [Next]_vars
  PROVE  AbortedIsClosed'
<1>1. TypeOK /\ Fresh /\ AbortedIsClosed /\ ready \in Seq(Completion)
  BY DEF IInv, TypeOK, Completion
<1>2. CASE UNCHANGED vars
  BY <1>1, <1>2 DEF AbortedIsClosed, vars, socketVars
<1>3. CASE Next
  <2>1. SUFFICES ASSUME NEW i \in DOMAIN ready', ready'[i].result = "aborted"
                 PROVE  ~isOpen' /\ ready'[i].op # "resolve"
    BY DEF AbortedIsClosed
  <2>2. ready' # <<>>
    OBVIOUS
  <2>3. isOpen' => isOpen
    BY <1>3, <2>2, OpensClean
  <2>4. CASE \E j \in DOMAIN ready : ready'[i] = ready[j]
    BY <1>1, <2>1, <2>3, <2>4 DEF AbortedIsClosed
  <2>5. CASE ~\E j \in DOMAIN ready : ready'[i] = ready[j]
    <3>1. \A op \in Op, result \in Result : ~Runs(op, result)
      BY <1>1, <2>5, RunsQueue
    <3>2. ~UNCHANGED ready
      BY <2>5
    <3>3. \E op \in Op, result \in Result : Ends(op, result)
      <4>1. ~Resolved /\ ~GoesOn /\ ~Refuses /\ ~Idles /\ ~\E op \in Op : Fail(op)
        <5>1. /\ {"resolve", "connect", "read", "write"} \subseteq Op
              /\ {"ok", "error", "aborted"} \subseteq Result
          BY DEF Op, Result
        <5>2. ~GoesOn /\ ~Refuses
          BY <1>1, <3>1, <5>1, GoesOnEffect, RefusesEffect
        <5>3. ~Resolved /\ ~Idles /\ ~\E op \in Op : Fail(op)
          BY <3>1, <5>1 DEF Resolved, Idles, WriteDone, Aborted, Fail
        <5> QED
          BY <5>2, <5>3
      <4>2. ~Connect /\ ~Authenticate /\ ~Have /\ ~Aside /\ ~MainCloses
        BY <3>2 DEF Connect, Authenticate, Have, Aside, PassOver, MainDisconnects, MainDropsCallback, Collide, Break,
                    MainCloses
      <4>3. ~DeadPeerUsed
        BY <3>1, <3>2 DEF DeadPeerUsed, Op, Result
      <4> QED
        BY <1>3, <4>1, <4>2, <4>3, NextCases
    <3>4. PICK op \in Op, result \in Result : Ends(op, result)
      BY <3>3
    <3>5. ready' = Append(ready, [op |-> op, result |-> result]) /\ Possible(op, result) /\ UNCHANGED isOpen
      BY <3>4 DEF Ends, socketVars
    <3>6. ready'[i] = [op |-> op, result |-> result]
      BY <1>1, <2>1, <2>5, <3>5
    <3> QED
      BY <2>1, <3>5, <3>6 DEF Possible
  <2> QED
    BY <2>4, <2>5
<1> QED
  BY <1>2, <1>3

\* The stream holds the bytes of the one read whose handler is to run.
LEMMA StreamStep ==
  ASSUME IInv, [Next]_vars
  PROVE  ReadsItsOwn'
<1>1. TypeOK /\ ReadsItsOwn /\ AbortedIsClosed /\ ready \in Seq(Completion)
  BY DEF IInv, TypeOK, Completion
<1>2. CASE UNCHANGED vars
  BY <1>1, <1>2 DEF ReadsItsOwn, vars, socketVars, readVars
<1>3. CASE Next
  <2>1. SUFFICES ASSUME isOpen', isOpen  PROVE inputStream' = <<>>
    BY <1>3, OpensClean DEF ReadsItsOwn
  <2>2. inputStream = <<>>
    BY <1>1, <2>1 DEF ReadsItsOwn
  <2>3. CASE GoesOn
    BY <1>1, <2>2, <2>3, GoesOnEffect
  <2>4. CASE Refuses
    BY <1>1, <2>1, <2>4, RefusesEffect
  <2>5. CASE \E op \in Op : Fail(op)
    BY <2>1, <2>5 DEF Fail, HandleError, Disconnect
  <2>6. CASE WriteDone
    BY <2>2, <2>6 DEF WriteDone, readVars
  <2>7. ASSUME NEW op \in Op, Aborted(op)  PROVE inputStream' = <<>>
    <3>1. Runs(op, "aborted") /\ "aborted" \in Result
      BY <2>7 DEF Aborted, Result
    <3>2. 1 \in DOMAIN ready /\ ready[1].result = "aborted"
      BY <1>1, <3>1, RunsQueue
    <3> QED
      BY <1>1, <2>1, <3>2 DEF AbortedIsClosed
  <2>8. CASE Connect \/ Resolved \/ Authenticate \/ Have \/ Aside \/ MainCloses \/ DeadPeerUsed
             \/ \E op \in Op, result \in Result : Ends(op, result)
    BY <2>2, <2>8 DEF Connect, Resolved, Authenticate, Have, Aside, PassOver, MainDisconnects, MainDropsCallback,
       Collide, Break, MainCloses, DeadPeerUsed, Ends, readVars
  <2> QED
    BY <1>3, <2>3, <2>4, <2>5, <2>6, <2>7, <2>8, NextCases DEF Idles
<1> QED
  BY <1>2, <1>3

\* A handler leaves what the queue had behind it.
LEMMA QueuedBehind ==
  ASSUME TypeOK, NEW op \in Op, NEW result \in Result, Runs(op, result), UNCHANGED pending,
         NEW other \in Op
  PROVE  /\ Outstanding(other)' => Outstanding(other)
         /\ Outstanding(other) => other = op \/ Outstanding(other)'
         /\ Outstanding(op)
<1>1. ready \in Seq(Completion)
  BY DEF TypeOK, Completion
<1>2. /\ 1 \in DOMAIN ready /\ ready[1].op = op
      /\ \A i \in DOMAIN ready' : i + 1 \in DOMAIN ready /\ ready'[i] = ready[i + 1]
      /\ \A i \in DOMAIN ready : i = 1 \/ (i - 1 \in DOMAIN ready' /\ ready'[i - 1] = ready[i])
  BY <1>1, RunsQueue
<1> QED
  BY <1>2, OutstandingAt, OutstandingAtNext

\* An operation that ends is outstanding until its handler runs.
LEMMA EndsQueued ==
  ASSUME TypeOK, NEW op \in Op, NEW result \in Result, Ends(op, result), NEW other \in Op
  PROVE  Outstanding(other)' <=> Outstanding(other)
<1>1. ready \in Seq(Completion) /\ pending \in [Op -> Nat]
  BY DEF TypeOK, Completion
<1>2. /\ pending[op] > 0 /\ pending' = [pending EXCEPT ![op] = @ - 1]
      /\ ready' = Append(ready, [op |-> op, result |-> result])
  BY DEF Ends
<1>3. /\ \A i \in DOMAIN ready' : i = Len(ready) + 1 \/ (i \in DOMAIN ready /\ ready'[i] = ready[i])
      /\ Len(ready) + 1 \in DOMAIN ready' /\ ready'[Len(ready) + 1].op = op
      /\ \A i \in DOMAIN ready : i \in DOMAIN ready' /\ ready'[i] = ready[i]
  BY <1>1, <1>2 DEF Completion
<1>4. other # op => pending'[other] = pending[other]
  BY <1>1, <1>2
<1>5. Outstanding(op) /\ Outstanding(op)'
  BY <1>2, <1>3, OutstandingAt, OutstandingAtNext
<1>6. other # op => (Outstanding(other)' <=> Outstanding(other))
  BY <1>3, <1>4, OutstandingAt, OutstandingAtNext
<1> QED
  BY <1>5, <1>6

\* No ear, in terms of Outstanding.
LEMMA DeafNext ==
  ASSUME Deaf', NEW op \in Ear
  PROVE  ~Outstanding(op)'
BY OutstandingAtNext DEF Deaf

\* Whoever lets go of the Peer leaves no operation that goes on with it.
LEMMA OwnedStep ==
  ASSUME IInv, [Next]_vars
  PROVE  Owned'
<1>1. /\ TypeOK /\ Fresh /\ Owned /\ Ear \subseteq Op
      /\ pending \in [Op -> Nat]
  BY DEF IInv, TypeOK, Ear
<1>2. CASE UNCHANGED vars
  BY <1>1, <1>2 DEF Owned, Excused, Outstanding, Queued, vars, readVars, ownerVars, history
<1>3. CASE Next
  <2>1. SUFFICES ASSUME ~Excused'
                 PROVE  /\ ~undefined'
                        /\ \A op \in Ear : Outstanding(op)' => errorCB'
                        /\ errorCB' /\ readCB' \in {"length", "body"} => listed'
    BY DEF Owned
  <2>2. CASE Connect
    BY <1>1, <2>2 DEF Connect, Fresh, readVars
  <2>3. CASE Authenticate
    BY <1>1, <2>3 DEF Authenticate, Fresh
  <2>4. ~Excused /\ (~Connect /\ ~Authenticate => role # "none")
    <3>1. ~Excused
      <4>1. CASE GoesOn
        BY <1>1, <2>1, <4>1, GoesOnEffect DEF Excused
      <4>2. CASE Refuses
        BY <1>1, <2>1, <4>2, RefusesEffect DEF Excused
      <4>3. CASE \E op \in Op : Fail(op)
        <5>1. PICK op \in Op : Fail(op)
          BY <4>3
        <5>2. /\ writeFailed' = (writeFailed \/ (op = "write" /\ errorCB))
              /\ main' = main /\ passedOver' = passedOver
          BY <5>1 DEF Fail
        <5>3. ~writeFailed' /\ ~passedOver' /\ main' = "away"
          BY <2>1 DEF Excused
        <5>4. ~writeFailed
          BY <5>2, <5>3, Zenon
        <5> QED
          BY <5>2, <5>3, <5>4, Zenon DEF Excused
      <4>4. CASE Connect \/ Authenticate \/ Resolved \/ Idles \/ Have \/ Aside \/ MainCloses \/ DeadPeerUsed
                 \/ \E op \in Op, result \in Result : Ends(op, result)
        BY <2>1, <4>4, Zenon DEF Excused, Connect, Authenticate, Resolved, Idles, WriteDone, Aborted, Have, Aside, PassOver,
           MainDisconnects, MainDropsCallback, Collide, Break, MainCloses, DeadPeerUsed, Ends, history
      <4> QED
        BY <1>3, <4>1, <4>2, <4>3, <4>4, NextCases
    <3> QED
      BY <1>1, <1>3, <3>1, StartsFirst
  <2>5. /\ ~undefined
        /\ \A op \in Ear : Outstanding(op) => errorCB
        /\ errorCB /\ readCB \in {"length", "body"} => listed
    BY <1>1, <2>4 DEF Owned
  <2>6. ASSUME NEW op \in Ear, NEW result \in Result, Runs(op, result)  PROVE errorCB
    <3>1. 1 \in DOMAIN ready /\ ready[1].op = op
      BY <1>1, <2>6, RunsQueue DEF TypeOK, Completion
    <3> QED
      BY <2>5, <3>1, OutstandingAt
  <2>7. {"resolve", "connect", "read"} = Ear /\ {"ok", "error", "aborted"} = Result
    BY DEF Ear, Op, Result
  <2>8. CASE Resolved
    <3>1. errorCB
      BY <2>6, <2>7, <2>8 DEF Resolved
    <3> QED
      BY <2>5, <2>8, <3>1 DEF Resolved, readVars, ownerVars
  <2>9. CASE GoesOn
    <3>1. errorCB
      BY <1>1, <2>6, <2>7, <2>9, GoesOnEffect
    <3>2. /\ undefined' = undefined /\ errorCB' = errorCB
          /\ ~isOpen => readCB' = readCB
          /\ listed' \in {listed, TRUE}
          /\ isOpen /\ readCB' \in {"length", "body"} /\ ~listed' =>
               readCB \in {"length", "body"} /\ ~listed
      BY <1>1, <2>9, GoesOnEffect
    <3>3. ~undefined' /\ errorCB'
      BY <2>5, <3>1, <3>2, Zenon
    <3>4. readCB' \in {"length", "body"} => listed'
      <4>1. readCB \in {"length", "body"} => listed
        BY <2>5, <3>1
      <4>2. CASE isOpen
        BY <3>2, <4>1, <4>2, Zenon
      <4>3. CASE ~isOpen
        <5>1. readCB' = readCB
          BY <3>2, <4>3
        <5>2. listed => listed'
          BY <3>2, Zenon
        <5>3. readCB' \in {"length", "body"} => readCB \in {"length", "body"}
          BY <5>1
        <5> QED
          BY <4>1, <5>2, <5>3, Zenon
      <4> QED
        BY <4>2, <4>3
    <3> QED
      BY <3>3, <3>4, Zenon
  <2>10. CASE Refuses
    <3>1. errorCB
      BY <1>1, <2>6, <2>7, <2>10, RefusesEffect
    <3> QED
      BY <1>1, <2>5, <2>10, <3>1, RefusesEffect, DeafNext
  <2>11. ASSUME NEW op \in Op, Fail(op)
         PROVE  /\ ~undefined' /\ ~errorCB'
                /\ \A other \in Ear : ~Outstanding(other)'
    <3>1. Runs(op, "error") /\ UNCHANGED pending
      BY <2>11 DEF Fail
    <3>2. CASE op \in Ear
      <4>1. errorCB
        BY <2>6, <2>7, <3>1, <3>2
      <4>2. op # "write"
        BY <2>1, <2>11, <4>1 DEF Fail, Excused
      <4>3. ~undefined' /\ ~errorCB'
        BY <2>11, <4>1 DEF Fail, HandleError, Disconnect
      <4>4. Deaf'
        BY <1>1, <2>7, <3>1, <3>2, EarTurn DEF Deaf
      <4> QED
        BY <4>3, <4>4, DeafNext
    <3>3. CASE op = "write"
      <4>1. ~errorCB
        BY <2>1, <2>11, <3>3 DEF Fail, Excused
      <4>2. ~undefined' /\ ~errorCB'
        BY <2>5, <2>11, <4>1 DEF Fail, ownerVars
      <4>3. ASSUME NEW other \in Ear  PROVE ~Outstanding(other)'
        <5>1. ~Outstanding(other)
          BY <2>5, <4>1
        <5> QED
          BY <1>1, <2>7, <3>1, <5>1, QueuedBehind
      <4> QED
        BY <4>2, <4>3
    <3> QED
      BY <3>2, <3>3 DEF Ear
  <2>12. CASE Idles
    <3>1. PICK op \in Op, result \in Result : Runs(op, result)
      BY <2>7, <2>12 DEF Idles, WriteDone, Aborted, Op
    <3>2. UNCHANGED <<pending, errorCB, listed, readCB, undefined>>
      BY <2>12 DEF Idles, WriteDone, Aborted, readVars, ownerVars
    <3> QED
      BY <1>1, <2>5, <3>1, <3>2, QueuedBehind
  <2>13. CASE Have
    <3>1. /\ UNCHANGED <<ready, errorCB, listed, readCB, undefined>>
          /\ pending' = Written(1)
      BY <2>13 DEF Have, readVars, ownerVars
    <3>2. \A op \in Ear : pending'[op] = pending[op]
      BY <1>1, <3>1, WrittenStarts
    <3> QED
      BY <2>5, <3>1, <3>2, OutstandingAt, OutstandingAtNext
  <2>14. CASE Aside \/ MainCloses \/ DeadPeerUsed
    <3>1. Break
      <4>1. main = "away" /\ main' = "away" /\ ~passedOver'
        BY <2>1, <2>4 DEF Excused
      <4>2. ~DeadPeerUsed
        BY <2>6, <2>7, <4>1 DEF DeadPeerUsed, Alive
      <4> QED
        BY <2>14, <4>1, <4>2 DEF Aside, PassOver, MainDisconnects, MainDropsCallback, Collide, MainCloses
    <3> QED
      BY <2>5, <3>1 DEF Break, Outstanding, Queued, readVars, ownerVars
  <2>15. ASSUME NEW op \in Op, NEW result \in Result, Ends(op, result)
         PROVE  /\ ~undefined'
                /\ \A other \in Ear : Outstanding(other)' => errorCB'
                /\ errorCB' /\ readCB' \in {"length", "body"} => listed'
    <3>1. UNCHANGED <<errorCB, listed, readCB, undefined>>
      BY <2>15 DEF Ends, readVars, ownerVars
    <3> QED
      BY <1>1, <2>5, <2>15, <3>1, EndsQueued
  <2> QED
    BY <1>3, <2>2, <2>3, <2>8, <2>9, <2>10, <2>11, <2>12, <2>13, <2>14, <2>15, NextCases
<1> QED
  BY <1>2, <1>3

\* The error callback is emptied before nothing is left to hear from.
LEMMA OpenStep ==
  ASSUME IInv, [Next]_vars
  PROVE  OpenToHear'
<1>1. /\ TypeOK /\ Fresh /\ OpenToHear /\ AbortedIsClosed /\ Ear \subseteq Op
      /\ pending \in [Op -> Nat]
  BY DEF IInv, TypeOK, Ear
<1>2. CASE UNCHANGED vars
  BY <1>1, <1>2 DEF OpenToHear, Outstanding, Queued, vars, socketVars, ownerVars
<1>3. CASE Next
  <2>1. SUFFICES ASSUME errorCB', main' = "away", ~undefined'
                 PROVE  (isOpen' \/ Outstanding("resolve")') /\ \E op \in Ear : Outstanding(op)'
    BY DEF OpenToHear
  <2>2. CASE Connect
    <3>1. pending'["resolve"] = 1 /\ "resolve" \in Ear
      BY <1>1, <2>2 DEF Connect, Fresh, Start, Ear, Op
    <3> QED
      BY <3>1, OutstandingAtNext
  <2>3. CASE Authenticate
    <3>1. pending'["read"] = 1 /\ "read" \in Ear /\ isOpen'
      BY <1>1, <2>3 DEF Authenticate, Fresh, Start, Ear, Op
    <3> QED
      BY <3>1, OutstandingAtNext
  <2>4. CASE Resolved
    <3>1. Runs("resolve", "ok") /\ "resolve" \in Ear /\ "ok" \in Result /\ "connect" \in Ear
      BY <2>4 DEF Resolved, Ear, Op, Result
    <3>2. pending["connect"] = 0
      BY <1>1, <3>1, EarTurn
    <3>3. pending'["connect"] = 1 /\ isOpen'
      BY <1>1, <2>4, <3>1, <3>2 DEF Resolved, Start
    <3> QED
      BY <3>1, <3>3, OutstandingAtNext
  <2>5. {"resolve", "connect", "read"} = Ear /\ {"ok", "error", "aborted"} = Result /\ Op = Ear \cup {"write"}
    BY DEF Ear, Op, Result
  <2>6. ASSUME NEW op \in Ear, NEW result \in Result, Runs(op, result), op # "resolve"
        PROVE  ~Outstanding("resolve")
    <3>1. /\ ready \in Seq(Completion) /\ OneEar
      BY <1>1 DEF TypeOK, Completion
    <3>2. 1 \in DOMAIN ready /\ ready[1].op = op
      BY <1>1, <2>6, <3>1, RunsQueue
    <3>3. \A i \in DOMAIN ready : ready[i].op # "resolve"
      BY <2>5, <2>6, <3>1, <3>2 DEF OneEar
    <3>4. pending["resolve"] = 0
      BY <1>1, <2>5, <2>6, EarTurn
    <3> QED
      BY <3>3, <3>4, OutstandingAt
  <2>7. CASE GoesOn
    <3>0. errorCB' = errorCB /\ main' = main /\ undefined' = undefined
      BY <1>1, <2>7, GoesOnEffect
    <3>1. errorCB /\ main = "away" /\ ~undefined
      BY <2>1, <3>0, Zenon
    <3>2. ~Outstanding("resolve")
      <4>1. PICK op \in {"connect", "read"} : Runs(op, "ok")
        BY <1>1, <2>7, GoesOnEffect
      <4> QED
        BY <2>5, <2>6, <4>1
    <3>3. isOpen
      BY <1>1, <3>1, <3>2 DEF OpenToHear
    <3>4. isOpen' /\ pending'["read"] = 1
      BY <1>1, <2>7, <3>3, GoesOnEffect
    <3> QED
      BY <2>5, <3>4, OutstandingAtNext
  <2>8. CASE Refuses
    BY <1>1, <2>1, <2>8, RefusesEffect
  <2>9. ASSUME NEW op \in Op, Fail(op)  PROVE ~errorCB'
    BY <2>9, Zenon DEF Fail, HandleError, Disconnect, ownerVars
  <2>10. CASE Idles
    <3>1. /\ UNCHANGED <<pending, isOpen, errorCB, main, undefined>>
      BY <2>10 DEF Idles, WriteDone, Aborted, socketVars, ownerVars
    <3>2. /\ isOpen \/ Outstanding("resolve")
          /\ \E op \in Ear : Outstanding(op)
      BY <1>1, <2>1, <3>1 DEF OpenToHear
    <3>3. PICK op \in Op, result \in Result :
            Runs(op, result) /\ (op = "write" \/ result = "aborted")
      BY <2>5, <2>10 DEF Idles, WriteDone, Aborted
    <3>4. CASE op = "write"
      <4>1. \A other \in Ear : Outstanding(other) => Outstanding(other)'
        BY <1>1, <2>5, <3>1, <3>3, <3>4, QueuedBehind
      <4> QED
        BY <2>5, <3>1, <3>2, <4>1
    <3>5. CASE op # "write"
      <4>1. 1 \in DOMAIN ready /\ ready[1].op = op /\ ready[1].result = "aborted"
        BY <1>1, <3>3, <3>5, RunsQueue DEF TypeOK, Completion
      <4>2. ~isOpen /\ op # "resolve"
        BY <1>1, <4>1 DEF AbortedIsClosed
      <4>3. ~Outstanding("resolve")
        BY <2>5, <2>6, <3>3, <3>5, <4>2
      <4> QED
        BY <3>2, <4>2, <4>3
    <3> QED
      BY <3>4, <3>5
  <2>11. CASE Have
    <3>1. UNCHANGED <<ready, isOpen, errorCB, main, undefined>> /\ pending' = Written(1)
      BY <2>11 DEF Have, socketVars, ownerVars
    <3>2. \A op \in Ear : pending'[op] = pending[op]
      BY <1>1, <3>1, WrittenStarts
    <3>3. \A op \in Ear : Outstanding(op)' <=> Outstanding(op)
      BY <3>1, <3>2, OutstandingAt, OutstandingAtNext
    <3> QED
      BY <1>1, <2>1, <2>5, <3>1, <3>3 DEF OpenToHear
  <2>12. CASE Aside \/ MainCloses \/ DeadPeerUsed
    <3>1. PassOver \/ Break
      BY <2>1, <2>12 DEF Aside, MainDisconnects, MainDropsCallback, Collide, MainCloses, DeadPeerUsed
    <3>2. UNCHANGED <<pending, ready, isOpen, errorCB, main, undefined>>
      BY <3>1 DEF PassOver, Break, socketVars, ownerVars
    <3> QED
      BY <1>1, <2>1, <3>2 DEF OpenToHear, Outstanding, Queued
  <2>13. ASSUME NEW op \in Op, NEW result \in Result, Ends(op, result)
         PROVE  (isOpen' \/ Outstanding("resolve")') /\ \E other \in Ear : Outstanding(other)'
    <3>1. UNCHANGED <<isOpen, errorCB, main, undefined>>
      BY <2>13 DEF Ends, socketVars, ownerVars
    <3>2. \A other \in Op : Outstanding(other)' <=> Outstanding(other)
      BY <1>1, <2>13, EndsQueued
    <3> QED
      BY <1>1, <2>1, <2>5, <3>1, <3>2 DEF OpenToHear
  <2> QED
    BY <1>3, <2>1, <2>2, <2>3, <2>4, <2>7, <2>8, <2>9, <2>10, <2>11, <2>12, <2>13, NextCases
<1> QED
  BY <1>2, <1>3

\* The invariant holds at first.
LEMMA InitIInv ==
  ASSUME Init
  PROVE  IInv
<1>1. TypeOK
  <2>1. pending = [op \in Op |-> 0] /\ ready = <<>> /\ inputStream = <<>> /\ Ear \subseteq Op
    BY DEF Init, Ear
  <2>2. pending \in [Op -> Nat] /\ ready \in Seq([op : Op, result : Result]) /\ inputStream \in Seq(Unit)
    BY <2>1
  <2>3. OneEar
    BY <2>1 DEF OneEar
  <2>4. /\ role = "none" /\ ~isOpen /\ ~broken /\ readCB \in Unit /\ ~errorCB /\ ~listed
        /\ main = "away" /\ ~undefined /\ ~writeFailed /\ ~passedOver
    BY DEF Init, Unit
  <2>5. /\ isOpen \in BOOLEAN /\ broken \in BOOLEAN /\ errorCB \in BOOLEAN /\ listed \in BOOLEAN
        /\ undefined \in BOOLEAN /\ writeFailed \in BOOLEAN /\ passedOver \in BOOLEAN
    BY Zenon DEF Init
  <2> QED
    BY <2>2, <2>3, <2>4, <2>5 DEF TypeOK
<1>2. ~\E op \in Ear : Outstanding(op)
  BY DEF Init, Outstanding, Queued, Ear, Op
<1>3. Fresh /\ Resolving /\ AbortedIsClosed /\ OpenToHear /\ ReadsItsOwn
  BY <1>2 DEF Init, Fresh, Resolving, AbortedIsClosed, OpenToHear, ReadsItsOwn, Outstanding, Queued, Op
<1>4. Owned
  BY <1>2 DEF Init, Owned
<1> QED
  BY <1>1, <1>3, <1>4 DEF IInv

\* Every step keeps the invariant.
LEMMA NextIInv ==
  ASSUME IInv, [Next]_vars
  PROVE  IInv'
<1>1. TypeOK'
  BY TypeStep DEF IInv
<1>2. Fresh'
  BY FreshStep DEF IInv
<1> QED
  BY <1>1, <1>2, ResolvingStep, AbortedStep, StreamStep, OwnedStep, OpenStep DEF IInv

\* The inductive invariant holds, for any bound on the writes.
THEOREM ConnectionInvariant == Spec => []IInv
<1>1. Init => IInv
  BY InitIInv
<1>2. IInv /\ [Next]_vars => IInv'
  BY NextIInv
<1> QED
  BY <1>1, <1>2, PTL DEF Spec

\* The variables keep their types, and a session never waits for two operations at
\* once: its reads share one stream and one callback.
THEOREM ConnectionTypeOK == Spec => []TypeOK
<1>1. IInv => TypeOK
  BY DEF IInv
<1> QED
  BY <1>1, ConnectionInvariant, PTL

\* A destroyed Peer is used only after the handler of a failed write, the removal of
\* another Peer, or the disconnection by the main thread.
THEOREM PeerLives == Spec => []UsesLivePeer
<1>1. IInv => UsesLivePeer
  BY DEF IInv, Owned, Excused, UsesLivePeer
<1> QED
  BY <1>1, ConnectionInvariant, PTL

\* A session that keeps its Peer has an operation under way that goes on with it.
THEOREM SessionsGoOn == Spec => []HeardOfAgain
<1>1. IInv => HeardOfAgain
  BY DEF IInv, OpenToHear, HeardOfAgain
<1> QED
  BY <1>1, ConnectionInvariant, PTL

\* A callback is handed the bytes of its own read.
THEOREM StreamIsRead == Spec => []ReadsItsOwn
<1>1. IInv => ReadsItsOwn
  BY DEF IInv
<1> QED
  BY <1>1, ConnectionInvariant, PTL

=============================================================================
