-------------------------- MODULE PeerTableProofs --------------------------
(***************************************************************************)
(* Proofs about PeerTable for any number of sessions and addresses.        *)
(*                                                                         *)
(* TableInv holds whoever opens the sessions.  SoleInv says what holds as  *)
(* long as only we do (OnlyOurs).  Its conjuncts support each other: a new *)
(* attempt is not a second one for its host because an attempt under way   *)
(* is in blackListed and an unbroken session is in activePeers, and the    *)
(* removal by address takes away the right entry because no two sessions   *)
(* share a host.                                                           *)
(***************************************************************************)
EXTENDS PeerTable, ListLemmas

\* The host of every session that was used is known, and one that was not is
\* nobody's.
HostsKnown ==
  \A s \in Session : IF phase[s] = "unused" THEN ~outgoing[s] ELSE addr[s] \in Address

\* A message is handled late on a closed session only.
LateClosed == \A s \in late : phase[s] = "closed"

TableInv ==
  /\ TypeOK
  /\ ListedWasEstablished
  /\ HostsKnown
  /\ LateClosed

\* A session that is being opened, or established and not broken, holds its host.
Holds(s) ==
  \/ phase[s] \in {"connecting", "handshaking"}
  \/ phase[s] = "established" /\ s \notin gone

OneHolds == OnlyOurs => \A s, t \in Session : Holds(s) /\ Holds(t) /\ addr[s] = addr[t] => s = t

SoleInv ==
  /\ PendingIsBlackListed
  /\ EstablishedIsListed
  /\ EstablishedMayReturn
  /\ OneHolds

-----------------------------------------------------------------------------
(***************************************************************************)
(* removePeer takes at most one peer away, one of the same address.        *)
(***************************************************************************)
LEMMA ListedPeer ==
  ASSUME TypeOK, NEW k \in DOMAIN activePeers
  PROVE  activePeers[k] \in Session
<1>1. activePeers \in Seq(Session)
  BY DEF TypeOK
<1> QED
  BY <1>1, LenProperties, ElementOfSeq

LEMMA WithoutPeerCases ==
  ASSUME TypeOK, NEW s \in Session
  PROVE  \/ WithoutPeer(activePeers, s) = activePeers
         \/ \E k \in DOMAIN activePeers :
              /\ RawIp(activePeers[k]) = RawIp(s)
              /\ WithoutPeer(activePeers, s) = RemoveAt(activePeers, k)
<1> DEFINE found == {k \in 1 .. Len(activePeers) : RawIp(activePeers[k]) = RawIp(s)}
           first == IF found # {} THEN Min(found) ELSE 0
<1>1. activePeers \in Seq(Session)
  BY DEF TypeOK
<1>2. DOMAIN activePeers = 1 .. Len(activePeers) /\ Len(activePeers) \in Nat
  BY <1>1, LenProperties
<1>3. WithoutPeer(activePeers, s) = IF first = 0 THEN activePeers ELSE RemoveAt(activePeers, first)
  BY DEF WithoutPeer, SelectInSeq
<1>4. CASE found = {}
  BY <1>3, <1>4
<1>5. CASE found # {}
  <2>1. found \in SUBSET Nat
    BY <1>2
  <2> HIDE DEF found
  <2>2. Min(found) \in found
    BY <1>5, <2>1, MinInSet
  <2>3. Min(found) \in DOMAIN activePeers /\ RawIp(activePeers[Min(found)]) = RawIp(s)
    BY <1>2, <2>2 DEF found
  <2>4. first = Min(found)
    BY <1>5
  <2>5. Min(found) # 0
    BY <1>2, <2>3
  <2> QED
    BY <1>3, <2>3, <2>4, <2>5
<1> QED
  BY <1>4, <1>5

\* The list after removePeer: still peers, each once, all of them listed before;
\* a peer of another address stays.
LEMMA WithoutPeerProperties ==
  ASSUME TypeOK, NEW s \in Session
  PROVE  /\ WithoutPeer(activePeers, s) \in Seq(Session)
         /\ IsInjective(WithoutPeer(activePeers, s))
         /\ \A j \in DOMAIN WithoutPeer(activePeers, s) :
              \E k \in DOMAIN activePeers : WithoutPeer(activePeers, s)[j] = activePeers[k]
         /\ \A k \in DOMAIN activePeers : RawIp(activePeers[k]) # RawIp(s) =>
              \E j \in DOMAIN WithoutPeer(activePeers, s) :
                 WithoutPeer(activePeers, s)[j] = activePeers[k]
<1>1. activePeers \in Seq(Session) /\ IsInjective(activePeers)
  BY DEF TypeOK
<1>2. CASE WithoutPeer(activePeers, s) = activePeers
  BY <1>1, <1>2
<1>3. ASSUME NEW k \in DOMAIN activePeers,
             RawIp(activePeers[k]) = RawIp(s),
             WithoutPeer(activePeers, s) = RemoveAt(activePeers, k)
      PROVE  /\ WithoutPeer(activePeers, s) \in Seq(Session)
             /\ IsInjective(WithoutPeer(activePeers, s))
             /\ \A j \in DOMAIN WithoutPeer(activePeers, s) :
                  \E m \in DOMAIN activePeers : WithoutPeer(activePeers, s)[j] = activePeers[m]
             /\ \A m \in DOMAIN activePeers \ {k} :
                  \E j \in DOMAIN WithoutPeer(activePeers, s) :
                     WithoutPeer(activePeers, s)[j] = activePeers[m]
  BY <1>1, <1>3, RemoveAtProperties, RemoveAtKeepsOthers
<1> QED
  BY <1>2, <1>3, WithoutPeerCases

-----------------------------------------------------------------------------
(***************************************************************************)
(* The invariant of every table.                                           *)
(***************************************************************************)
LEMMA InitTableInv == Init => TableInv
<1> SUFFICES ASSUME Init  PROVE TableInv
  OBVIOUS
<1>1. activePeers \in Seq(Session) /\ DOMAIN activePeers = {}
  BY DEF Init
<1>2. IsInjective(activePeers)
  BY <1>1 DEF IsInjective
<1> QED
  BY <1>1, <1>2 DEF Init, TableInv, TypeOK, ListedWasEstablished, HostsKnown, LateClosed, Phase

\* A peer is listed when its handshake is accepted: it was not listed before.
LEMMA HandshakedKeepsTableInv ==
  ASSUME TableInv, NEW s \in Session, Handshaked(s)
  PROVE  TableInv'
<1>1. activePeers \in Seq(Session) /\ IsInjective(activePeers) /\ phase[s] = "handshaking"
  BY DEF TableInv, TypeOK, Handshaked
<1>2. \A k \in DOMAIN activePeers : activePeers[k] # s
  BY <1>1 DEF TableInv, ListedWasEstablished
<1>3. IsInjective(activePeers')
  BY <1>1, <1>2, AppendKeepsInjective DEF Handshaked
<1>4. /\ activePeers' \in Seq(Session)
      /\ \A k \in DOMAIN activePeers' :
           \/ activePeers'[k] = s
           \/ \E m \in DOMAIN activePeers : activePeers'[k] = activePeers[m]
  BY <1>1, AppendProperties, LenProperties DEF Handshaked
<1>5. ListedWasEstablished'
  <2>1. ASSUME NEW k \in DOMAIN activePeers'
        PROVE  phase'[activePeers'[k]] \in {"established", "closed"}
    BY <1>4, ListedPeer DEF Handshaked, TableInv, TypeOK, ListedWasEstablished
  <2> QED
    BY <2>1 DEF ListedWasEstablished
<1> QED
  BY <1>3, <1>4, <1>5 DEF Handshaked, TableInv, TypeOK, HostsKnown, LateClosed, Phase

\* A session is closed and its removal by address shortens the list, or not.
LEMMA ClosedKeepsTableInv ==
  ASSUME TableInv, NEW s \in Session,
         activePeers' = activePeers \/ activePeers' = WithoutPeer(activePeers, s),
         phase' = [phase EXCEPT ![s] = "closed"],
         cursor' \in Nat, accepting' \in BOOLEAN, late' \subseteq late \cup {s},
         UNCHANGED <<blackListed, outgoing, addr, gone>>,
         phase[s] # "unused"
  PROVE  TableInv'
<1>1. /\ activePeers' \in Seq(Session)
      /\ IsInjective(activePeers')
      /\ \A j \in DOMAIN activePeers' :
           \E k \in DOMAIN activePeers : activePeers'[j] = activePeers[k]
  BY WithoutPeerProperties DEF TableInv, TypeOK
<1>2. ListedWasEstablished'
  <2>1. ASSUME NEW j \in DOMAIN activePeers'
        PROVE  phase'[activePeers'[j]] \in {"established", "closed"}
    BY <1>1, ListedPeer DEF TableInv, TypeOK, ListedWasEstablished
  <2> QED
    BY <2>1 DEF ListedWasEstablished
<1> QED
  BY <1>1, <1>2 DEF TableInv, TypeOK, HostsKnown, LateClosed, Phase

LEMMA NextKeepsTableInv ==
  ASSUME TableInv, Next
  PROVE  TableInv'
<1>1. \A k \in DOMAIN activePeers : activePeers[k] \in Session
  BY ListedPeer DEF TableInv
<1>2. CASE StartDisconnectPeers
  BY <1>2 DEF StartDisconnectPeers, TableInv, TypeOK, ListedWasEstablished, HostsKnown, LateClosed
<1>3. CASE DisconnectNext
  <2>1. activePeers[cursor] \in Session /\ phase[activePeers[cursor]] # "unused"
    BY <1>1, <1>3 DEF DisconnectNext, TableInv, ListedWasEstablished
  <2>2. cursor' \in Nat
    BY <1>3 DEF DisconnectNext, TableInv, TypeOK
  <2>3. accepting' \in BOOLEAN
    BY <1>3 DEF DisconnectNext, TableInv, TypeOK
  <2> QED
    BY <1>3, <2>1, <2>2, <2>3, ClosedKeepsTableInv DEF DisconnectNext
<1>4. ASSUME NEW s \in Session, NEW a \in Address \cup {ZeroAddress}, ConnectToPeer(s, a)
      PROVE  TableInv'
  BY <1>1, <1>4
     DEF ConnectToPeer, TableInv, TypeOK, ListedWasEstablished, HostsKnown, LateClosed, Phase
<1>5. ASSUME NEW s \in Session, NEW a \in Address, NEW broken \in BOOLEAN, Accept(s, a, broken)
      PROVE  TableInv'
  BY <1>1, <1>5 DEF Accept, TableInv, TypeOK, ListedWasEstablished, HostsKnown, LateClosed, Phase
<1>6. CASE AcceptFails
  BY <1>6 DEF AcceptFails, TableInv, TypeOK, ListedWasEstablished, HostsKnown, LateClosed
<1>7. ASSUME NEW s \in Session, Connected(s)  PROVE TableInv'
  BY <1>1, <1>7 DEF Connected, TableInv, TypeOK, ListedWasEstablished, HostsKnown, LateClosed, Phase
<1>8. ASSUME NEW s \in Session, Handshaked(s)  PROVE TableInv'
  BY <1>8, HandshakedKeepsTableInv
<1>9. ASSUME NEW s \in Session, RemoteGone(s)  PROVE TableInv'
  BY <1>9 DEF RemoteGone, TableInv, TypeOK, ListedWasEstablished, HostsKnown, LateClosed
<1>10. ASSUME NEW s \in Session, HandleError(s)  PROVE TableInv'
  BY <1>10, ClosedKeepsTableInv DEF HandleError, Live, TableInv, TypeOK
<1>11. ASSUME NEW s \in Session, RefuseRequest(s)  PROVE TableInv'
  BY <1>11, ClosedKeepsTableInv DEF RefuseRequest, TableInv, TypeOK
<1>12. ASSUME NEW s \in Session, LateError(s)  PROVE TableInv'
  <2>1. phase[s] = "closed" /\ phase = [phase EXCEPT ![s] = "closed"]
    BY <1>12 DEF LateError, TableInv, TypeOK, LateClosed
  <2> QED
    BY <1>12, <2>1, ClosedKeepsTableInv DEF LateError, TableInv, TypeOK
<1> QED
  BY <1>2, <1>3, <1>4, <1>5, <1>6, <1>7, <1>8, <1>9, <1>10, <1>11, <1>12 DEF Next

\* What holds of the containers whoever opens the sessions.
THEOREM TableInvariant == Spec => []TableInv
<1>1. Init => TableInv
  BY InitTableInv
<1>2. TableInv /\ UNCHANGED vars => TableInv'
  BY DEF TableInv, TypeOK, ListedWasEstablished, HostsKnown, LateClosed, vars
<1>3. TableInv /\ [Next]_vars => TableInv'
  BY <1>2, NextKeepsTableInv
<1> QED
  BY <1>1, <1>3, PTL DEF Spec

\* No peer is listed twice, and every container has its type.
THEOREM PeerTableTypeOK == Spec => []TypeOK
BY TableInvariant, PTL DEF TableInv

\* A peer is on the list only if its session was established.
THEOREM ListedPeersWereEstablished == Spec => []ListedWasEstablished
BY TableInvariant, PTL DEF TableInv

-----------------------------------------------------------------------------
(***************************************************************************)
(* The invariant while only we open sessions.                              *)
(***************************************************************************)
\* An unbroken session reads the address of its host, any other one 0.
LEMMA RawIpOfHolder ==
  ASSUME TableInv, NEW s \in Session
  PROVE  /\ RawIp(s) # ZeroAddress => Holds(s) /\ RawIp(s) = addr[s]
         /\ phase[s] = "established" /\ s \notin gone => RawIp(s) = addr[s] /\ RawIp(s) # ZeroAddress
BY PeerTableAssumption DEF TableInv, HostsKnown, RawIp, Holds, Live

LEMMA InitSoleInv == Init => SoleInv
BY DEF Init, SoleInv, PendingIsBlackListed, EstablishedIsListed, EstablishedMayReturn, OneHolds, Holds

\* A step after which fewer sessions hold their hosts, and the same are pending or
\* fewer, while nothing leaves blackListed and no holder leaves the list.
LEMMA FewerHolders ==
  ASSUME OnlyOurs, TableInv, SoleInv, UNCHANGED <<addr, blackListed>>,
         \A s \in Session : Holds(s)' => Holds(s),
         \A s \in Session :
           /\ phase'[s] \in {"connecting", "handshaking"} =>
                phase[s] \in {"connecting", "handshaking"}
           /\ phase'[s] = "established" /\ s \notin gone' =>
                /\ phase[s] = "established" /\ s \notin gone
                /\ \A k \in DOMAIN activePeers : activePeers[k] = s =>
                     \E j \in DOMAIN activePeers' : activePeers'[j] = s
  PROVE  SoleInv'
<1>1. PendingIsBlackListed'
  BY DEF SoleInv, PendingIsBlackListed
<1>2. EstablishedIsListed'
  BY DEF SoleInv, EstablishedIsListed
<1>3. EstablishedMayReturn'
  BY DEF SoleInv, EstablishedMayReturn
<1>4. OneHolds'
  BY DEF SoleInv, OneHolds
<1> QED
  BY <1>1, <1>2, <1>3, <1>4 DEF SoleInv

\* The address of a new attempt is not held: it is neither pending nor listed.
LEMMA ConnectToPeerKeepsSoleInv ==
  ASSUME OnlyOurs, TableInv, SoleInv, NEW s \in Session, NEW a \in Address \cup {ZeroAddress},
         ConnectToPeer(s, a)
  PROVE  SoleInv'
<1>1. ASSUME NEW t \in Session, Holds(t)  PROVE addr[t] # a
  <2>1. CASE phase[t] \in {"connecting", "handshaking"}
    BY <2>1 DEF ConnectToPeer, Known, SoleInv, PendingIsBlackListed
  <2>2. CASE phase[t] = "established" /\ t \notin gone
    <3>1. \E k \in DOMAIN activePeers : activePeers[k] = t
      BY <2>2 DEF SoleInv, EstablishedIsListed
    <3> QED
      BY <2>2, <3>1, RawIpOfHolder DEF ConnectToPeer, Known
  <2> QED
    BY <1>1, <2>1, <2>2 DEF Holds
<1>2. /\ phase' = [phase EXCEPT ![s] = "connecting"] /\ addr' = [addr EXCEPT ![s] = a]
      /\ blackListed' = blackListed \cup {a} /\ UNCHANGED <<activePeers, gone>>
      /\ phase[s] = "unused" /\ phase \in [Session -> Phase] /\ DOMAIN addr = Session
  BY DEF ConnectToPeer, TableInv, TypeOK
<1>3. PendingIsBlackListed'
  BY <1>2 DEF SoleInv, PendingIsBlackListed
<1>4. EstablishedIsListed'
  BY <1>2 DEF SoleInv, EstablishedIsListed
<1>5. EstablishedMayReturn'
  BY <1>1, <1>2 DEF SoleInv, EstablishedMayReturn, Holds
<1>6. OneHolds'
  BY <1>1, <1>2 DEF SoleInv, OneHolds, Holds
<1> QED
  BY <1>3, <1>4, <1>5, <1>6 DEF SoleInv

\* The address passes from blackListed to activePeers in one step; no other session
\* is waiting under it.
LEMMA HandshakedKeepsSoleInv ==
  ASSUME OnlyOurs, TableInv, SoleInv, NEW s \in Session, Handshaked(s)
  PROVE  SoleInv'
<1>1. /\ phase[s] = "handshaking" /\ phase' = [phase EXCEPT ![s] = "established"]
      /\ activePeers' = Append(activePeers, s) /\ blackListed' = blackListed \ {RawIp(s)}
      /\ UNCHANGED <<addr, gone>> /\ phase \in [Session -> Phase]
  BY DEF Handshaked, TableInv, TypeOK
<1>2. PendingIsBlackListed'
  <2>1. ASSUME NEW t \in Session, phase'[t] \in {"connecting", "handshaking"}
        PROVE  addr'[t] \in blackListed'
    <3>1. t # s /\ phase[t] \in {"connecting", "handshaking"}
      BY <1>1, <2>1
    <3>2. addr[t] \in blackListed /\ addr[t] # ZeroAddress
      BY <3>1, PeerTableAssumption
         DEF SoleInv, PendingIsBlackListed, TableInv, HostsKnown
    <3>3. addr[t] # addr[s]
      BY <1>1, <3>1 DEF SoleInv, OneHolds, Holds
    <3>4. RawIp(s) \in {addr[s], ZeroAddress}
      BY DEF RawIp
    <3> QED
      BY <1>1, <3>2, <3>3, <3>4
  <2> QED
    BY <2>1 DEF PendingIsBlackListed
<1>3. EstablishedIsListed'
  <2>1. activePeers \in Seq(Session)
    BY DEF TableInv, TypeOK
  <2>2. /\ activePeers' \in Seq(Session)
        /\ Len(activePeers') = Len(activePeers) + 1
        /\ \A k \in 1 .. Len(activePeers) : activePeers'[k] = activePeers[k]
        /\ activePeers'[Len(activePeers) + 1] = s
    BY <1>1, <2>1, AppendProperties
  <2>3. /\ DOMAIN activePeers = 1 .. Len(activePeers) /\ Len(activePeers) \in Nat
        /\ DOMAIN activePeers' = 1 .. Len(activePeers) + 1
    BY <2>1, <2>2, LenProperties
  <2>4. ASSUME NEW t \in Session, phase'[t] = "established", t \notin gone'
        PROVE  \E k \in DOMAIN activePeers' : activePeers'[k] = t
    <3>1. CASE t = s
      BY <2>2, <2>3, <3>1
    <3>2. CASE t # s
      <4>1. \E k \in DOMAIN activePeers : activePeers[k] = t
        BY <1>1, <2>4, <3>2 DEF SoleInv, EstablishedIsListed
      <4> QED
        BY <2>2, <2>3, <4>1
    <3> QED
      BY <3>1, <3>2
  <2> QED
    BY <2>4 DEF EstablishedIsListed
<1>4. EstablishedMayReturn'
  <2>1. s \notin gone => RawIp(s) = addr[s]
    BY <1>1 DEF RawIp, Live
  <2> QED
    BY <1>1, <2>1 DEF SoleInv, EstablishedMayReturn
<1>5. OneHolds'
  BY <1>1 DEF SoleInv, OneHolds, Holds
<1> QED
  BY <1>2, <1>3, <1>4, <1>5 DEF SoleInv

\* removePeer takes away no other session that holds its host.
LEMMA HandleErrorKeepsSoleInv ==
  ASSUME OnlyOurs, TableInv, SoleInv, NEW s \in Session, HandleError(s)
  PROVE  SoleInv'
<1>1. /\ phase' = [phase EXCEPT ![s] = "closed"] /\ phase \in [Session -> Phase]
      /\ activePeers' = WithoutPeer(activePeers, s)
      /\ UNCHANGED <<addr, blackListed, gone>>
  BY DEF HandleError, TableInv, TypeOK
<1>2. ASSUME NEW t \in Session, phase'[t] = "established", t \notin gone',
             NEW k \in DOMAIN activePeers, activePeers[k] = t
      PROVE  \E j \in DOMAIN activePeers' : activePeers'[j] = t
  <2>1. t # s /\ phase[t] = "established" /\ t \notin gone
    BY <1>1, <1>2
  <2>2. RawIp(t) = addr[t] /\ RawIp(t) # ZeroAddress /\ Holds(t)
    BY <2>1, RawIpOfHolder DEF Holds
  <2>3. RawIp(t) # RawIp(s)
    BY <2>1, <2>2, RawIpOfHolder DEF SoleInv, OneHolds
  <2> QED
    BY <1>1, <1>2, <2>3, WithoutPeerProperties DEF TableInv
<1> QED
  BY <1>1, <1>2, FewerHolders DEF Holds

\* Nor does it for a session that is closed already.
LEMMA LateErrorKeepsSoleInv ==
  ASSUME OnlyOurs, TableInv, SoleInv, NEW s \in Session, LateError(s)
  PROVE  SoleInv'
<1>1. phase[s] = "closed" /\ RawIp(s) = ZeroAddress
  BY DEF LateError, TableInv, LateClosed, RawIp, Live
<1>2. activePeers' = WithoutPeer(activePeers, s) /\ UNCHANGED <<phase, addr, blackListed, gone>>
  BY DEF LateError
<1>3. ASSUME NEW t \in Session, phase[t] = "established", t \notin gone,
             NEW k \in DOMAIN activePeers, activePeers[k] = t
      PROVE  \E j \in DOMAIN activePeers' : activePeers'[j] = t
  <2>1. RawIp(t) # RawIp(s)
    BY <1>1, <1>3, RawIpOfHolder
  <2> QED
    BY <1>2, <1>3, <2>1, WithoutPeerProperties DEF TableInv
<1> QED
  BY <1>2, <1>3, FewerHolders DEF Holds

\* A session we accept is not ours, and it remains on record.
LEMMA AcceptEndsOnlyOurs ==
  ASSUME TableInv, NEW s \in Session, NEW a, NEW broken, Accept(s, a, broken)
  PROVE  ~OnlyOurs'
<1>1. phase[s] = "unused" /\ phase'[s] = "handshaking" /\ outgoing' = outgoing
  BY DEF Accept, TableInv, TypeOK
<1>2. ~outgoing[s]
  BY <1>1 DEF TableInv, HostsKnown
<1> QED
  BY <1>1, <1>2 DEF OnlyOurs

LEMMA OnlyOursBefore ==
  ASSUME TableInv, Next, OnlyOurs'
  PROVE  OnlyOurs
<1>1. \A k \in DOMAIN activePeers : activePeers[k] \in Session /\ phase[activePeers[k]] # "unused"
  BY ListedPeer DEF TableInv, ListedWasEstablished
<1>2. /\ \A s \in Session : phase[s] # "unused" => phase'[s] # "unused" /\ outgoing'[s] = outgoing[s]
      /\ phase \in [Session -> Phase] /\ outgoing \in [Session -> BOOLEAN]
  BY <1>1 DEF Next, StartDisconnectPeers, DisconnectNext, AcceptFails, ConnectToPeer, Accept,
              Connected, Handshaked, RemoteGone, HandleError, LateError, RefuseRequest, TableInv, TypeOK
<1> QED
  BY <1>2, Zenon DEF OnlyOurs

LEMMA NextKeepsSoleInv ==
  ASSUME TableInv, SoleInv, OnlyOurs, OnlyOurs', Next
  PROVE  SoleInv'
<1>1. phase \in [Session -> Phase]
  BY DEF TableInv, TypeOK
<1>2. CASE StartDisconnectPeers
  BY <1>2, FewerHolders DEF StartDisconnectPeers, Holds
<1>3. CASE DisconnectNext
  <2>1. activePeers[cursor] \in Session
    BY <1>3, ListedPeer DEF DisconnectNext, TableInv
  <2> QED
    BY <1>1, <1>3, <2>1, FewerHolders DEF DisconnectNext, Holds
<1>4. ASSUME NEW s \in Session, NEW a \in Address \cup {ZeroAddress}, ConnectToPeer(s, a)
      PROVE  SoleInv'
  BY <1>4, ConnectToPeerKeepsSoleInv
<1>5. ASSUME NEW s \in Session, NEW a \in Address, NEW broken \in BOOLEAN, Accept(s, a, broken)
      PROVE  SoleInv'
  BY <1>5, AcceptEndsOnlyOurs
<1>6. CASE AcceptFails
  BY <1>6, FewerHolders DEF AcceptFails, Holds
<1>7. ASSUME NEW s \in Session, Connected(s)  PROVE SoleInv'
  BY <1>1, <1>7, FewerHolders DEF Connected, Holds
<1>8. ASSUME NEW s \in Session, Handshaked(s)  PROVE SoleInv'
  BY <1>8, HandshakedKeepsSoleInv
<1>9. ASSUME NEW s \in Session, RemoteGone(s)  PROVE SoleInv'
  BY <1>9, FewerHolders DEF RemoteGone, Holds
<1>10. ASSUME NEW s \in Session, HandleError(s)  PROVE SoleInv'
  BY <1>10, HandleErrorKeepsSoleInv
<1>11. ASSUME NEW s \in Session, RefuseRequest(s)  PROVE SoleInv'
  BY <1>1, <1>11, FewerHolders DEF RefuseRequest, Holds
<1>12. ASSUME NEW s \in Session, LateError(s)  PROVE SoleInv'
  BY <1>12, LateErrorKeepsSoleInv
<1> QED
  BY <1>2, <1>3, <1>4, <1>5, <1>6, <1>7, <1>8, <1>9, <1>10, <1>11, <1>12 DEF Next

LEMMA StutterKeepsSoleInv == SoleInv /\ UNCHANGED vars => SoleInv'
BY DEF SoleInv, PendingIsBlackListed, EstablishedIsListed, EstablishedMayReturn, OneHolds, Holds, OnlyOurs, vars

\* What holds of the containers as long as only we open sessions.
THEOREM SoleInvariant == Spec => []SoleInv
<1>1. Init => SoleInv
  BY InitSoleInv
<1>2. TableInv /\ Next /\ SoleInv => SoleInv'
  <2> SUFFICES ASSUME TableInv, Next, SoleInv, OnlyOurs'  PROVE SoleInv'
    BY DEF SoleInv, PendingIsBlackListed, EstablishedIsListed, EstablishedMayReturn, OneHolds
  <2> QED
    BY OnlyOursBefore, NextKeepsSoleInv
<1>3. TableInv /\ SoleInv /\ [Next]_vars => SoleInv'
  BY <1>2, StutterKeepsSoleInv
<1> QED
  BY <1>1, <1>3, TableInvariant, PTL DEF Spec

\* An address we are still trying is known, so it is not tried a second time.
THEOREM PendingAddressKnown == Spec => []PendingIsBlackListed
BY SoleInvariant, PTL DEF SoleInv

\* An unbroken established session is listed, and so told of new pieces.
THEOREM EstablishedSessionListed == Spec => []EstablishedIsListed
BY SoleInvariant, PTL DEF SoleInv

\* The host of an established session can be tried again when the session has ended.
THEOREM EstablishedHostMayReturn == Spec => []EstablishedMayReturn
BY SoleInvariant, PTL DEF SoleInv

\* No host has two unbroken sessions.
THEOREM NoSecondSession == Spec => []OneSessionPerAddress
<1>1. TableInv /\ SoleInv => OneSessionPerAddress
  BY RawIpOfHolder DEF SoleInv, OneHolds, OneSessionPerAddress
<1> QED
  BY <1>1, TableInvariant, SoleInvariant, PTL

=============================================================================
