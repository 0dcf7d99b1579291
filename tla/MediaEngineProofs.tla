-------------------------- MODULE MediaEngineProofs --------------------------
(***************************************************************************)
(* Proofs about MediaEngine, for any set of participants, connections and  *)
(* bridges.                                                                *)
(***************************************************************************)
EXTENDS MediaEngine, TLAPS

\* The connection under way is not registered and has not relayed yet;
\* unless it was swept, it is on the session's bridge.
AcceptingOK ==
    accepting # Null =>
        /\ ~swept => bridge # Null /\ peers[accepting].bridge = bridge
        /\ peers[accepting].media \in {"none", "pending"}
        /\ \A p \in Participants : conns[p] # accepting

\* A relay of a registered connection writes to the session's bridge.
RelaysOnBridge ==
    ~swept => \A p \in Registered :
        peers[conns[p]].media = "relaying" => peers[conns[p]].dest = bridge

\* An offer on its way to the gateway is as good as one that is there, and no
\* offer is that of the connection under way.
OffersAnswerable ==
    /\ PendingOffersAreAnswerable
    /\ ~stale =>
        /\ \A p \in Participants : offers[p] # Null => offers[p] # accepting
        /\ storing # Null =>
             /\ storing.part \in Registered /\ peers[storing.peer] # Null
             /\ peers[storing.peer].part = storing.part
             /\ peers[storing.peer].offer = "made"

\* The inductive invariant.
EngineInvariant ==
    TypeOK /\ AcceptingOK /\ RegisteredShareBridge /\ RelaysOnBridge /\ OffersAnswerable

\* The empty engine satisfies the invariant.
LEMMA InitEngine == Init => EngineInvariant
  BY EngineAssumption
  DEF Init, EngineInvariant, TypeOK, AcceptingOK, RegisteredShareBridge,
      RelaysOnBridge, OffersAnswerable, PendingOffersAreAnswerable, Registered

\* A negotiation begins: the bridge it creates is the session's, and a
\* session without bridge has no registered connection that could miss it.
LEMMA NegotiateKeeps ==
  ASSUME EngineInvariant, NEW i \in PeerIds, NEW b \in BridgeIds, NEW new \in Peers,
         new.bridge = b, new.media \in {"none", "pending"}, Negotiate(i, b, new)
  PROVE  EngineInvariant'
<1> USE EngineAssumption, NullIsNoValue
<1>1. bridge # Null => b = bridge
  BY DEF Negotiate, EnsureBridge
<1>2. ~swept /\ bridge = Null => Registered = {}
  BY DEF EngineInvariant, RegisteredShareBridge, TypeOK, Peers, Registered
<1>3. \A q \in Registered : conns[q] # i /\ conns[q] \in PeerIds
  BY DEF EngineInvariant, TypeOK, Registered, Negotiate, Fresh
<1>4. \A q \in Participants : offers[q] # i
  BY DEF Negotiate, Fresh
<1>5. Registered' = Registered
  BY DEF Negotiate, Registered
<1>6. /\ peers' = [peers EXCEPT ![i] = new] /\ peers'[i] = new
      /\ \A j \in PeerIds : j # i => peers'[j] = peers[j]
      /\ \A q \in Registered : peers'[conns[q]] = peers[conns[q]]
      /\ conns' = conns /\ bridge' = b /\ accepting' = i /\ storing = Null
      /\ UNCHANGED <<offers, storing, sweeping, swept, stale, failed>>
  BY <1>3 DEF Negotiate, Unlocked, EngineInvariant, TypeOK, history, gateway
<1>7. TypeOK'
  <2>1. tracks' \in [BridgeIds -> SUBSET Directions]
    BY DEF Negotiate, EngineInvariant, TypeOK, SubscriberTrack, Directions
  <2>2. peers' \in [PeerIds -> Peers \cup {Null}]
    BY <1>6 DEF EngineInvariant, TypeOK
  <2>3. peers'[i] # Null
    BY <1>6
  <2> QED
    BY <1>3, <1>5, <1>6, <2>1, <2>2, <2>3 DEF EngineInvariant, TypeOK
<1>8. AcceptingOK'
  BY <1>3, <1>6 DEF AcceptingOK, Registered
<1>9. RegisteredShareBridge'
  BY <1>1, <1>2, <1>5, <1>6 DEF EngineInvariant, RegisteredShareBridge
<1>10. RelaysOnBridge'
  BY <1>1, <1>2, <1>5, <1>6 DEF EngineInvariant, RelaysOnBridge
<1>11. OffersAnswerable'
  BY <1>4, <1>5, <1>6
  DEF EngineInvariant, TypeOK, OffersAnswerable, PendingOffersAreAnswerable
<1> QED
  BY <1>7, <1>8, <1>9, <1>10, <1>11 DEF EngineInvariant

\* The first half of AcceptOffer and of CreateOffer.
LEMMA BeginKeeps ==
  ASSUME EngineInvariant, NEW i \in PeerIds, NEW p \in Participants,
         NEW b \in BridgeIds, BeginAccept(i, p, b) \/ BeginOffer(i, p, b)
  PROVE  EngineInvariant'
<1>1. /\ AnsweringPeer(p, b) \in Peers /\ AnsweringPeer(p, b).bridge = b
      /\ AnsweringPeer(p, b).media \in {"none", "pending"}
  BY DEF AnsweringPeer, Peers
<1>2. /\ OfferingPeer(p, b) \in Peers /\ OfferingPeer(p, b).bridge = b
      /\ OfferingPeer(p, b).media \in {"none", "pending"}
  BY DEF OfferingPeer, Peers
<1> QED
  BY <1>1, <1>2, NegotiateKeeps DEF BeginAccept, BeginOffer

\* AcceptOffer, error path: nobody has registered the connection it closes.
LEMMA FailAcceptKeeps == EngineInvariant /\ FailAccept => EngineInvariant'
<1> SUFFICES ASSUME EngineInvariant, FailAccept PROVE EngineInvariant'
  OBVIOUS
<1> USE EngineAssumption, NullIsNoValue
<1>1. \A q \in Registered : conns[q] # accepting /\ conns[q] \in PeerIds
  BY DEF EngineInvariant, AcceptingOK, TypeOK, Registered, FailAccept
<1>2. /\ Registered' = Registered /\ accepting \in PeerIds /\ storing = Null
      /\ \A q \in Registered : peers'[conns[q]] = peers[conns[q]]
      /\ \A i \in PeerIds : i # accepting => peers'[i] = peers[i]
  BY <1>1 DEF FailAccept, Registered, EngineInvariant, TypeOK
<1>3. TypeOK'
  BY <1>1, <1>2 DEF EngineInvariant, TypeOK, FailAccept, gateway
<1>4. OffersAnswerable'
  BY <1>2
  DEF FailAccept, gateway, EngineInvariant, TypeOK, OffersAnswerable, PendingOffersAreAnswerable
<1> QED
  BY <1>2, <1>3, <1>4
  DEF EngineInvariant, FailAccept, AcceptingOK, RegisteredShareBridge, RelaysOnBridge

\* registerConnection: the connection it registers is on the session's bridge.
LEMMA FinishAcceptKeeps == EngineInvariant /\ FinishAccept => EngineInvariant'
<1> SUFFICES ASSUME EngineInvariant, FinishAccept PROVE EngineInvariant'
  OBVIOUS
<1> USE EngineAssumption, NullIsNoValue
<1> DEFINE owner == peers[accepting].part
<1>1. /\ accepting \in PeerIds /\ peers[accepting] \in Peers /\ owner \in Participants
      /\ ~swept => peers[accepting].bridge = bridge
      /\ peers[accepting].media \in {"none", "pending"}
  BY DEF EngineInvariant, TypeOK, AcceptingOK, FinishAccept, Peers
<1>2. /\ conns' = [conns EXCEPT ![owner] = accepting]
      /\ conns' \in [Participants -> PeerIds \cup {Null}]
      /\ bridge' = bridge /\ peers' = peers /\ tracks' = tracks /\ accepting' = Null
      /\ UNCHANGED <<offers, sweeping, swept, stale, failed>>
      /\ storing' \in Offers \cup {Null}
      /\ storing' # Null => storing' = [part |-> owner, peer |-> accepting]
                            /\ peers[accepting].offer = "made"
  BY <1>1 DEF FinishAccept, EngineInvariant, TypeOK, history, Offers
<1>3. \A q \in Registered' :
         (q = owner /\ conns'[q] = accepting)
         \/ (q \in Registered /\ conns'[q] = conns[q])
  BY <1>1, <1>2 DEF Registered, EngineInvariant, TypeOK
<1>4. TypeOK'
  BY <1>1, <1>2, <1>3 DEF EngineInvariant, TypeOK
<1>5. AcceptingOK'
  BY <1>2 DEF AcceptingOK
<1>6. RegisteredShareBridge'
  BY <1>1, <1>2, <1>3 DEF EngineInvariant, RegisteredShareBridge
<1>7. RelaysOnBridge'
  BY <1>1, <1>2, <1>3 DEF EngineInvariant, RelaysOnBridge
<1>8. OffersAnswerable'
  <2>1. Registered \subseteq Registered' /\ owner \in Registered'
    BY <1>1, <1>2 DEF Registered, EngineInvariant, TypeOK
  <2>2. storing' # Null => storing'.part = owner /\ storing'.peer = accepting
    BY <1>2
  <2>3. peers[accepting] # Null
    BY <1>1
  <2>4. PendingOffersAreAnswerable'
    BY <1>2, <2>1 DEF EngineInvariant, OffersAnswerable, PendingOffersAreAnswerable
  <2>5. \A p \in Participants : offers'[p] # Null => offers'[p] # accepting'
    BY <1>2
  <2> QED
    BY <1>2, <2>1, <2>2, <2>3, <2>4, <2>5 DEF OffersAnswerable
<1> QED
  BY <1>4, <1>5, <1>6, <1>7, <1>8 DEF EngineInvariant

\* storeOffer and ApplyAnswer, which concern one participant's offer.
LEMMA StoreOfferKeeps == EngineInvariant /\ StoreOffer => EngineInvariant'
<1> SUFFICES ASSUME EngineInvariant, StoreOffer PROVE EngineInvariant'
  OBVIOUS
<1> USE EngineAssumption, NullIsNoValue
<1>1. /\ storing.part \in Participants /\ storing.peer \in PeerIds /\ accepting = Null /\ storing # Null
      /\ offers' = [offers EXCEPT ![storing.part] = storing.peer] /\ storing' = Null
      /\ UNCHANGED <<bridge, tracks, conns, peers, accepting, sweeping, swept, stale, failed>>
      /\ Registered' = Registered
  BY DEF StoreOffer, EngineInvariant, TypeOK, Offers, history, Registered
<1>2. TypeOK'
  <2>1. offers' \in [Participants -> PeerIds \cup {Null}]
    BY <1>1 DEF EngineInvariant, TypeOK
  <2> QED
    BY <1>1, <2>1 DEF EngineInvariant, TypeOK
<1>3. OffersAnswerable'
  <2>1. ~stale => /\ storing.part \in Registered /\ peers[storing.peer] # Null
                  /\ peers[storing.peer].part = storing.part
                  /\ peers[storing.peer].offer = "made"
    BY <1>1 DEF EngineInvariant, OffersAnswerable
  <2>2. \A p \in Participants :
           offers'[p] = IF p = storing.part THEN storing.peer ELSE offers[p]
    BY <1>1 DEF EngineInvariant, TypeOK
  <2>3. storing.peer # accepting
    BY <1>1
  <2>4. PendingOffersAreAnswerable'
    BY <1>1, <2>1, <2>2 DEF EngineInvariant, OffersAnswerable, PendingOffersAreAnswerable
  <2> QED
    BY <1>1, <2>2, <2>3, <2>4 DEF EngineInvariant, OffersAnswerable
<1> QED
  BY <1>1, <1>2, <1>3
  DEF EngineInvariant, AcceptingOK, RegisteredShareBridge, RelaysOnBridge

LEMMA ApplyAnswerKeeps ==
  ASSUME EngineInvariant, NEW p \in Participants, ApplyAnswer(p)
  PROVE  EngineInvariant'
<1> USE EngineAssumption, NullIsNoValue
<1> DEFINE i == offers[p]
<1>1. /\ i \in PeerIds /\ peers[i] \in Peers /\ accepting = Null /\ storing = Null
      /\ UNCHANGED <<bridge, tracks, conns, accepting, storing, sweeping, swept, stale, failed>>
      /\ offers' = [offers EXCEPT ![p] = Null] /\ Registered' = Registered
  BY DEF ApplyAnswer, SetAnswer, Unlocked, EngineInvariant, TypeOK, history, Registered
<1>2. /\ peers'[i] = [peers[i] EXCEPT !.offer = "answered"]
      /\ \A j \in PeerIds : j # i => peers'[j] = peers[j]
      /\ peers' = [peers EXCEPT ![i] = peers'[i]]
  BY <1>1 DEF ApplyAnswer, SetAnswer, EngineInvariant, TypeOK
<1>3. /\ peers'[i] \in Peers /\ peers'[i].part = peers[i].part
      /\ peers'[i].bridge = peers[i].bridge /\ peers'[i].media = peers[i].media
      /\ peers'[i].dest = peers[i].dest
  BY <1>1, <1>2 DEF Peers
<1>4. \A q \in Registered : conns[q] \in PeerIds
  BY DEF Registered, EngineInvariant, TypeOK
<1>5. peers' \in [PeerIds -> Peers \cup {Null}]
  BY <1>1, <1>2, <1>3 DEF EngineInvariant, TypeOK
<1>6. TypeOK'
  <2>1. offers' \in [Participants -> PeerIds \cup {Null}]
    BY <1>1 DEF EngineInvariant, TypeOK
  <2>2. \A q \in Registered' : peers'[conns'[q]] # Null /\ peers'[conns'[q]].part = q
    <3> TAKE q \in Registered'
    <3>1. conns'[q] = conns[q] /\ q \in Registered /\ conns[q] \in PeerIds
      BY <1>1, <1>4
    <3>2. peers[conns[q]] # Null /\ peers[conns[q]].part = q
      BY <3>1 DEF EngineInvariant, TypeOK
    <3>3. peers'[i] # Null
      BY <1>3
    <3> QED
      BY <1>2, <1>3, <3>1, <3>2, <3>3
  <2> QED
    BY <1>1, <1>5, <2>1, <2>2 DEF EngineInvariant, TypeOK
<1>7. OffersAnswerable'
  <2>1. ~stale => \A q \in Participants : offers'[q] # Null =>
           q # p /\ offers'[q] = offers[q] /\ offers[q] # i /\ offers[q] \in PeerIds
    BY <1>1 DEF EngineInvariant, TypeOK, OffersAnswerable, PendingOffersAreAnswerable
  <2> QED
    BY <1>1, <1>2, <2>1
    DEF EngineInvariant, TypeOK, OffersAnswerable, PendingOffersAreAnswerable
<1>8. \A q \in Registered :
        /\ peers'[conns'[q]].bridge = peers[conns[q]].bridge
        /\ peers'[conns'[q]].media = peers[conns[q]].media
        /\ peers'[conns'[q]].dest = peers[conns[q]].dest
  BY <1>1, <1>2, <1>3, <1>4
<1>9. RegisteredShareBridge' /\ RelaysOnBridge'
  BY <1>1, <1>8 DEF EngineInvariant, RegisteredShareBridge, RelaysOnBridge
<1> QED
  BY <1>1, <1>6, <1>7, <1>9 DEF EngineInvariant, AcceptingOK

\* The bridge goes with the last registered connection, never before, and the
\* offer of a participant with its connection.
LEMMA CloseParticipantKeeps ==
  ASSUME EngineInvariant, NEW p \in Participants, CloseParticipant(p)
  PROVE  EngineInvariant'
<1> USE EngineAssumption, NullIsNoValue
<1>1. /\ conns' = [conns EXCEPT ![p] = Null] /\ offers' = [offers EXCEPT ![p] = Null]
      /\ bridge' = IF Registered = {p} THEN Null ELSE bridge
      /\ accepting = Null /\ storing = Null
      /\ UNCHANGED <<tracks, accepting, storing, sweeping, swept, stale>>
      /\ failed' \in BOOLEAN
      /\ \A i \in PeerIds : i # conns[p] => peers'[i] = peers[i]
      /\ peers' \in [PeerIds -> Peers \cup {Null}]
  BY DEF CloseParticipant, ClosesConnection, Without, BridgeWithout, Unlocked,
         EngineInvariant, TypeOK
<1>2. \A q \in Registered' : q \in Registered /\ q # p /\ conns'[q] = conns[q]
  BY <1>1 DEF Registered, EngineInvariant, TypeOK
<1>3. \A q \in Registered' : conns[q] \in PeerIds /\ conns[q] # conns[p]
  BY <1>2 DEF Registered, EngineInvariant, TypeOK
<1>4. \A q \in Registered' : peers'[conns'[q]] = peers[conns[q]] /\ bridge' = bridge
  BY <1>1, <1>2, <1>3
<1>5. TypeOK'
  <2>1. /\ bridge' \in BridgeIds \cup {Null}
        /\ conns' \in [Participants -> PeerIds \cup {Null}]
        /\ offers' \in [Participants -> PeerIds \cup {Null}]
    BY <1>1 DEF EngineInvariant, TypeOK
  <2> QED
    BY <1>1, <1>2, <1>4, <2>1 DEF EngineInvariant, TypeOK
<1>6. OffersAnswerable'
  <2>1. ASSUME ~stale, NEW q \in Participants, offers'[q] # Null
        PROVE  /\ q # p /\ offers'[q] = offers[q] /\ offers[q] \in PeerIds
               /\ offers[q] # conns[p] /\ q \in Registered'
    <3>1. q # p /\ offers'[q] = offers[q] /\ offers[q] \in PeerIds
      BY <1>1, <2>1 DEF EngineInvariant, TypeOK
    <3>2. peers[offers[q]].part = q /\ q \in Registered
      BY <2>1, <3>1 DEF EngineInvariant, OffersAnswerable, PendingOffersAreAnswerable
    <3>3. p \in Registered => peers[conns[p]].part = p
      BY DEF EngineInvariant, TypeOK
    <3>4. offers[q] # conns[p]
      BY <3>1, <3>2, <3>3 DEF Registered
    <3>5. q \in Registered'
      BY <1>1, <3>1, <3>2 DEF Registered, EngineInvariant, TypeOK
    <3> QED
      BY <3>1, <3>4, <3>5
  <2> QED
    BY <1>1, <2>1 DEF EngineInvariant, OffersAnswerable, PendingOffersAreAnswerable
<1> QED
  BY <1>1, <1>2, <1>4, <1>5, <1>6
  DEF EngineInvariant, AcceptingOK, RegisteredShareBridge, RelaysOnBridge

\* Closing the session, by a sweep or under its lock, leaves no connection
\* registered and the connection under way alone.
LEMMA ForgetKeeps ==
  ASSUME EngineInvariant, ForgetSession, sweeping' \in BOOLEAN,
         offers' = offers \/ offers' = NoOffers
  PROVE  EngineInvariant'
<1> USE EngineAssumption, NullIsNoValue
<1>1. /\ Registered' = {} /\ accepting' = accepting /\ conns' = [p \in Participants |-> Null]
      /\ swept' = (accepting # Null) /\ storing' = storing
      /\ offers' \in [Participants -> PeerIds \cup {Null}]
  BY DEF ForgetSession, Registered, NoOffers, EngineInvariant, TypeOK
<1>2. accepting # Null => accepting \in PeerIds /\ peers'[accepting] = peers[accepting]
  BY DEF EngineInvariant, TypeOK, AcceptingOK, ForgetSession, Registered
<1>3. TypeOK'
  <2>1. /\ peers' \in [PeerIds -> Peers \cup {Null}] /\ tracks' = tracks /\ bridge' = Null
        /\ swept' \in BOOLEAN /\ failed' \in BOOLEAN /\ stale' \in BOOLEAN
    BY DEF EngineInvariant, TypeOK, ForgetSession
  <2> QED
    BY <1>1, <1>2, <2>1 DEF EngineInvariant, TypeOK
<1>4. AcceptingOK'
  BY <1>1, <1>2 DEF EngineInvariant, AcceptingOK
<1>5. OffersAnswerable'
  <2>1. ~stale' => offers' = NoOffers /\ storing = Null
    BY DEF ForgetSession
  <2> QED
    BY <1>1, <2>1 DEF OffersAnswerable, PendingOffersAreAnswerable, NoOffers
<1> QED
  BY <1>1, <1>3, <1>4, <1>5 DEF EngineInvariant, RegisteredShareBridge, RelaysOnBridge

\* The gateway's half of a sweep leaves no offer but the one being stored.
LEMMA SweepOffersKeeps == EngineInvariant /\ SweepOffers => EngineInvariant'
<1> SUFFICES ASSUME EngineInvariant, SweepOffers PROVE EngineInvariant'
  OBVIOUS
<1> USE EngineAssumption, NullIsNoValue
<1>1. /\ UNCHANGED <<bridge, tracks, conns, peers, accepting, storing, swept, failed>>
      /\ offers' = [p \in Participants |-> Null] /\ sweeping' = TRUE
      /\ stale' = (stale /\ storing # Null) /\ Registered' = Registered
  BY DEF SweepOffers, NoOffers, history, Registered
<1>2. TypeOK'
  BY <1>1 DEF EngineInvariant, TypeOK
<1>3. OffersAnswerable'
  BY <1>1 DEF EngineInvariant, OffersAnswerable, PendingOffersAreAnswerable
<1> QED
  BY <1>1, <1>2, <1>3
  DEF EngineInvariant, AcceptingOK, RegisteredShareBridge, RelaysOnBridge

\* OnTrack and the end of a relay touch the state of one connection, whose
\* owner, bridge and offer stay; a relay starts on the session's bridge.
LEMMA MediaKeeps ==
  ASSUME EngineInvariant, NEW i \in PeerIds, OnTrack(i) \/ RelayEnds(i)
  PROVE  EngineInvariant'
<1> USE EngineAssumption, NullIsNoValue
<1>1. peers[i] \in Peers /\ bridge \in BridgeIds \cup {Null}
  BY DEF EngineInvariant, TypeOK, OnTrack, RelayEnds
<1>2. /\ peers'[i] \in Peers /\ peers'[i].part = peers[i].part
      /\ peers'[i].bridge = peers[i].bridge /\ peers'[i].offer = peers[i].offer
      /\ peers'[i].media = "relaying" => peers'[i].dest = bridge
  BY <1>1 DEF OnTrack, RelayEnds, Peers, EngineInvariant, TypeOK
<1>3. /\ \A j \in PeerIds : j # i => peers'[j] = peers[j]
      /\ peers' \in [PeerIds -> Peers \cup {Null}]
      /\ UNCHANGED <<bridge, tracks, conns, accepting, offers, storing, sweeping,
                     stale, swept, failed>>
  BY <1>2 DEF OnTrack, RelayEnds, EngineInvariant, TypeOK, history, gateway
<1>4. i = accepting => RelayEnds(i) /\ FALSE
  BY DEF OnTrack, RelayEnds, EngineInvariant, AcceptingOK, TypeOK
<1>5. Registered' = Registered /\ \A q \in Registered : conns[q] \in PeerIds
  BY <1>3 DEF Registered, EngineInvariant, TypeOK
<1>6. TypeOK'
  BY <1>2, <1>3, <1>5 DEF EngineInvariant, TypeOK
<1>7. AcceptingOK'
  BY <1>3, <1>4 DEF EngineInvariant, AcceptingOK, TypeOK
<1>8. RegisteredShareBridge'
  BY <1>2, <1>3, <1>5 DEF EngineInvariant, RegisteredShareBridge
<1>9. RelaysOnBridge'
  BY <1>2, <1>3, <1>5 DEF EngineInvariant, RelaysOnBridge
<1>10. OffersAnswerable'
  <2>1. \A j \in PeerIds : peers[j] # Null =>
           peers'[j] # Null /\ peers'[j].part = peers[j].part /\ peers'[j].offer = peers[j].offer
    BY <1>2, <1>3
  <2>2. storing # Null => storing.peer \in PeerIds
    BY DEF EngineInvariant, TypeOK, Offers
  <2>3. \A q \in Participants : offers[q] # Null => offers[q] \in PeerIds
    BY DEF EngineInvariant, TypeOK
  <2> QED
    BY <1>3, <1>5, <2>1, <2>2, <2>3
    DEF EngineInvariant, OffersAnswerable, PendingOffersAreAnswerable
<1> QED
  BY <1>6, <1>7, <1>8, <1>9, <1>10 DEF EngineInvariant

\* Every step of the engine keeps the invariant.
LEMMA EngineStep == EngineInvariant /\ [Next]_vars => EngineInvariant'
<1> SUFFICES ASSUME EngineInvariant, [Next]_vars PROVE EngineInvariant'
  OBVIOUS
<1>1. CASE UNCHANGED vars
  BY <1>1 DEF vars, EngineInvariant, TypeOK, AcceptingOK, RegisteredShareBridge,
              RelaysOnBridge, OffersAnswerable, PendingOffersAreAnswerable, Registered
<1>2. CASE CloseSession \/ SweepSession
  <2>1. /\ sweeping' \in BOOLEAN /\ ForgetSession
        /\ offers' = offers \/ offers' = NoOffers
    BY <1>2 DEF CloseSession, SweepSession, EngineInvariant, TypeOK
  <2> QED
    BY <2>1, ForgetKeeps
<1>3. CASE Next
  BY <1>2, <1>3, BeginKeeps, FailAcceptKeeps, FinishAcceptKeeps, StoreOfferKeeps,
     ApplyAnswerKeeps, CloseParticipantKeeps, SweepOffersKeeps, MediaKeeps DEF Next
<1> QED
  BY <1>1, <1>3

\* The invariant, the types of the variables included, holds always.
THEOREM EngineInvariantHolds == Spec => []EngineInvariant
  BY InitEngine, EngineStep, PTL DEF Spec

\* Every variable keeps its type, and registered connections are open ones.
THEOREM EngineTypeCorrect == Spec => []TypeOK
<1>1. EngineInvariant => TypeOK
  BY DEF EngineInvariant
<1> QED
  BY EngineInvariantHolds, <1>1, PTL

\* Whatever the number of participants, connections and bridges: unless the
\* cleanup closes the session in the middle of a negotiation, the registered
\* connections of a session share its bridge.
THEOREM SharedBridgeTheorem == Spec => []RegisteredShareBridge
<1>1. EngineInvariant => RegisteredShareBridge
  BY DEF EngineInvariant
<1> QED
  BY EngineInvariantHolds, <1>1, PTL

\* A relay writes to the track that exactly the opposite role subscribes to.
LEMMA RelayedToOpposite == EngineInvariant => RelayReachesOpposite
<1> SUFFICES ASSUME EngineInvariant, ~swept, NEW p \in Registered, NEW q \in Registered,
                    peers[conns[p]].media = "relaying"
             PROVE  Hears(q, p) <=> Opposite(p, q)
  BY DEF RelayReachesOpposite
<1>1. peers[conns[q]].bridge = peers[conns[p]].dest
  BY DEF EngineInvariant, RegisteredShareBridge, RelaysOnBridge
<1>2. peers[conns[p]].part = p
  BY DEF EngineInvariant, TypeOK
<1>3. SubscriberTrack(q) = DestinationFor(p) <=> Opposite(p, q)
  BY DEF SubscriberTrack, DestinationFor, Opposite
<1> QED
  BY <1>1, <1>2, <1>3 DEF Hears

\* ... and so a running relay is heard by all the registered participants of
\* the opposite role and by nobody else, for any number of them.
THEOREM RelayTheorem == Spec => []RelayReachesOpposite
  BY EngineInvariantHolds, RelayedToOpposite, PTL

\* Whatever the number of participants and however often they rejoin: a
\* pending offer can be answered, unless a sweep has overtaken it.
THEOREM OfferTheorem == Spec => []PendingOffersAreAnswerable
<1>1. EngineInvariant => PendingOffersAreAnswerable
  BY DEF EngineInvariant, OffersAnswerable
<1> QED
  BY EngineInvariantHolds, <1>1, PTL

\* Only a failed negotiation leaves a bridge in a session without connections.
LEMMA BridgeReleased ==
  ASSUME EngineInvariant, NoBridgeWithoutConnection, [Next]_vars
  PROVE  NoBridgeWithoutConnection'
<1> USE EngineAssumption, NullIsNoValue
<1> SUFFICES ASSUME accepting' = Null, Registered' = {}, ~failed' PROVE bridge' = Null
  BY DEF NoBridgeWithoutConnection
<1>1. ASSUME NEW i \in PeerIds, NEW p \in Participants, NEW b \in BridgeIds,
             BeginAccept(i, p, b) \/ BeginOffer(i, p, b)
      PROVE  FALSE
  BY <1>1 DEF BeginAccept, BeginOffer, Negotiate
<1>2. CASE FailAccept
  BY <1>2 DEF FailAccept
<1>3. CASE FinishAccept
  <2>1. peers[accepting].part \in Participants /\ accepting \in PeerIds
    BY <1>3 DEF FinishAccept, EngineInvariant, TypeOK, Peers
  <2>2. peers[accepting].part \in Registered'
    BY <1>3, <2>1 DEF FinishAccept, EngineInvariant, TypeOK, Registered
  <2> QED
    BY <2>2
<1>4. ASSUME NEW p \in Participants, CloseParticipant(p) PROVE bridge' = Null
  <2>1. Registered = {} \/ Registered = {p}
    BY <1>4 DEF CloseParticipant, Without, Registered, EngineInvariant, TypeOK
  <2>2. CASE Registered = {p}
    BY <1>4, <2>2 DEF CloseParticipant, BridgeWithout
  <2>3. CASE Registered = {}
    BY <1>4, <2>3 DEF CloseParticipant, ClosesConnection, BridgeWithout, Unlocked,
                      NoBridgeWithoutConnection
  <2> QED
    BY <2>1, <2>2, <2>3
<1>5. CASE ForgetSession
  BY <1>5 DEF ForgetSession
<1>6. CASE UNCHANGED <<bridge, conns, accepting, failed>>
  BY <1>6 DEF NoBridgeWithoutConnection, Registered
<1>7. ASSUME \/ \E i \in PeerIds : OnTrack(i) \/ RelayEnds(i)
             \/ \E p \in Participants : ApplyAnswer(p)
             \/ StoreOffer \/ SweepOffers
      PROVE  UNCHANGED <<bridge, conns, accepting, failed>>
  BY <1>7 DEF OnTrack, RelayEnds, ApplyAnswer, SetAnswer, StoreOffer, SweepOffers, history
<1>8. CASE UNCHANGED vars
  BY <1>6, <1>8 DEF vars
<1> QED
  BY <1>1, <1>2, <1>3, <1>4, <1>5, <1>6, <1>7, <1>8 DEF Next, CloseSession, SweepSession

\* A session that has lost its last connection has lost its bridge, whatever
\* the sweep does, unless a negotiation has failed on that bridge.
THEOREM BridgeReleaseTheorem == Spec => []NoBridgeWithoutConnection
<1>1. Init => NoBridgeWithoutConnection
  BY DEF Init, NoBridgeWithoutConnection
<1>2. EngineInvariant /\ NoBridgeWithoutConnection /\ [Next]_vars
        => NoBridgeWithoutConnection'
  BY BridgeReleased
<1> QED
  BY EngineInvariantHolds, <1>1, <1>2, PTL DEF Spec
=============================================================================
