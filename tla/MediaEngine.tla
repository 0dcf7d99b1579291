----------------------------- MODULE MediaEngine -----------------------------
(***************************************************************************)
(* The WebRTC engine and its gateway (internal/adapter/out/webrtc): the    *)
(* peer connections of a session, the audio bridge they share, the relays  *)
(* that forward a publisher's packets into the bridge, and the offers of   *)
(* this server that wait for an answer.                                    *)
(*                                                                         *)
(* The maps are keyed by session and no call touches two of them, so this  *)
(* module is about one session.  Its calls come from the session service,  *)
(* which holds the session's lock for the whole of a call, and from the    *)
(* idle cleanup and shutdown sweep, which hold no lock: the two steps of a *)
(* sweep, offers first and connections then, may come between the steps of *)
(* a negotiation.  CreateOffer and ApplyAnswer belong to the port although *)
(* no use case calls them yet; they are taken to be called like the others.*)
(***************************************************************************)
EXTENDS Naturals, FiniteSets

CONSTANTS
    Participants, Agents,
    Publishers,    \* participants that join to publish audio
    PeerIds,       \* peer connections that may exist at once
    BridgeIds,     \* audioBridge objects that may be referred to at once
    Null           \* no value

ASSUME EngineAssumption ==
    /\ Agents \subseteq Participants /\ Publishers \subseteq Participants
    /\ Null \notin PeerIds \cup BridgeIds

VARIABLES
    bridge,     \* Engine: bridges[session]
    tracks,     \* the tracks a bridge object has created
    conns,      \* Engine: connections[session]
    peers,      \* peer connections that are not closed
    accepting,  \* the connection that is being negotiated
    offers,     \* Gateway: offers of the session
    storing,    \* the offer between registerConnection and storeOffer
    sweeping,   \* the sweep is between its two steps
    swept,      \* history: the sweep that last closed the session came
                \* in the middle of a negotiation
    stale,      \* history: ... or after an offer that it did not see
    failed      \* history: a negotiation has failed on the bridge

vars == <<bridge, tracks, conns, peers, accepting, offers, storing, sweeping,
          swept, stale, failed>>
gateway == <<offers, storing, sweeping, stale>>
history == <<swept, failed>>

Directions == {"userToAgent", "agentToUser"}

\* media: what became of the participant's own audio.  pending: OnTrack has
\* not fired; dropped: it found no destination; relaying, ended: the relay.
\* offer: made by this server and not answered, answered, or made by the peer.
Peers == [part : Participants, bridge : BridgeIds,
          media : {"none", "pending", "dropped", "relaying", "ended"},
          dest : BridgeIds \cup {Null},
          offer : {"none", "made", "answered"}]

Offers == [part : Participants, peer : PeerIds]

ASSUME NullIsNoValue == Null \notin Peers \cup Offers

Init ==
    /\ bridge = Null /\ accepting = Null /\ storing = Null
    /\ tracks = [b \in BridgeIds |-> {}]
    /\ conns = [p \in Participants |-> Null]
    /\ offers = [p \in Participants |-> Null]
    /\ peers = [i \in PeerIds |-> Null]
    /\ sweeping = FALSE
    /\ swept = FALSE /\ stale = FALSE /\ failed = FALSE

-----------------------------------------------------------------------------

Registered == {p \in Participants : conns[p] # Null}
OpenPeers == {i \in PeerIds : peers[i] # Null}
InUse == {peers[i].bridge : i \in OpenPeers} \cup {peers[i].dest : i \in OpenPeers}

\* No call that holds the session's lock is under way.
Unlocked == accepting = Null /\ storing = Null

\* Neither open nor referred to by an offer.
Fresh(i) ==
    /\ peers[i] = Null
    /\ \A p \in Participants : offers[p] # i

\* What a participant hears, and where its own audio goes.
SubscriberTrack(p) == IF p \in Agents THEN "userToAgent" ELSE "agentToUser"

\* Mutant: a publisher writes to the track its own role subscribes to.
OwnDestination(p) == SubscriberTrack(p)

DestinationFor(p) == IF p \in Agents THEN "agentToUser" ELSE "userToAgent"

AnsweringPeer(p, b) ==
    [part |-> p, bridge |-> b, dest |-> Null, offer |-> "none",
     media |-> IF p \in Publishers THEN "pending" ELSE "none"]

OfferingPeer(p, b) ==
    [part |-> p, bridge |-> b, dest |-> Null, offer |-> "made", media |-> "pending"]

\* The bridge of the session, a new one with no tracks if there is none.
EnsureBridge(b) ==
    IF bridge # Null THEN b = bridge ELSE b \notin InUse

\* A new connection subscribes to the track of its role.
Negotiate(i, b, new) ==
    /\ Unlocked /\ Fresh(i)
    /\ EnsureBridge(b)
    /\ bridge' = b
    /\ tracks' = [tracks EXCEPT ![b] =
           (IF bridge = Null THEN {} ELSE @) \cup {SubscriberTrack(new.part)}]
    /\ peers' = [peers EXCEPT ![i] = new]
    /\ accepting' = i
    /\ UNCHANGED <<conns, gateway, history>>

\* AcceptOffer up to the gathering of ICE candidates.
BeginAccept(i, p, b) == Negotiate(i, b, AnsweringPeer(p, b))

\* CreateOffer likewise; only agents get offers.
BeginOffer(i, p, b) == p \in Agents /\ Negotiate(i, b, OfferingPeer(p, b))

\* An error, the ICE timeout among them, closes the connection; the bridge
\* stays.
FailAccept ==
    /\ accepting # Null
    /\ peers' = [peers EXCEPT ![accepting] = Null]
    /\ accepting' = Null
    /\ failed' = (failed \/ bridge # Null)
    /\ UNCHANGED <<bridge, tracks, conns, gateway, swept>>

\* registerConnection replaces what the participant had registered, open or
\* not.  An offer goes back to the gateway.
FinishAccept ==
    /\ accepting # Null
    /\ LET p == peers[accepting].part
       IN /\ conns' = [conns EXCEPT ![p] = accepting]
          /\ storing' = IF peers[accepting].offer = "made"
                        THEN [part |-> p, peer |-> accepting] ELSE Null
    /\ accepting' = Null
    /\ UNCHANGED <<bridge, tracks, peers, offers, sweeping, stale, history>>

\* storeOffer replaces an offer of the participant that was not answered.
StoreOffer ==
    /\ storing # Null
    /\ offers' = [offers EXCEPT ![storing.part] = storing.peer]
    /\ storing' = Null
    /\ UNCHANGED <<bridge, tracks, conns, peers, accepting, sweeping, stale, history>>

\* The engine's half: a connection that is closed or has an answer refuses it.
SetAnswer(i) ==
    /\ peers[i] # Null /\ peers[i].offer = "made"
    /\ peers' = [peers EXCEPT ![i].offer = "answered"]

\* An answer is taken once; if the connection refuses it, the offer stays.
ApplyAnswer(p) ==
    /\ Unlocked /\ offers[p] # Null
    /\ SetAnswer(offers[p])
    /\ offers' = [offers EXCEPT ![p] = Null]
    /\ UNCHANGED <<bridge, tracks, conns, accepting, storing, sweeping, stale, history>>

\* What CloseParticipant does in each of its variants below.
ClosesConnection(p) ==
    /\ Unlocked /\ (p \in Registered \/ offers[p] # Null)
    /\ peers' = [i \in PeerIds |-> IF i = conns[p] THEN Null ELSE peers[i]]
    /\ failed' = (failed /\ Registered # {p})
    /\ UNCHANGED <<tracks, accepting, storing, sweeping, swept, stale>>

Without(f, p) == [f EXCEPT ![p] = Null]
BridgeWithout(p) == IF Registered = {p} THEN Null ELSE bridge

\* Mutant: the last connection of a session leaves its bridge behind.
CloseParticipantKeepsBridge(p) ==
    /\ ClosesConnection(p)
    /\ conns' = Without(conns, p) /\ offers' = Without(offers, p) /\ bridge' = bridge

\* Mutant: the bridge goes with any connection.
CloseParticipantDropsBridge(p) ==
    /\ ClosesConnection(p)
    /\ conns' = Without(conns, p) /\ offers' = Without(offers, p) /\ bridge' = Null

\* Mutant: the connection is closed but stays registered.
CloseParticipantStaysRegistered(p) ==
    /\ ClosesConnection(p)
    /\ conns' = conns /\ offers' = Without(offers, p) /\ bridge' = BridgeWithout(p)

\* Mutant: the gateway keeps the offer of a closed connection.
CloseParticipantKeepsOffer(p) ==
    /\ ClosesConnection(p)
    /\ conns' = Without(conns, p) /\ offers' = offers /\ bridge' = BridgeWithout(p)

\* A leave, or a join that the room rejected.
CloseParticipant(p) ==
    /\ ClosesConnection(p)
    /\ conns' = Without(conns, p) /\ offers' = Without(offers, p)
    /\ bridge' = BridgeWithout(p)

NoOffers == [p \in Participants |-> Null]

\* The engine's half of closing the session.
ForgetSession ==
    /\ bridge' = Null /\ swept' = (accepting # Null) /\ failed' = FALSE
    /\ conns' = [p \in Participants |-> Null]
    /\ peers' = [i \in PeerIds |->
                    IF \E p \in Registered : conns[p] = i THEN Null ELSE peers[i]]
    /\ stale' = (offers' # NoOffers \/ storing # Null)
    /\ UNCHANGED <<tracks, accepting, storing>>

\* The end or the failure of a session, under its lock.
CloseSession ==
    /\ Unlocked /\ offers' = NoOffers
    /\ ForgetSession /\ UNCHANGED sweeping

\* The idle cleanup or the shutdown sweep, at any time.
SweepOffers ==
    /\ ~sweeping /\ sweeping' = TRUE
    /\ offers' = NoOffers
    /\ stale' = (stale /\ storing # Null)
    /\ UNCHANGED <<bridge, tracks, conns, peers, accepting, storing, history>>

SweepSession ==
    /\ sweeping /\ sweeping' = FALSE
    /\ UNCHANGED offers /\ ForgetSession

\* External: the remote track of a connection that was answered arrives, and
\* OnTrack looks for a destination, once.
OnTrack(i) ==
    /\ peers[i] # Null /\ i # accepting
    /\ peers[i].media = "pending" /\ peers[i].offer # "made"
    /\ LET found == bridge # Null /\ DestinationFor(peers[i].part) \in tracks[bridge]
       IN peers' = [peers EXCEPT
              ![i].media = IF found THEN "relaying" ELSE "dropped",
              ![i].dest = IF found THEN bridge ELSE Null]
    /\ UNCHANGED <<bridge, tracks, conns, accepting, gateway, history>>

\* relayRTP returns: end of stream, or an error.
RelayEnds(i) ==
    /\ peers[i] # Null /\ peers[i].media = "relaying"
    /\ peers' = [peers EXCEPT ![i].media = "ended"]
    /\ UNCHANGED <<bridge, tracks, conns, accepting, gateway, history>>

Next ==
    \/ \E i \in PeerIds :
         \/ \E p \in Participants, b \in BridgeIds :
              BeginAccept(i, p, b) \/ BeginOffer(i, p, b)
         \/ OnTrack(i) \/ RelayEnds(i)
    \/ \E p \in Participants : CloseParticipant(p) \/ ApplyAnswer(p)
    \/ FailAccept \/ FinishAccept \/ StoreOffer
    \/ CloseSession \/ SweepOffers \/ SweepSession

Spec == Init /\ [][Next]_vars

-----------------------------------------------------------------------------

\* Every variable has its type; a registered connection is open and that of
\* its owner.
TypeOK ==
    /\ bridge \in BridgeIds \cup {Null}
    /\ tracks \in [BridgeIds -> SUBSET Directions]
    /\ peers \in [PeerIds -> Peers \cup {Null}]
    /\ conns \in [Participants -> PeerIds \cup {Null}]
    /\ \A p \in Registered : peers[conns[p]] # Null /\ peers[conns[p]].part = p
    /\ accepting \in PeerIds \cup {Null}
    /\ accepting # Null => peers[accepting] # Null
    /\ offers \in [Participants -> PeerIds \cup {Null}]
    /\ storing \in Offers \cup {Null}
    /\ accepting = Null \/ storing = Null
    /\ sweeping \in BOOLEAN /\ swept \in BOOLEAN
    /\ stale \in BOOLEAN /\ failed \in BOOLEAN

\* q hears what p's relay writes.
Hears(q, p) ==
    /\ peers[conns[q]].bridge = peers[conns[p]].dest
    /\ SubscriberTrack(q) = DestinationFor(peers[conns[p]].part)

Opposite(p, q) == (p \in Agents) # (q \in Agents)

\* Unless the cleanup sweeps the session between the two halves of an
\* AcceptOffer, all registered connections share the bridge that the next
\* participant will get: a leave, a rejected join, a failed AcceptOffer or a
\* sweep at another time never splits those who stay from those who come.
RegisteredShareBridge ==
    ~swept => \A p \in Registered : peers[conns[p]].bridge = bridge

\* ... so a relay that runs is heard by every registered participant of the
\* opposite role, those that joined after it began included, and by no other.
RelayReachesOpposite ==
    ~swept => \A p, q \in Registered :
        peers[conns[p]].media = "relaying" => (Hears(q, p) <=> Opposite(p, q))

\* A session without connections has a bridge only if an AcceptOffer has
\* failed on it: what was created for the first participant goes with the
\* last, whatever the sweep does.
NoBridgeWithoutConnection ==
    accepting = Null /\ Registered = {} /\ ~failed => bridge = Null

\* An offer that waits in the gateway is the one a caller can still answer: its
\* connection is open, belongs to the registered participant it is stored for
\* and has not been answered.  Leaves, ends, rejoins, offers that replace offers
\* and sweeps keep it so, unless the offer was made between the two steps of a
\* sweep, which then closes a connection whose offer it does not delete.
PendingOffersAreAnswerable ==
    ~stale => \A p \in Participants : offers[p] # Null =>
        /\ p \in Registered /\ peers[offers[p]] # Null
        /\ peers[offers[p]].part = p /\ peers[offers[p]].offer = "made"

\* docs/ARCHITECTURE.md:126: the audio that a publisher sends reaches the
\* subscribed participants of the opposite role.
AudioIsForwarded ==
    \A p, q \in Registered :
        Opposite(p, q) /\ peers[conns[p]].media \notin {"none", "pending", "ended"}
        => peers[conns[p]].media = "relaying" /\ Hears(q, p)
=============================================================================
