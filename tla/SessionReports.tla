--------------------------- MODULE SessionReports ---------------------------
(***************************************************************************)
(* What the outside sees of a room: the answer of the status request, for  *)
(* which a handler projects the room into the live state, Redis stores it  *)
(* as a payload and a query reads it back; and the load of the server in   *)
(* its heartbeat, for which Build counts the rooms of the runtime.  Both   *)
(* evaluate Projection on their copy of the room, each in its own order.   *)
(*                                                                         *)
(* One behaviour projects one room, answers a status request, and, if the  *)
(* room is active, builds the stats of it and some other rooms.  Texts of  *)
(* the JSON are left out, what is omitted in them is not.                  *)
(***************************************************************************)
EXTENDS Projection, Sequences, FiniteSetsExt

CONSTANTS
    Rank,         \* the order of the participants' ids, as strings
    Companions    \* the other rooms of the runtime repository

ASSUME ReportsAssumption ==
    /\ IsFiniteSet(Participants) /\ Rank \in [Participants -> Nat]
    /\ \A p, q \in Participants : Rank[p] = Rank[q] => p = q

\* A room as it is in the repositories.
WellFormed(r) ==
    /\ r.status \in RoomStatuses /\ r.parts \in [Participants -> ParticipantStates]
    /\ \A p \in Participants : r.parts[p].state = "absent" => r.parts[p] = Absent

\* They are active rooms, one of each session (OneRuntimeRoomPerSession and
\* RuntimeOnlyActive of SessionService); Sessions are those of the subject.
ASSUME CompanionsAssumption ==
    /\ IsFiniteSet(Companions)
    /\ \A r \in Companions : WellFormed(r) /\ r.status = "active" /\ r.session \notin Sessions
    /\ \A q, r \in Companions : q.session = r.session => q = r

VARIABLES
    task,       \* projecting, asked, counting, reported
    subject,    \* the room that is projected
    event,      \* the time of its last runtime event (0: none)
    history,    \* the times of the recent runtime events
    found,      \* roomConnectionState, once it has returned
    answer,     \* the answer to the status request
    uncounted,  \* the rooms that Build has still to visit
    stats       \* roomStatsQuery: what it has counted

reportVars == <<vars, task, subject, event, history, found, answer, uncounted, stats>>

Roles == {"agent", "user"}
AudioModes == {"publisher", "listener"}

-----------------------------------------------------------------------------
(* The live state and the status request.                                  *)

RoleOf(p) == IF p \in Agents THEN "agent" ELSE "user"

\* Only users have a mode; who publishes has a track (newParticipant).
AudioMode(r, p) ==
    IF p \in Agents THEN ""
    ELSE IF r.parts[p].track = "none" THEN "listener" ELSE "publisher"

TrackCount(r, p) == IF r.parts[p].track = "none" THEN 0 ELSE 1

ParticipantView(r, p) ==
    [id |-> p, role |-> RoleOf(p), mode |-> AudioMode(r, p),
     state |-> r.parts[p].state, tracks |-> TrackCount(r, p)]

InOrder(views, rank) ==
    CHOOSE seq \in [1..Cardinality(views) -> views] :
        \A i, j \in DOMAIN seq : i < j => rank[seq[i].id] < rank[seq[j].id]

\* Mutant: the comparison of ids is the wrong way round.
ViewsDescending(r) ==
    InOrder({ParticipantView(r, p) : p \in Members(r)}, [p \in Participants |-> -Rank[p]])

\* In the order of the ids, whatever the order of the map.
ParticipantViews(r) == InOrder({ParticipantView(r, p) : p \in Members(r)}, Rank)

LiveState(r, connection, media) ==
    [session |-> r.session, status |-> r.status, connection |-> connection,
     media |-> media, participants |-> Cardinality(Members(r)),
     views |-> ParticipantViews(r), event |-> event, history |-> history]

\* An empty list of events is omitted from the payload.
EventPayloads(events) == IF events = <<>> THEN {} ELSE {events}
Events(payloads) == IF payloads = {} THEN <<>> ELSE CHOOSE events \in payloads : TRUE

\* The zero time, which JSON keeps, becomes the empty text.
OptionalTime(at) == {at} \ {0}

EventResponses(events) == [i \in DOMAIN events |-> OptionalTime(events[i])]

Payload(state) == [state EXCEPT !.history = EventPayloads(@)]
Decoded(payload) == [payload EXCEPT !.history = Events(@)]

Response(state) ==
    [state EXCEPT !.event = OptionalTime(@), !.history = EventResponses(@)]

-----------------------------------------------------------------------------
(* The stats.                                                              *)

Sum(f) == FoldSet(LAMBDA k, n : n + f[k], 0, DOMAIN f)

\* Mutant: agents that publish count as publishers.
PublishersOfAnyRole(r) == {p \in Members(r) : r.parts[p].track # "none"}

Publishers(r) == {p \in Members(r) : AudioMode(r, p) = "publisher"}
Listeners(r) == {p \in Members(r) : AudioMode(r, p) = "listener"}

CountTracks(r) == Sum([p \in Members(r) |-> TrackCount(r, p)])

\* at: the time of the room's last runtime event.
Detail(r, connection, media, at) ==
    [session |-> r.session, status |-> r.status, connection |-> connection,
     media |-> media, participants |-> Cardinality(Members(r)),
     publishers |-> Cardinality(Publishers(r)), listeners |-> Cardinality(Listeners(r)),
     tracks |-> CountTracks(r), event |-> OptionalTime(at)]

\* There is one type of runtime event, so byRuntimeEvent has one counter.
NoStats(rooms) ==
    [rooms |-> Cardinality(rooms), participants |-> 0, tracks |-> 0,
     byStatus |-> [s \in RoomStatuses |-> 0],
     byConnection |-> [s \in ConnectionStates |-> 0],
     byMedia |-> [s \in TrackStates |-> 0],
     byRole |-> [x \in Roles |-> 0], byAudioMode |-> [m \in AudioModes |-> 0],
     byRuntimeEvent |-> 0, details |-> {}]

\* Mutant: the counters of the participants are those of the last room.
CountOverwriting(s, r, connection, media, at) ==
    [s EXCEPT
        !.participants = @ + Cardinality(Members(r)), !.tracks = @ + CountTracks(r),
        !.byStatus[r.status] = @ + 1, !.byConnection[connection] = @ + 1,
        !.byMedia[media] = @ + 1,
        !.byRole = [x \in Roles |-> Cardinality({p \in Members(r) : RoleOf(p) = x})],
        !.byAudioMode = [m \in AudioModes |->
                            Cardinality({p \in Members(r) : AudioMode(r, p) = m})],
        !.byRuntimeEvent = IF at = 0 THEN @ ELSE @ + 1,
        !.details = @ \cup {Detail(r, connection, media, at)}]

\* One turn of the loop of Build.
Count(s, r, connection, media, at) ==
    [s EXCEPT
        !.participants = @ + Cardinality(Members(r)), !.tracks = @ + CountTracks(r),
        !.byStatus[r.status] = @ + 1, !.byConnection[connection] = @ + 1,
        !.byMedia[media] = @ + 1,
        !.byRole = [x \in Roles |->
            @[x] + Cardinality({p \in Members(r) : RoleOf(p) = x})],
        !.byAudioMode = [m \in AudioModes |->
            @[m] + Cardinality({p \in Members(r) : AudioMode(r, p) = m})],
        !.byRuntimeEvent = IF at = 0 THEN @ ELSE @ + 1,
        !.details = @ \cup {Detail(r, connection, media, at)}]

\* The load in the heartbeat: sessions are counted like rooms.
ServerLoad ==
    [rooms |-> stats.rooms, sessions |-> stats.rooms,
     participants |-> stats.participants, tracks |-> stats.tracks]

-----------------------------------------------------------------------------

\* The rooms that handlers project: a room is active from the first join on,
\* and Close and Fail leave no participant as it was.
Projected(r) ==
    CASE r.status = "created" -> Members(r) = {}
      [] r.status = "active"  -> TRUE
      [] OTHER -> \A p \in Members(r) :
            /\ r.parts[p].state = r.status
            /\ r.parts[p].track \in {"none", IF r.status = "closed" THEN "ended" ELSE "failed"}

ReportsInit ==
    /\ Init /\ which = "connection" /\ Projected(room)
    /\ task = "projecting" /\ subject = room
    /\ \/ event = 0 /\ history = <<>>
       \/ event = 1 /\ history = <<1>>
    /\ found = Null /\ answer = Null
    /\ uncounted = {} /\ stats = NoStats({})

Evaluate ==
    /\ task \in {"projecting", "counting"} /\ Next
    /\ UNCHANGED <<task, subject, event, history, found, answer, uncounted, stats>>

\* Project and Build call roomConnectionState, then roomMediaState.
Call(f, r) ==
    /\ which' = f /\ room' = r /\ left' = Members(r) /\ has' = {} /\ result' = Null

ConnectionReturns ==
    /\ which = "connection" /\ result # Null
    /\ found' = result /\ Call("media", room)
    /\ UNCHANGED <<task, subject, event, history, answer, uncounted, stats>>

\* The live state is saved, read by the query and mapped to the answer.
GetSessionStatus ==
    /\ task = "projecting" /\ which = "media" /\ result # Null
    /\ answer' = Response(Decoded(Payload(LiveState(room, found, result))))
    /\ task' = "asked"
    /\ UNCHANGED <<vars, subject, event, history, found, uncounted, stats>>

\* The heartbeat asks for the stats: List returns the active rooms.
GetRuntimeStats ==
    /\ task = "asked" /\ subject.status = "active"
    /\ uncounted' = Companions \cup {subject}
    /\ stats' = NoStats(uncounted') /\ task' = "listed"
    /\ UNCHANGED <<vars, subject, event, history, found, answer>>

\* The next room of the list, which is in the order of a map.
NextRoom ==
    /\ task = "listed"
    /\ \E r \in uncounted :
         Call("connection", r) /\ uncounted' = uncounted \ {r}
    /\ task' = "counting"
    /\ UNCHANGED <<subject, event, history, found, answer, stats>>

\* Companions have had no event.
LastEvent(r) == IF r = subject THEN event ELSE 0

CountRoom ==
    /\ task = "counting" /\ which = "media" /\ result # Null
    /\ stats' = Count(stats, room, found, result, LastEvent(room))
    /\ task' = IF uncounted = {} THEN "reported" ELSE "listed"
    /\ UNCHANGED <<vars, subject, event, history, found, answer, uncounted>>

ReportsNext ==
    \/ Evaluate \/ ConnectionReturns \/ GetSessionStatus
    \/ GetRuntimeStats \/ NextRoom \/ CountRoom

ReportsSpec == ReportsInit /\ [][ReportsNext]_reportVars

-----------------------------------------------------------------------------

\* The answer to a status request shows every participant once, in the order
\* of their ids, with what the room knows of it, and its summary, which is
\* computed from the room and not from that list, does not contradict it.
AnswerIsConsistent ==
    answer # Null =>
        LET views == answer.views  shown == {views[i].state : i \in DOMAIN views}
        IN /\ Len(views) = answer.participants
           /\ \A i, j \in DOMAIN views : i < j => Rank[views[i].id] < Rank[views[j].id]
           /\ {views[i].id : i \in DOMAIN views} = Members(subject)
           /\ \A i \in DOMAIN views : views[i].state = subject.parts[views[i].id].state
           /\ answer.connection = "connected" => "connected" \in shown
           /\ answer.connection = "disconnected" =>
                shown # {} /\ shown \subseteq {"disconnected", "failed"}
           /\ answer.media = "active" => \E i \in DOMAIN views : views[i].tracks = 1
           /\ answer.event = {} => answer.history = <<>>

\* The load that the heartbeat reports adds up: whatever the order of the rooms
\* and of their participants, every participant is counted once in each of the
\* breakdowns, and the totals are those of the rooms.
StatsAddUp ==
    task = "reported" =>
        LET Total(field) == Sum([d \in stats.details |-> d[field]])
        IN /\ ServerLoad.participants = Total("participants")
           /\ ServerLoad.participants = Sum(stats.byRole)
           /\ ServerLoad.tracks = Total("tracks")
           /\ stats.byRole["user"] = Sum(stats.byAudioMode)
           /\ stats.byAudioMode["publisher"] = Total("publishers")
           /\ stats.byAudioMode["listener"] = Total("listeners")
           /\ \A by \in {stats.byStatus, stats.byConnection, stats.byMedia} :
                Sum(by) = ServerLoad.rooms
           /\ ServerLoad.sessions = Cardinality({d.session : d \in stats.details})
           /\ stats.byRuntimeEvent = Cardinality({d \in stats.details : d.event # {}})

\* The status request and the stats are evaluated separately, each in an order
\* of its own, and read the room the same way: unless an agent's track has
\* failed in it, they show the same states and the same numbers.
StatsAgreeWithAnswer ==
    task = "reported" =>
        LET modes(m) == {i \in DOMAIN answer.views : answer.views[i].mode = m}
        IN \A d \in stats.details : d.session = answer.session =>
             /\ d.status = answer.status /\ d.connection = answer.connection
             /\ d.participants = answer.participants /\ d.event = answer.event
             /\ d.publishers = Cardinality(modes("publisher"))
             /\ d.listeners = Cardinality(modes("listener"))
             /\ d.tracks = Sum([i \in DOMAIN answer.views |-> answer.views[i].tracks])
             /\ (\A p \in Members(subject) :
                    IsCritical(p) => subject.parts[p].track # "failed")
                => d.media = answer.media
=============================================================================
