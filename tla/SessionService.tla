--------------------------- MODULE SessionService ---------------------------
(***************************************************************************)
(* The session service (internal/core/service/session) with the parts it   *)
(* drives: the in-memory room repository, the session records (Postgres),  *)
(* the live state (Redis) and the peer connections of the media engine.    *)
(*                                                                         *)
(* One action is one access to shared state.  Requests and media callbacks *)
(* run on Threads (goroutines) under the lock of their session; the        *)
(* Janitor (idle cleanup and shutdown sweep) takes no lock.                *)
(*                                                                         *)
(* Callbacks of a peer connection are goroutines of their own: they wait   *)
(* for the lock in any order.  Two equal pending callbacks count as one.   *)
(***************************************************************************)
EXTENDS Room, FiniteSets

CONSTANTS
    PeerIds,        \* peer connections that may be open at once
    Threads,        \* goroutines that serve requests and callbacks
    Janitor,        \* the cleanup goroutine
    Null,           \* no value
    PublishModes,   \* values of publishAudio that joins ask for
    PeerStates,     \* connection states a peer reports while it is open
    IdleTimeout,    \* RoomIdleTimeout, also the life of a live state entry;
                    \* 0: no scheduler, no expiry
    MaxClock,       \* bound: the clock stops here
    MaxFaults,      \* bound: failing calls of the stores and of Close
    MaxCallbacks,   \* bound: pending callbacks when a peer, a relay or a failed
                    \* offer reports
    MayCrash,       \* the process may crash and restart
    MayStop         \* the process may be stopped and restarted

ASSUME ConstantsAssumption ==
    /\ IdleTimeout \in Nat /\ MaxClock \in Nat
    /\ MaxFaults \in Nat /\ MaxCallbacks \in Nat
    /\ MayCrash \in BOOLEAN /\ MayStop \in BOOLEAN
    /\ PeerStates \subseteq ConnectionStates /\ PublishModes \subseteq BOOLEAN
    /\ Janitor \notin Threads

VARIABLES
    clock,      \* time.Now, in units
    phase,      \* running, draining (HTTP stopped), sweeping, stopped
    runtime,    \* MemoryRoomRuntimeRepository.rooms
    records,    \* the rooms table
    states,     \* Redis media:session:<session>
    conns,      \* Engine.connections: the registered peer of a participant
    peers,      \* peer connections that are not closed
    relays,     \* participants whose remote track is being relayed
    callbacks,  \* state-change goroutines that have not begun to run
    lock,       \* holder of service.locks[session]
    pc,         \* where each goroutine is
    req,        \* the request or callback a thread serves
    held,       \* the copy of the room a goroutine works on
    todo,       \* rooms the janitor has still to close
    faults      \* failing calls so far

env   == <<clock, phase>>
store == <<records, states>>
media == <<conns, peers, callbacks>>
ctl   == <<lock, pc, req, held, todo, relays>>
vars  == <<env, runtime, store, media, ctl, faults>>

Procs == Threads \cup {Janitor}
Requests ==
    [kind : {"join", "leave"}, session : Sessions, part : Participants,
     publish : BOOLEAN, now : Nat]
    \cup
    [kind : {"end"}, session : Sessions, part : {Null},
     publish : BOOLEAN, now : Nat]
Callbacks ==
    [kind : {"connection"}, session : Sessions, part : Participants,
     state : ConnectionStates]
    \cup
    [kind : {"track"}, session : Sessions, part : Participants,
     state : TrackStates]
Served == Requests \cup
    [kind : {"connection"}, session : Sessions, part : Participants,
     state : ConnectionStates, now : Nat]
    \cup
    [kind : {"track"}, session : Sessions, part : Participants,
     state : TrackStates, now : Nat]
Records == [session : Sessions, status : RoomStatuses]
Views   == [id : RoomIds, status : RoomStatuses,
            parts : [Participants -> ParticipantStates], updatedAt : Nat]
States  == [view : Views, savedAt : Nat]
Peers   == [session : Sessions, part : Participants, state : ConnectionStates,
            track : {"none", "pending", "started"}]
Steps == {"lock", "find", "findRecord", "accept", "rejectPeer",
          "closePeer", "saveRuntime", "saveRecord", "saveState",
          "closeMedia", "delete", "closeRecord", "closeState"}

ASSUME NullAssumption ==
    /\ Null \notin RoomIds \cup PeerIds \cup Threads \cup Sessions
    /\ Null \notin Rooms /\ Null \notin Served
    /\ Null \notin Records /\ Null \notin States

Init ==
    /\ clock = 0 /\ phase = "running"
    /\ runtime = [r \in RoomIds |-> Null]
    /\ records = [r \in RoomIds |-> Null]
    /\ states = [s \in Sessions |-> Null]
    /\ conns = [s \in Sessions |-> [p \in Participants |-> Null]]
    /\ peers = [i \in PeerIds |-> Null]
    /\ relays = {} /\ callbacks = {}
    /\ lock = [s \in Sessions |-> Null]
    /\ pc = [t \in Procs |-> "idle"]
    /\ req = [t \in Threads |-> Null]
    /\ held = [t \in Procs |-> Null]
    /\ todo = {} /\ faults = 0

-----------------------------------------------------------------------------
(* What a handler reads and writes.                                        *)

RuntimeRooms(s) == {r \in RoomIds : runtime[r] # Null /\ runtime[r].session = s}
RecordIds(s) == {r \in RoomIds : records[r] # Null /\ records[r].session = s}

Record(room) == [session |-> room.session, status |-> room.status]
RuntimeRoom(r, now) ==
    [NewRoom(r, records[r].session, now) EXCEPT !.status = records[r].status]

\* Every handler saves the state with the now it put into UpdatedAt.
Project(room) ==
    [id |-> room.id, status |-> room.status,
     parts |-> room.parts, updatedAt |-> room.updatedAt]

CallFails == faults < MaxFaults /\ faults' = faults + 1

\* A failing save may have been applied (the answer is lost) or not.
WriteRecord(room, ok) ==
    LET written == [records EXCEPT ![room.id] = Record(room)] IN
    \/ ok /\ records' = written /\ UNCHANGED faults
    \/ ~ok /\ CallFails /\ records' \in {records, written}

\* Mutant: a save over an existing entry keeps its time to live.
WriteStateKeepTTL(room, ok) ==
    LET old == states[room.session]
        written == [states EXCEPT ![room.session] =
            [view |-> Project(room),
             savedAt |-> IF old = Null THEN clock ELSE old.savedAt]] IN
    \/ ok /\ states' = written /\ UNCHANGED faults
    \/ ~ok /\ CallFails /\ states' \in {states, written}

WriteState(room, ok) ==
    LET written == [states EXCEPT ![room.session] =
                       [view |-> Project(room), savedAt |-> clock]] IN
    \/ ok /\ states' = written /\ UNCHANGED faults
    \/ ~ok /\ CallFails /\ states' \in {states, written}

Goto(t, step, room) ==
    /\ pc' = [pc EXCEPT ![t] = step]
    /\ held' = [held EXCEPT ![t] = room]
    /\ UNCHANGED <<lock, req, todo, relays>>

\* Mutant: the handler returns with the lock held.
ReturnLocked(t) ==
    /\ pc' = [pc EXCEPT ![t] = "idle"]
    /\ held' = [held EXCEPT ![t] = Null]
    /\ req' = [req EXCEPT ![t] = Null]
    /\ UNCHANGED <<lock, todo, relays>>

\* The deferred unlock.  The relay of a remote track starts when the handler
\* that was told "active" has returned.
Return(t) ==
    /\ pc' = [pc EXCEPT ![t] = "idle"]
    /\ held' = [held EXCEPT ![t] = Null]
    /\ req' = [req EXCEPT ![t] = Null]
    /\ lock' = [lock EXCEPT ![req[t].session] = Null]
    /\ relays' = IF req[t].kind = "track" /\ req[t].state = "active"
                 THEN relays \cup {[session |-> req[t].session, part |-> req[t].part]}
                 ELSE relays
    /\ UNCHANGED todo

-----------------------------------------------------------------------------
(* The media engine as the service sees it.                                *)

\* Closing a connection reports "closed" from a goroutine of its own.
ClosePeers(closing) ==
    /\ peers' = [i \in PeerIds |-> IF i \in closing THEN Null ELSE peers[i]]
    /\ callbacks' = callbacks \cup
        {[kind |-> "connection", session |-> peers[i].session,
          part |-> peers[i].part, state |-> "closed"] :
             i \in {j \in closing : peers[j] # Null}}

CloseSession(s) ==
    /\ conns' = [conns EXCEPT ![s] = [p \in Participants |-> Null]]
    /\ ClosePeers({conns[s][p] : p \in Participants} \ {Null})

\* Mutant: the connection is closed but stays registered.
CloseKeepsRegistration(s, p) ==
    /\ UNCHANGED conns
    /\ ClosePeers({conns[s][p]} \ {Null})

CloseParticipant(s, p) ==
    /\ conns' = [conns EXCEPT ![s][p] = Null]
    /\ ClosePeers({conns[s][p]} \ {Null})

\* registerConnection overwrites what the participant had registered.
AcceptOffer(i, s, p, publish) ==
    /\ peers[i] = Null
    /\ peers' = [peers EXCEPT ![i] =
           [session |-> s, part |-> p, state |-> "new",
            track |-> IF publish THEN "pending" ELSE "none"]]
    /\ conns' = [conns EXCEPT ![s][p] = i]
    /\ UNCHANGED callbacks

\* A negotiation that fails once its connection is observed closes it, and
\* that is reported as the participant's connection being closed.
FailOffer(s, p) ==
    /\ \/ UNCHANGED callbacks
       \/ /\ Cardinality(callbacks) < MaxCallbacks
          /\ callbacks' = callbacks \cup
               {[kind |-> "connection", session |-> s, part |-> p, state |-> "closed"]}
    /\ UNCHANGED <<conns, peers>>

\* The transport of an open peer changes state, which the engine maps to one
\* of its own states.
PeerChange(i, state) ==
    /\ peers[i] # Null /\ peers[i].state \notin {state, "failed"}
    /\ Cardinality(callbacks) < MaxCallbacks
    /\ peers' = [peers EXCEPT ![i].state = state]
    /\ callbacks' = callbacks \cup
        {[kind |-> "connection", session |-> peers[i].session,
          part |-> peers[i].part, state |-> state]}
    /\ UNCHANGED <<env, runtime, store, conns, ctl, faults>>

\* OnTrack: the publisher's remote track has a destination.
TrackStart(i) ==
    /\ peers[i] # Null /\ peers[i].track = "pending"
    /\ Cardinality(callbacks) < MaxCallbacks
    /\ peers' = [peers EXCEPT ![i].track = "started"]
    /\ callbacks' = callbacks \cup
        {[kind |-> "track", session |-> peers[i].session,
          part |-> peers[i].part, state |-> "active"]}
    /\ UNCHANGED <<env, runtime, store, conns, ctl, faults>>

\* What relayRTP returns: end of stream, or another read or write error.
RelayEndStates == {"ended", "failed"}

RelayEnd(r, state) ==
    /\ r \in relays /\ state \in RelayEndStates
    /\ Cardinality(callbacks) < MaxCallbacks
    /\ relays' = relays \ {r}
    /\ callbacks' = callbacks \cup
        {[kind |-> "track", session |-> r.session, part |-> r.part, state |-> state]}
    /\ UNCHANGED <<env, runtime, store, conns, peers, lock, pc, req, held, todo, faults>>

-----------------------------------------------------------------------------
(* Requests and callbacks, under the session's lock.                       *)

\* CreateSession takes no lock and mints a new room id on every call.
CreateSession(r, s) ==
    /\ phase = "running" /\ records[r] = Null
    /\ \E ok \in BOOLEAN : WriteRecord(NewRoom(r, s, clock), ok)
    /\ UNCHANGED <<env, runtime, states, media, ctl>>

\* A stopping server accepts nothing, but a WebSocket that was upgraded before
\* may still read its offer and join.
Admits(kind) ==
    phase = "running" \/ (kind = "join" /\ phase \in {"draining", "sweeping"})

\* now is read before the lock is asked for.
ReceiveRequest(t, kind, s, p, publish) ==
    /\ Admits(kind) /\ pc[t] = "idle"
    /\ req' = [req EXCEPT ![t] = [kind |-> kind, session |-> s, part |-> p,
                                  publish |-> publish, now |-> clock]]
    /\ pc' = [pc EXCEPT ![t] = "lock"]
    /\ UNCHANGED <<env, runtime, store, media, lock, held, todo, relays, faults>>

ReceiveCallback(t, c) ==
    /\ pc[t] = "idle" /\ c \in callbacks
    /\ callbacks' = callbacks \ {c}
    /\ req' = [req EXCEPT ![t] = [kind |-> c.kind, session |-> c.session,
                   part |-> c.part, state |-> c.state, now |-> clock]]
    /\ pc' = [pc EXCEPT ![t] = "lock"]
    /\ UNCHANGED <<env, runtime, store, conns, peers, lock, held, todo, relays, faults>>

\* Mutant: the session is not locked.
LockNothing(t) ==
    /\ pc[t] = "lock"
    /\ pc' = [pc EXCEPT ![t] = "find"]
    /\ UNCHANGED <<env, runtime, store, media, lock, req, held, todo, relays, faults>>

LockSession(t) ==
    /\ pc[t] = "lock" /\ lock[req[t].session] = Null
    /\ lock' = [lock EXCEPT ![req[t].session] = t]
    /\ pc' = [pc EXCEPT ![t] = "find"]
    /\ UNCHANGED <<env, runtime, store, media, req, held, todo, relays, faults>>

\* JoinSession after findSessionRoom.
JoinFound(t, room) ==
    IF CanJoinParticipants(room)
    THEN Goto(t, "accept", SetUserID(room, req[t].now))
    ELSE Return(t)

JoinFind(t) ==
    /\ pc[t] = "find" /\ req[t].kind = "join"
    /\ \/ \E r \in RuntimeRooms(req[t].session) : JoinFound(t, runtime[r])
       \/ RuntimeRooms(req[t].session) = {} /\ Goto(t, "findRecord", Null)
    /\ UNCHANGED <<env, runtime, store, media, faults>>

EndFind(t) ==
    /\ pc[t] = "find" /\ req[t].kind = "end"
    /\ \/ \E r \in RuntimeRooms(req[t].session) :
              Goto(t, "closeMedia", Close(runtime[r], req[t].now))
       \/ RuntimeRooms(req[t].session) = {} /\ Goto(t, "findRecord", Null)
    /\ UNCHANGED <<env, runtime, store, media, faults>>

\* session_id is not unique in the table: any of the session's rows.
FindRecord(t) ==
    /\ pc[t] = "findRecord"
    /\ \/ CallFails /\ Return(t)
       \/ RecordIds(req[t].session) = {} /\ Return(t) /\ UNCHANGED faults
       \/ \E r \in RecordIds(req[t].session) :
            /\ IF req[t].kind = "join"
               THEN JoinFound(t, RuntimeRoom(r, req[t].now))
               ELSE Goto(t, "closeMedia", Close(RuntimeRoom(r, req[t].now), req[t].now))
            /\ UNCHANGED faults
    /\ UNCHANGED <<env, runtime, store, media>>

\* acceptParticipant and JoinParticipant: the check that the participant is
\* new comes after its connection has been registered.
AcceptParticipant(t) ==
    /\ pc[t] = "accept"
    /\ LET s == req[t].session
           p == req[t].part
           room == held[t] IN
       \/ Return(t) /\ FailOffer(s, p)
       \/ \E i \in PeerIds :
            /\ AcceptOffer(i, s, p, req[t].publish)
            /\ IF CanAddParticipant(room, p)
               THEN Goto(t, "saveRuntime",
                         AddParticipant(room, p, NewParticipant(req[t].publish), req[t].now))
               ELSE Goto(t, "rejectPeer", room)
    /\ UNCHANGED <<env, runtime, store, faults>>

RejectPeer(t) ==
    /\ pc[t] = "rejectPeer"
    /\ CloseParticipant(req[t].session, req[t].part)
    /\ Return(t)
    /\ UNCHANGED <<env, runtime, store, faults>>

LeaveFind(t) ==
    /\ pc[t] = "find" /\ req[t].kind = "leave"
    /\ LET p == req[t].part IN
       \/ RuntimeRooms(req[t].session) = {} /\ Return(t)
       \/ \E r \in RuntimeRooms(req[t].session) :
            \/ p \notin Members(runtime[r]) /\ Return(t)
            \/ /\ p \in Members(runtime[r]) /\ IsCritical(p)
               /\ Goto(t, "closeMedia", Fail(runtime[r], req[t].now))
            \/ /\ p \in Members(runtime[r]) /\ ~IsCritical(p)
               /\ Goto(t, "closePeer", RemoveParticipant(runtime[r], p, req[t].now))
    /\ UNCHANGED <<env, runtime, store, media, faults>>

\* An error of Close abandons the leave after the connection is gone.
ClosePeer(t) ==
    /\ pc[t] = "closePeer"
    /\ CloseParticipant(req[t].session, req[t].part)
    /\ \/ Goto(t, "saveRuntime", held[t]) /\ UNCHANGED faults
       \/ CallFails /\ Return(t)
    /\ UNCHANGED <<env, runtime, store>>

ConnectionFind(t) ==
    /\ pc[t] = "find" /\ req[t].kind = "connection"
    /\ LET p == req[t].part IN
       \/ RuntimeRooms(req[t].session) = {} /\ Return(t)
       \/ \E r \in RuntimeRooms(req[t].session) :
            IF CanUpdateParticipant(runtime[r], p)
            THEN Goto(t, "saveRuntime",
                      UpdateParticipantState(runtime[r], p, req[t].state, req[t].now))
            ELSE Return(t)
    /\ UNCHANGED <<env, runtime, store, media, faults>>

TrackFind(t) ==
    /\ pc[t] = "find" /\ req[t].kind = "track"
    /\ LET p == req[t].part IN
       \/ RuntimeRooms(req[t].session) = {} /\ Return(t)
       \/ \E r \in RuntimeRooms(req[t].session) :
            IF CanUpdateTrack(runtime[r], p)
            THEN Goto(t, "saveRuntime",
                      UpdateParticipantTrackState(runtime[r], p, req[t].state, req[t].now))
            ELSE Return(t)
    /\ UNCHANGED <<env, runtime, store, media, faults>>

SaveRuntime(t) ==
    /\ pc[t] = "saveRuntime"
    /\ runtime' = [runtime EXCEPT ![held[t].id] = held[t]]
    /\ Goto(t, "saveRecord", held[t])
    /\ UNCHANGED <<env, store, media, faults>>

\* Mutant: the role of the participant does not matter.
FailureOfAnybody(t) ==
    req[t].kind \in {"connection", "track"} /\ req[t].state = "failed"

\* A failed connection or track of a critical participant fails the room.
CriticalFailure(t) ==
    /\ req[t].kind \in {"connection", "track"}
    /\ req[t].state = "failed" /\ IsCritical(req[t].part)

\* Mutant: a join that cannot be persisted just returns its error.
PersistFailedReturn(t) == Return(t)

\* A join that cannot be persisted fails the room; other handlers give up.
PersistFailed(t) ==
    IF req[t].kind = "join"
    THEN Goto(t, "closeMedia", Fail(held[t], req[t].now))
    ELSE Return(t)

SaveRecord(t) ==
    /\ pc[t] = "saveRecord"
    /\ \/ /\ WriteRecord(held[t], TRUE)
          /\ IF CriticalFailure(t)
             THEN Goto(t, "closeMedia", Fail(held[t], req[t].now))
             ELSE Goto(t, "saveState", held[t])
       \/ WriteRecord(held[t], FALSE) /\ PersistFailed(t)
    /\ UNCHANGED <<env, runtime, states, media>>

SaveState(t) ==
    /\ pc[t] = "saveState"
    /\ \/ WriteState(held[t], TRUE) /\ Return(t)
       \/ WriteState(held[t], FALSE) /\ PersistFailed(t)
    /\ UNCHANGED <<env, runtime, records, media>>

-----------------------------------------------------------------------------
(* failRoom and closeRoom: the same four writes, all of them attempted     *)
(* whatever fails.  An error ends the janitor's loop over its rooms.       *)

AbortOnError(p, ok) == todo' = IF p = Janitor /\ ~ok THEN {} ELSE todo

\* p goes on to the next write of the teardown.
Proceed(p, step, room) ==
    /\ pc' = [pc EXCEPT ![p] = step]
    /\ held' = [held EXCEPT ![p] = room]
    /\ UNCHANGED <<lock, req, relays>>

\* An error of Close here is logged or returned, it changes no state.
CloseMedia(t) ==
    /\ pc[t] = "closeMedia"
    /\ CloseSession(req[t].session)
    /\ Goto(t, "delete", held[t])
    /\ UNCHANGED <<env, runtime, store, faults>>

\* Mutant: the runtime room is not deleted.
KeepRuntime(p) ==
    /\ pc[p] = "delete"
    /\ Goto(p, "closeRecord", held[p])
    /\ UNCHANGED <<env, runtime, store, media, faults>>

DeleteRuntime(p) ==
    /\ pc[p] = "delete"
    /\ runtime' = [runtime EXCEPT ![held[p].id] = Null]
    /\ Goto(p, "closeRecord", held[p])
    /\ UNCHANGED <<env, store, media, faults>>

CloseRecord(p) ==
    /\ pc[p] = "closeRecord"
    /\ \E ok \in BOOLEAN : WriteRecord(held[p], ok) /\ AbortOnError(p, ok)
    /\ Proceed(p, "closeState", held[p])
    /\ UNCHANGED <<env, runtime, states, media>>

CloseState(t) ==
    /\ pc[t] = "closeState"
    /\ \E ok \in BOOLEAN : WriteState(held[t], ok)
    /\ Return(t)
    /\ UNCHANGED <<env, runtime, records, media>>

JanitorCloseState ==
    /\ pc[Janitor] = "closeState"
    /\ \E ok \in BOOLEAN : WriteState(held[Janitor], ok) /\ AbortOnError(Janitor, ok)
    /\ Proceed(Janitor, "idle", Null)
    /\ UNCHANGED <<env, runtime, records, media>>

-----------------------------------------------------------------------------
(* The janitor: snapshots of the runtime rooms, closed one after another   *)
(* without the session lock.                                               *)

Snapshot(due) == {Close(runtime[r], clock) : r \in {x \in RoomIds :
                     /\ runtime[x] # Null /\ ~Terminal(runtime[x].status)
                     /\ due[x]}}

\* Mutant: a room is idle only after the timeout has been exceeded.
IdleExceeded(r) == runtime[r] # Null /\ clock - runtime[r].updatedAt > IdleTimeout

Idle(r) == runtime[r] # Null /\ clock - runtime[r].updatedAt >= IdleTimeout

\* Without a timeout neither the ticker nor the hook of the stop exists.
CleanupEnabled == IdleTimeout > 0

CleanupIdleRooms ==
    /\ phase \in {"running", "draining"} /\ CleanupEnabled
    /\ pc[Janitor] = "idle" /\ todo = {}
    /\ todo' = Snapshot([r \in RoomIds |-> Idle(r)])
    /\ todo' # {}
    /\ UNCHANGED <<env, runtime, store, media, lock, pc, req, held, relays, faults>>

\* OnStop waits for the cleanup goroutine, then closes every room.
ShutdownActiveRooms ==
    /\ phase = "draining" /\ CleanupEnabled
    /\ \A t \in Threads : pc[t] # "idle" => req[t].kind \notin {"leave", "end"}
    /\ pc[Janitor] = "idle" /\ todo = {}
    /\ phase' = "sweeping"
    /\ todo' = Snapshot([r \in RoomIds |-> TRUE])
    /\ UNCHANGED <<clock, runtime, store, media, lock, pc, req, held, relays, faults>>

JanitorCloseMedia(room) ==
    /\ pc[Janitor] = "idle" /\ room \in todo
    /\ CloseSession(room.session)
    /\ \E ok \in BOOLEAN :
         /\ IF ok THEN UNCHANGED faults ELSE CallFails
         /\ todo' = IF ok THEN todo \ {room} ELSE {}
    /\ Proceed(Janitor, "delete", room)
    /\ UNCHANGED <<env, runtime, store>>

-----------------------------------------------------------------------------
(* The life of the process, and time.                                      *)

\* The HTTP server stops accepting; it does not wait for hijacked joins.
BeginStop ==
    /\ MayStop /\ phase = "running"
    /\ phase' = "draining"
    /\ UNCHANGED <<clock, runtime, store, media, ctl, faults>>

FinishStop ==
    /\ \/ phase = "sweeping" /\ pc[Janitor] = "idle" /\ todo = {}
       \/ phase = "draining" /\ ~CleanupEnabled
          /\ \A t \in Threads : pc[t] # "idle" => req[t].kind \notin {"leave", "end"}
    /\ phase' = "stopped"
    /\ UNCHANGED <<clock, runtime, store, media, ctl, faults>>

\* A crash, or the exit of a stopped process: only the stores survive.
Restart ==
    /\ MayCrash \/ phase = "stopped"
    /\ phase' = "running"
    /\ runtime' = [r \in RoomIds |-> Null]
    /\ conns' = [s \in Sessions |-> [p \in Participants |-> Null]]
    /\ peers' = [i \in PeerIds |-> Null]
    /\ relays' = {} /\ callbacks' = {}
    /\ lock' = [s \in Sessions |-> Null]
    /\ pc' = [t \in Procs |-> "idle"]
    /\ req' = [t \in Threads |-> Null]
    /\ held' = [t \in Procs |-> Null]
    /\ todo' = {}
    /\ UNCHANGED <<clock, store, faults>>

ExpireState(s) ==
    /\ IdleTimeout > 0 /\ states[s] # Null
    /\ clock - states[s].savedAt >= IdleTimeout
    /\ states' = [states EXCEPT ![s] = Null]
    /\ UNCHANGED <<env, runtime, records, media, ctl, faults>>

Tick ==
    /\ clock < MaxClock /\ clock' = clock + 1
    /\ UNCHANGED <<phase, runtime, store, media, ctl, faults>>

-----------------------------------------------------------------------------

\* What the handlers of Join, LeaveParticipant and End ask of the service.
Request(t) == \E s \in Sessions :
    \/ \E p \in Participants :
         \/ \E publish \in PublishModes : ReceiveRequest(t, "join", s, p, publish)
         \/ ReceiveRequest(t, "leave", s, p, FALSE)
    \/ ReceiveRequest(t, "end", s, Null, FALSE)

\* The gateway hands every callback on to the service.
Begin(t) == Request(t) \/ \E c \in callbacks : ReceiveCallback(t, c)

\* What a thread does after it has the lock.
Handle(t) ==
    \/ JoinFind(t) \/ EndFind(t) \/ LeaveFind(t)
    \/ ConnectionFind(t) \/ TrackFind(t)
    \/ FindRecord(t) \/ AcceptParticipant(t) \/ RejectPeer(t) \/ ClosePeer(t)
    \/ SaveRuntime(t) \/ SaveRecord(t) \/ SaveState(t)
    \/ CloseMedia(t) \/ DeleteRuntime(t) \/ CloseRecord(t) \/ CloseState(t)

JanitorStep ==
    \/ CleanupIdleRooms \/ ShutdownActiveRooms
    \/ \E room \in todo : JanitorCloseMedia(room)
    \/ DeleteRuntime(Janitor) \/ CloseRecord(Janitor) \/ JanitorCloseState

MediaStep ==
    \/ \E i \in PeerIds : TrackStart(i) \/ \E st \in PeerStates : PeerChange(i, st)
    \/ \E r \in relays, st \in TrackStates : RelayEnd(r, st)

Lifecycle == BeginStop \/ FinishStop \/ Restart

Next ==
    \/ \E r \in RoomIds, s \in Sessions : CreateSession(r, s)
    \/ \E t \in Threads : Begin(t) \/ LockSession(t) \/ Handle(t)
    \/ JanitorStep
    \/ MediaStep
    \/ Lifecycle
    \/ \E s \in Sessions : ExpireState(s)
    \/ Tick

Spec == Init /\ [][Next]_vars

\* The ticker of the cleanup goes on; nothing else is needed of handlers,
\* which the janitor does not wait for.
FairSpec == Spec /\ WF_vars(JanitorStep)

-----------------------------------------------------------------------------
(* The queries: one read each, outside any lock.                           *)

GetSessionStatus(s) == IF states[s] = Null THEN Null ELSE states[s].view

-----------------------------------------------------------------------------
(* Properties.                                                             *)

Quiet(s) == lock[s] = Null
Registered(s) == {p \in Participants : conns[s][p] # Null}

DataTypes ==
    /\ clock \in Nat
    /\ phase \in {"running", "draining", "sweeping", "stopped"}
    /\ runtime \in [RoomIds -> Rooms \cup {Null}]
    /\ records \in [RoomIds -> Records \cup {Null}]
    /\ states \in [Sessions -> States \cup {Null}]
    /\ conns \in [Sessions -> [Participants -> PeerIds \cup {Null}]]
    /\ peers \in [PeerIds -> Peers \cup {Null}]
    /\ callbacks \subseteq Callbacks
    /\ faults \in Nat

ControlTypes ==
    /\ relays \subseteq [session : Sessions, part : Participants]
    /\ lock \in [Sessions -> Threads \cup {Null}]
    /\ pc \in [Procs -> Steps \cup {"idle"}]
    /\ req \in [Threads -> Served \cup {Null}]
    /\ held \in [Procs -> Rooms \cup {Null}]
    /\ todo \subseteq Rooms

\* Every variable has the type the code declares for it.
TypeOK == DataTypes /\ ControlTypes

\* runtime.FindBySessionID returns "the" room of a session: whatever clients,
\* callbacks, the janitor and crashes do, at most one runtime room of a
\* session exists, even when CreateSession was called twice for it.
OneRuntimeRoomPerSession ==
    \A s \in Sessions : \A q, r \in RuntimeRooms(s) : q = r

\* The runtime repository holds active rooms only: a created room gets there
\* with its first participant, a closed or failed one is never written back.
RuntimeOnlyActive ==
    \A r \in RoomIds : runtime[r] # Null => runtime[r].status = "active"

HoldsRoom == {"accept", "rejectPeer", "closePeer", "saveRuntime", "saveRecord",
              "saveState", "closeMedia", "delete", "closeRecord", "closeState"}
WritesActive == {"closePeer", "saveRuntime", "saveRecord", "saveState"}

\* A held lock has a goroutine at work on its session: no return of a handler,
\* after whatever error, leaves the session locked for everybody after it.
LocksAreReleased ==
    \A s \in Sessions : lock[s] # Null =>
        /\ pc[lock[s]] \notin {"idle", "lock"}
        /\ req[lock[s]] # Null /\ req[lock[s]].session = s

\* What a handler may rely on: it has the lock of its session, its copy is of
\* the only room the session can have in the runtime, and what it will save
\* as a running room is active.
HandlerOK(t) ==
    /\ pc[t] # "idle" => req[t] # Null
    /\ pc[t] \notin {"idle", "lock"} => lock[req[t].session] = t
    /\ pc[t] \in {"accept", "rejectPeer"} => req[t].kind = "join"
    /\ pc[t] = "closePeer" => req[t].kind = "leave"
    /\ pc[t] = "findRecord" => RuntimeRooms(req[t].session) = {}
    /\ pc[t] \in HoldsRoom =>
          /\ held[t] # Null /\ held[t].session = req[t].session
          /\ RuntimeRooms(req[t].session) \subseteq {held[t].id}
    /\ pc[t] \in WritesActive => held[t].status = "active"

JanitorOK ==
    /\ pc[Janitor] \in {"idle", "delete", "closeRecord", "closeState"}
    /\ pc[Janitor] # "idle" => held[Janitor] # Null

\* The inductive invariant: a handler of a session works alone on the one
\* room the session can have, while the janitor may delete it at any time.
ServiceInvariant ==
    /\ TypeOK
    /\ OneRuntimeRoomPerSession
    /\ RuntimeOnlyActive
    /\ \A r \in RoomIds : runtime[r] # Null => runtime[r].id = r
    /\ \A t \in Threads : HandlerOK(t)
    /\ JanitorOK

\* A session record that is closed or failed never becomes joinable again.
TerminalSticky ==
    [][\A r \in RoomIds :
          records[r] # Null /\ Terminal(records[r].status)
          => Terminal(records'[r].status)]_vars

\* Between handlers the record of a runtime room is active, whichever of the
\* saves of the handlers failed.
RuntimeHasActiveRecord ==
    \A r \in RoomIds : runtime[r] # Null /\ Quiet(runtime[r].session)
        => records[r] # Null /\ records[r].status = "active"

\* Between handlers only members of the runtime room have a registered peer:
\* rejected joins, leaves, failures and ends leave no connection behind in
\* the engine's table, whichever save or Close failed.
RegisteredAreMembers ==
    \A s \in Sessions : Quiet(s) => \A p \in Registered(s) :
        \E r \in RuntimeRooms(s) : p \in Members(runtime[r])

\* Between handlers, without failing calls, the live state is the projection
\* of the runtime room; when there is no room, it is that of a terminal one.
LiveStateMirrorsRoom ==
    \A s \in Sessions : Quiet(s) /\ faults = 0 =>
        /\ \A r \in RuntimeRooms(s) : 
              GetSessionStatus(s) = Project(runtime[r])
        /\ RuntimeRooms(s) = {} /\ GetSessionStatus(s) # Null
              => Terminal(GetSessionStatus(s).status)

\* As far as the code keeps docs/ARCHITECTURE.md:72-73: without failing calls a
\* room that clients are told has failed had an agent in it, so no failure, late
\* callback, leave or rejected join of users alone fails a room.
RoomsFailWithTheirAgent ==
    \A s \in Sessions :
        faults = 0 /\ GetSessionStatus(s) # Null /\ GetSessionStatus(s).status = "failed"
        => \E p \in Members(GetSessionStatus(s)) : IsCritical(p)

\* A room that nothing touched for the timeout is closed by the janitor,
\* unless a handler touches it or the process is stopped first, whichever
\* call of the cleanup fails.
IdleRoomsAreClosed ==
    \A r \in RoomIds :
        runtime[r] # Null /\ clock - runtime[r].updatedAt >= IdleTimeout
        ~> \/ runtime[r] = Null \/ clock - runtime[r].updatedAt < IdleTimeout
           \/ phase # "running"

\* Without failing calls a runtime room that was touched within the timeout
\* has a live state: every handler's save starts the entry's life again.
FreshRoomIsReflected ==
    \A r \in RoomIds :
        /\ runtime[r] # Null /\ Quiet(runtime[r].session) /\ faults = 0
        /\ clock - runtime[r].updatedAt < IdleTimeout
        => states[runtime[r].session] # Null

(* The contract that the service implements while no janitor deletes rooms *)
(* next to a handler (IdleRace shows what happens then).                   *)

OpenRoom(s) == IF RuntimeRooms(s) = {} THEN Null
               ELSE CHOOSE r \in RoomIds : RuntimeRooms(s) = {r}
OpenMembers(s) == UNION {Members(runtime[r]) : r \in RuntimeRooms(s)}

Contract == INSTANCE SessionContract WITH
    open    <- [s \in Sessions |-> OpenRoom(s)],
    members <- [s \in Sessions |-> OpenMembers(s)]

\* Whatever handlers, callbacks, failing saves and crashes do, what the runtime
\* repository shows of a session changes as its contract says: one member at a
\* time, always in the same room, and no save of a handler undoes another's.
ImplementsContract == Contract!Spec

(* What the documents promise and the code does not keep.                  *)

\* docs/ARCHITECTURE.md:76: a stopped service has closed its rooms.
ShutdownLeavesNoRoom ==
    phase = "stopped" /\ faults = 0 => \A r \in RoomIds : runtime[r] = Null

\* A client that polls GetSessionStatus and has seen a room closed or failed
\* never sees this room come back.  Requests and callbacks keep this as long as
\* no call fails (a teardown whose record write failed leaves a room that can
\* be joined); next to the idle cleanup (docs/ARCHITECTURE.md:74, "must close
\* media peers and write closed live state") it does not hold.
ShownEndIsFinal ==
    [][\A s \in Sessions :
          faults = 0 /\ GetSessionStatus(s) # Null /\ Terminal(GetSessionStatus(s).status)
          /\ GetSessionStatus(s)' # Null
          /\ GetSessionStatus(s)'.id = GetSessionStatus(s).id
          => Terminal(GetSessionStatus(s)'.status)]_vars

\* docs/ARCHITECTURE.md:74: when the janitor has closed the last room of a
\* session and nobody is at work, no peer connection of it is open.
ClosedSessionHasNoPeers ==
    \A s \in Sessions :
        /\ RuntimeRooms(s) = {} /\ todo = {} /\ pc[Janitor] = "idle"
        /\ \A t \in Threads : pc[t] = "idle"
        => \A i \in PeerIds : peers[i] # Null => peers[i].session # s
=============================================================================
