-------------------------- MODULE SessionRoomProofs --------------------------
(***************************************************************************)
(* More of SessionService, for every value of its constants, with the      *)
(* janitor, crashes and stops at any time: a room belongs to one session   *)
(* in the runtime and in the records, a failure of a critical participant  *)
(* ends its room, and a room in use has a live state.                      *)
(*                                                                         *)
(* Each property holds when no handler is at work on a session, so its     *)
(* invariant says in which steps of a handler it holds as well, and what   *)
(* the copy of the room must satisfy for it to hold again at the end.      *)
(***************************************************************************)
EXTENDS SessionServiceProofs

USE ConstantsAssumption, AgentsAssumption, NullAssumption

\* A new room is a room.
LEMMA NewRoomType ==
    ASSUME NEW r \in RoomIds, NEW s \in Sessions, NEW now \in Nat
    PROVE  NewRoom(r, s, now) \in Rooms /\ NewRoom(r, s, now).id = r
           /\ NewRoom(r, s, now).session = s
<1>1. [p \in Participants |-> Absent] \in [Participants -> ParticipantStates]
  BY DEF Absent, ParticipantStates
<1> QED BY <1>1 DEF NewRoom, Rooms, RoomStatuses

-----------------------------------------------------------------------------
(* What a step leaves alone.                                               *)

\* The room is the room of its record's session.
OwnRecord(room) ==
    records[room.id] # Null /\ records[room.id].session = room.session

\* Whoever has a room, or a copy of it, agrees with its record about the
\* session it belongs to.
RecordsKeepSession ==
    /\ \A r \in RoomIds : runtime[r] # Null => OwnRecord(runtime[r])
    /\ \A t \in Procs : pc[t] \in HoldsRoom => OwnRecord(held[t])
    /\ \A room \in todo : OwnRecord(room)

\* A step of handler t touches no other goroutine.
MovesOnly(t) ==
    /\ \A u \in Procs \ {t} : pc'[u] = pc[u] /\ held'[u] = held[u]
    /\ \A u \in Threads \ {t} : req'[u] = req[u]
    /\ \A s \in Sessions \ {req[t].session} : lock'[s] = lock[s]
    /\ UNCHANGED todo

\* Nor does it touch another session, or a room other than the one at hand.
WritesOnly(t) ==
    /\ \A s \in Sessions \ {req[t].session} :
          states'[s] = states[s] /\ conns'[s] = conns[s]
    /\ \A r \in RoomIds :
          /\ runtime'[r] # runtime[r] =>
                /\ r = held[t].id
                /\ \/ pc[t] = "saveRuntime" /\ runtime'[r] = held[t]
                   \/ pc[t] = "delete" /\ runtime'[r] = Null
          /\ records'[r] # records[r] =>
                /\ r = held[t].id /\ pc[t] \in {"saveRecord", "closeRecord"}
                /\ records'[r] = Record(held[t])
    /\ UNCHANGED env
    /\ faults' \in {faults, faults + 1}

\* A handler goes on to a step with a room, or returns.
LEMMA HandleMoves ==
    ASSUME ServiceInvariant, NEW t \in Threads, Handle(t)
    PROVE  /\ InSection(t) /\ MovesOnly(t)
           /\ \/ Return(t)
              \/ \E step \in Steps \ {"lock"} :
                    /\ pc'[t] = step /\ req'[t] = req[t]
                    /\ lock'[req[t].session] = t
<1>1. /\ InSection(t) /\ ControlTypes /\ t \in Procs /\ t # Janitor
  BY HandleGoesOn DEF ServiceInvariant, TypeOK, Procs
<1>2. req[t].session \in Sessions /\ lock[req[t].session] = t
  BY <1>1, Serving DEF ServiceInvariant, HandlerOK, InSection
<1>3. todo' = todo
  BY <1>1 DEF Handle, JoinFind, JoinFound, EndFind, LeaveFind, ConnectionFind, TrackFind,
     FindRecord, AcceptParticipant, RejectPeer, ClosePeer, SaveRuntime, SaveRecord,
     SaveState, PersistFailed, CloseMedia, DeleteRuntime, CloseRecord, CloseState,
     AbortOnError, Goto, Return
<1>4. \E room : held' = [held EXCEPT ![t] = room]
  BY DEF Handle, JoinFind, JoinFound, EndFind, LeaveFind, ConnectionFind, TrackFind,
     FindRecord, AcceptParticipant, RejectPeer, ClosePeer, SaveRuntime, SaveRecord,
     SaveState, PersistFailed, CloseMedia, DeleteRuntime, CloseRecord, CloseState,
     Goto, Return, Proceed
<1>5. CASE Return(t)
  <2>1. MovesOnly(t)
    BY <1>1, <1>2, <1>5 DEF Return, MovesOnly, ControlTypes, Procs
  <2> QED BY <1>1, <1>5, <2>1
<1>6. ASSUME NEW step \in Steps \ {"lock"}, pc' = [pc EXCEPT ![t] = step],
             UNCHANGED <<lock, req>>
      PROVE  MovesOnly(t) /\ pc'[t] = step /\ req'[t] = req[t]
             /\ lock'[req[t].session] = t
  BY <1>1, <1>2, <1>3, <1>4, <1>6 DEF MovesOnly, ControlTypes, Procs
<1> QED BY <1>1, <1>5, <1>6, HandleGoesOn

\* What a handler writes.
LEMMA HandleWrites ==
    ASSUME ServiceInvariant, NEW t \in Threads, Handle(t)
    PROVE  WritesOnly(t)
<1>1. InSection(t) /\ DataTypes
  BY HandleGoesOn DEF ServiceInvariant, TypeOK
<1>2. /\ req[t].session \in Sessions
      /\ pc[t] \in HoldsRoom => /\ held[t] \in Rooms /\ held[t].id \in RoomIds
                                /\ held[t].session = req[t].session
  BY <1>1, Serving
<1>3. CASE JoinFind(t) \/ EndFind(t) \/ LeaveFind(t) \/ ConnectionFind(t) \/ TrackFind(t)
           \/ FindRecord(t)
  BY <1>3 DEF JoinFind, EndFind, LeaveFind, ConnectionFind, TrackFind, FindRecord,
     CallFails, WritesOnly, env, store, media, DataTypes
<1>4. CASE AcceptParticipant(t) \/ RejectPeer(t) \/ ClosePeer(t) \/ CloseMedia(t)
  BY <1>1, <1>2, <1>4 DEF AcceptParticipant, RejectPeer, ClosePeer, CloseMedia, FailOffer,
     AcceptOffer, CloseParticipant, CloseSession, CallFails, WritesOnly, env, store,
     DataTypes
<1>5. CASE SaveRuntime(t) \/ DeleteRuntime(t)
  BY <1>1, <1>2, <1>5 DEF SaveRuntime, DeleteRuntime, WritesOnly, env, store, media,
     DataTypes, HoldsRoom
<1>6. CASE SaveRecord(t) \/ CloseRecord(t)
  BY <1>1, <1>2, <1>6 DEF SaveRecord, CloseRecord, WriteRecord, CallFails, WritesOnly,
     env, media, DataTypes, HoldsRoom
<1>7. CASE SaveState(t) \/ CloseState(t)
  BY <1>1, <1>2, <1>7 DEF SaveState, CloseState, WriteState, CallFails, WritesOnly,
     env, media, DataTypes, HoldsRoom
<1> QED BY <1>3, <1>4, <1>5, <1>6, <1>7 DEF Handle

\* The part of the service's state that belongs to session s stays as it is.
SameSession(s) ==
    /\ NextRooms(s) = RuntimeRooms(s)
    /\ \A r \in RuntimeRooms(s) : runtime'[r] = runtime[r] /\ records'[r] = records[r]
    /\ states'[s] = states[s] /\ conns'[s] = conns[s]
    /\ lock'[s] = lock[s]

-----------------------------------------------------------------------------
(* A room is the room of one session.                                      *)

\* The record of this room is there after the step, for the same session.
KeepsRecord(room) ==
    records'[room.id] # Null /\ records'[room.id].session = room.session

\* No step takes a record away or gives it to another session.
RecordsStay ==
    \A r \in RoomIds : records[r] # Null =>
        records'[r] # Null /\ records'[r].session = records[r].session

\* A room written to its own record leaves the record its session.
LEMMA WriteRecordStays ==
    ASSUME ServiceInvariant, NEW room \in Rooms, OwnRecord(room) \/ records[room.id] = Null,
           NEW ok \in BOOLEAN, WriteRecord(room, ok)
    PROVE  RecordsStay
<1>1. room.id \in RoomIds /\ Record(room) \in Records /\ Record(room).session = room.session
  BY DEF Rooms, Record, Records
<1>2. records' = records \/ records' = [records EXCEPT ![room.id] = Record(room)]
  BY DEF WriteRecord
<1>3. \A r \in RoomIds : records'[r] # records[r] => r = room.id /\ records'[r] = Record(room)
  BY <1>1, <1>2 DEF ServiceInvariant, TypeOK, DataTypes
<1>4. Record(room) # Null
  BY <1>1, NullAssumption
<1> QED BY <1>1, <1>3, <1>4 DEF RecordsStay, OwnRecord

\* That holds of every step.
LEMMA StepRecordsStay ==
    ASSUME ServiceInvariant, RecordsKeepSession, [Next]_vars
    PROVE  RecordsStay
<1>1. CASE records' = records
  BY <1>1 DEF RecordsStay
<1>2. ASSUME NEW t \in Threads, Handle(t)
      PROVE  RecordsStay
  <2>1. InSection(t) /\ WritesOnly(t) /\ t \in Procs
    BY <1>2, HandleMoves, HandleWrites DEF Procs
  <2>2. pc[t] \in HoldsRoom => held[t] \in Rooms /\ OwnRecord(held[t])
    BY <2>1, Serving DEF RecordsKeepSession
  <2>3. pc[t] \in {"saveRecord", "closeRecord"} => Record(held[t]) \in Records
    BY <2>2 DEF HoldsRoom, Rooms, Record, Records
  <2>4. pc[t] \in {"saveRecord", "closeRecord"} =>
           Record(held[t]) # Null /\ Record(held[t]).session = held[t].session
    BY <2>3, NullAssumption DEF Record
  <2> QED BY <2>1, <2>2, <2>4 DEF WritesOnly, RecordsStay, OwnRecord, HoldsRoom
<1>3. CASE CloseRecord(Janitor)
  <2>1. pc[Janitor] = "closeRecord" /\ Janitor \in Procs
    BY <1>3 DEF CloseRecord, Procs
  <2>2. held[Janitor] \in Rooms /\ OwnRecord(held[Janitor])
    BY <2>1, JanitorHeld DEF RecordsKeepSession, HoldsRoom
  <2> QED BY <1>3, <2>2, WriteRecordStays DEF CloseRecord
<1>4. ASSUME NEW r \in RoomIds, NEW s \in Sessions, CreateSession(r, s)
      PROVE  RecordsStay
  <2>1. NewRoom(r, s, clock) \in Rooms /\ NewRoom(r, s, clock).id = r
    BY NewRoomType DEF ServiceInvariant, TypeOK, DataTypes
  <2> QED BY <1>4, <2>1, WriteRecordStays DEF CreateSession
<1>5. ASSUME NEW t \in Threads, Begin(t) \/ LockSession(t)
      PROVE  records' = records
  BY <1>5 DEF Begin, Request, ReceiveRequest, ReceiveCallback, LockSession, store
<1>6. CASE \/ CleanupIdleRooms \/ ShutdownActiveRooms \/ DeleteRuntime(Janitor)
           \/ JanitorCloseState \/ \E room \in todo : JanitorCloseMedia(room)
  BY <1>1, <1>6 DEF CleanupIdleRooms, ShutdownActiveRooms, DeleteRuntime,
                    JanitorCloseState, JanitorCloseMedia, store
<1>7. CASE \/ MediaStep \/ Lifecycle \/ Tick \/ UNCHANGED vars
           \/ \E s \in Sessions : ExpireState(s)
  BY <1>1, <1>7 DEF MediaStep, PeerChange, TrackStart, RelayEnd, Lifecycle, BeginStop,
     FinishStop, Restart, Tick, ExpireState, vars, store
<1> QED BY <1>1, <1>2, <1>3, <1>4, <1>5, <1>6, <1>7 DEF Next, JanitorStep

\* Where the room comes from that a handler goes on with: it is the one at
\* hand, the one the runtime has, or the one a record is read back as.
RoomOrigin(t, room) ==
    /\ room.session = req[t].session
    /\ \/ pc[t] \in HoldsRoom /\ room.id = held[t].id
       \/ room.id \in RuntimeRooms(req[t].session)
       \/ room.id \in RecordIds(req[t].session)

\* Ending a room or giving it a user keeps its identity.
LEMMA SameIdentity ==
    ASSUME NEW room \in Rooms, NEW now \in Nat, NEW p \in Participants
    PROVE  /\ SetUserID(room, now).id = room.id
           /\ SetUserID(room, now).session = room.session
           /\ Close(room, now).id = room.id /\ Close(room, now).session = room.session
           /\ Fail(room, now).id = room.id /\ Fail(room, now).session = room.session
           /\ RemoveParticipant(room, p, now).id = room.id
           /\ RemoveParticipant(room, p, now).session = room.session
           /\ \A x : /\ AddParticipant(room, p, x, now).id = room.id
                     /\ AddParticipant(room, p, x, now).session = room.session
                     /\ UpdateParticipantState(room, p, x, now).id = room.id
                     /\ UpdateParticipantState(room, p, x, now).session = room.session
                     /\ UpdateParticipantTrackState(room, p, x, now).id = room.id
                     /\ UpdateParticipantTrackState(room, p, x, now).session = room.session
<1>1. \A x : /\ UpdateParticipantState(room, p, x, now).id = room.id
             /\ UpdateParticipantState(room, p, x, now).session = room.session
  BY DEF UpdateParticipantState, Rooms
<1>2. \A x : /\ UpdateParticipantTrackState(room, p, x, now).id = room.id
             /\ UpdateParticipantTrackState(room, p, x, now).session = room.session
  BY DEF UpdateParticipantTrackState, Rooms
<1>3. \A x : /\ AddParticipant(room, p, x, now).id = room.id
             /\ AddParticipant(room, p, x, now).session = room.session
  BY DEF AddParticipant, Rooms
<1>4. /\ RemoveParticipant(room, p, now).id = room.id
      /\ RemoveParticipant(room, p, now).session = room.session
  BY DEF RemoveParticipant, Rooms
<1> QED BY <1>1, <1>2, <1>3, <1>4, EndRoomType DEF SetUserID, Rooms

\* A handler never goes on with a room of another session or id.
LEMMA HandleOrigin ==
    ASSUME ServiceInvariant, NEW t \in Threads, Handle(t), pc'[t] \in HoldsRoom
    PROVE  RoomOrigin(t, held'[t])
<1>1. /\ InSection(t) /\ ControlTypes /\ DataTypes /\ t \in Procs /\ t # Janitor
      /\ req[t] \in Served /\ req[t].session \in Sessions /\ req[t].now \in Nat
  BY HandleGoesOn, Serving DEF ServiceInvariant, TypeOK, Procs
<1>2. pc[t] \in HoldsRoom =>
         /\ held[t] \in Rooms /\ held[t].session = req[t].session
  BY <1>1, Serving
<1>3. \A r \in RuntimeRooms(req[t].session) :
         runtime[r] \in Rooms /\ runtime[r].id = r /\ runtime[r].session = req[t].session
  BY <1>1, FoundRoom
<1>4. \A r \in RecordIds(req[t].session) :
         LET room == RuntimeRoom(r, req[t].now) IN
         room \in Rooms /\ room.id = r /\ room.session = req[t].session
  BY <1>1, RuntimeRoomType DEF RecordIds
<1>5. ASSUME NEW step, NEW room, Goto(t, step, room)
      PROVE  held'[t] = room
  BY <1>1, <1>5 DEF Goto, ControlTypes
<1>6. ASSUME Return(t) PROVE FALSE
  BY <1>1, <1>6 DEF Return, ControlTypes, HoldsRoom
<1>7. CASE JoinFind(t) \/ EndFind(t)
  <2>1. ASSUME NEW r \in RuntimeRooms(req[t].session),
               \/ held'[t] = SetUserID(runtime[r], req[t].now)
               \/ held'[t] = Close(runtime[r], req[t].now)
        PROVE  RoomOrigin(t, held'[t])
    BY <1>1, <1>3, <2>1, SameIdentity, EndRoomType DEF SetUserID, Rooms, RoomOrigin
  <2>2. ~Goto(t, "findRecord", Null)
    BY <1>1 DEF Goto, ControlTypes, HoldsRoom
  <2> QED BY <1>5, <1>6, <1>7, <2>1, <2>2 DEF JoinFind, EndFind, JoinFound
<1>8. CASE FindRecord(t)
  <2>1. ASSUME NEW r \in RecordIds(req[t].session),
               \/ held'[t] = SetUserID(RuntimeRoom(r, req[t].now), req[t].now)
               \/ held'[t] = Close(RuntimeRoom(r, req[t].now), req[t].now)
        PROVE  RoomOrigin(t, held'[t])
    <3> DEFINE room == RuntimeRoom(r, req[t].now)
    <3>1. room \in Rooms /\ room.id = r /\ room.session = req[t].session
      BY <1>4
    <3> HIDE DEF room
    <3>2. SetUserID(room, req[t].now).id = r
          /\ SetUserID(room, req[t].now).session = req[t].session
      BY <3>1 DEF SetUserID, Rooms
    <3>3. Close(room, req[t].now).id = r
          /\ Close(room, req[t].now).session = req[t].session
      BY <1>1, <3>1, EndRoomType
    <3> QED BY <2>1, <3>2, <3>3 DEF RoomOrigin, room
  <2> QED BY <1>5, <1>6, <1>8, <2>1 DEF FindRecord, JoinFound
<1>9. CASE LeaveFind(t) \/ ConnectionFind(t) \/ TrackFind(t)
  <2>1. req[t].part \in Participants
    BY <1>1, <1>9, ServedType DEF LeaveFind, ConnectionFind, TrackFind
  <2>2. ASSUME NEW r \in RuntimeRooms(req[t].session),
               \/ held'[t] = Fail(runtime[r], req[t].now)
               \/ held'[t] = RemoveParticipant(runtime[r], req[t].part, req[t].now)
               \/ \E x : held'[t] = UpdateParticipantState(runtime[r], req[t].part, x, req[t].now)
               \/ \E x : held'[t] = UpdateParticipantTrackState(runtime[r], req[t].part, x, req[t].now)
        PROVE  RoomOrigin(t, held'[t])
    <3>1. held'[t].id = r /\ held'[t].session = req[t].session
      BY <1>1, <1>3, <2>1, <2>2, SameIdentity
    <3> QED BY <3>1 DEF RoomOrigin
  <2> QED BY <1>5, <1>6, <1>9, <2>2 DEF LeaveFind, ConnectionFind, TrackFind
<1>10. CASE /\ pc[t] \in HoldsRoom
            /\ \/ held'[t] = held[t]
               \/ held'[t] = Fail(held[t], req[t].now)
               \/ \E x : held'[t] = AddParticipant(held[t], req[t].part, x, req[t].now)
                         /\ req[t].part \in Participants
  <2>1. CASE held'[t] = held[t] \/ held'[t] = Fail(held[t], req[t].now)
    <3>1. /\ Fail(held[t], req[t].now).id = held[t].id
          /\ Fail(held[t], req[t].now).session = held[t].session
      BY <1>1, <1>2, <1>10, EndRoomType
    <3> QED BY <1>2, <1>10, <2>1, <3>1 DEF RoomOrigin
  <2>2. ASSUME NEW x, req[t].part \in Participants,
               held'[t] = AddParticipant(held[t], req[t].part, x, req[t].now)
        PROVE  held'[t].id = held[t].id /\ held'[t].session = held[t].session
    BY <1>1, <1>2, <1>10, <2>2, SameIdentity
  <2> QED BY <1>2, <1>10, <2>1, <2>2 DEF RoomOrigin
<1>11. CASE AcceptParticipant(t)
  <2>1. req[t].part \in Participants
    BY <1>1, <1>11, ServedType DEF AcceptParticipant, ServiceInvariant, HandlerOK
  <2> QED BY <1>5, <1>6, <1>10, <1>11, <2>1 DEF AcceptParticipant, HoldsRoom
<1>12. CASE \/ RejectPeer(t) \/ ClosePeer(t) \/ SaveRuntime(t) \/ SaveRecord(t)
            \/ SaveState(t) \/ CloseMedia(t) \/ DeleteRuntime(t) \/ CloseState(t)
  BY <1>5, <1>6, <1>10, <1>12 DEF RejectPeer, ClosePeer, SaveRuntime, SaveRecord,
     SaveState, CloseMedia, DeleteRuntime, CloseState, PersistFailed, HoldsRoom
<1>13. CASE CloseRecord(t)
  <2>1. held'[t] = held[t] /\ pc[t] \in HoldsRoom
    BY <1>1, <1>13 DEF CloseRecord, Proceed, ControlTypes, HoldsRoom
  <2> QED BY <1>10, <2>1
<1> QED BY <1>7, <1>8, <1>9, <1>11, <1>12, <1>13 DEF Handle

\* A room at hand keeps its record in a step that changes no room.
LEMMA RecordsKept ==
    ASSUME ServiceInvariant, RecordsKeepSession, RecordsStay
    PROVE  /\ \A r \in RoomIds : runtime[r] # Null => KeepsRecord(runtime[r])
           /\ \A t \in Procs : pc[t] \in HoldsRoom => KeepsRecord(held[t])
           /\ \A room \in todo : KeepsRecord(room)
<1>1. \A room \in Rooms : OwnRecord(room) => KeepsRecord(room)
  BY DEF Rooms, OwnRecord, KeepsRecord, RecordsStay
<1>2. /\ \A r \in RoomIds : runtime[r] # Null => runtime[r] \in Rooms
      /\ todo \subseteq Rooms
      /\ held \in [Procs -> Rooms \cup {Null}]
  BY DEF ServiceInvariant, TypeOK, DataTypes, ControlTypes
<1>3. \A t \in Procs : pc[t] \in HoldsRoom => held[t] # Null
  BY DEF ServiceInvariant, HandlerOK, JanitorOK, HoldsRoom, Procs
<1> QED BY <1>1, <1>2, <1>3 DEF RecordsKeepSession

\* What a handler leaves behind belongs to the session it did before.
LEMMA HandleKeepsRecords ==
    ASSUME ServiceInvariant, RecordsKeepSession, NEW t \in Threads, Handle(t), RecordsStay
    PROVE  RecordsKeepSession'
<1>1. /\ InSection(t) /\ MovesOnly(t) /\ WritesOnly(t) /\ t \in Procs
      /\ req[t].session \in Sessions /\ ControlTypes /\ DataTypes
  BY HandleMoves, HandleWrites, Serving DEF Procs, ServiceInvariant, TypeOK
<1>2. pc[t] \in HoldsRoom =>
         held[t].session = req[t].session /\ held[t].id \in RoomIds
  BY <1>1, Serving
<1>3. \A r \in RoomIds : runtime'[r] # Null => KeepsRecord(runtime'[r])
  BY <1>1, <1>2, RecordsKept DEF WritesOnly, HoldsRoom
<1>4. pc'[t] \in HoldsRoom => KeepsRecord(held'[t])
  <2> SUFFICES ASSUME pc'[t] \in HoldsRoom PROVE KeepsRecord(held'[t])
    OBVIOUS
  <2>1. RoomOrigin(t, held'[t])
    BY HandleOrigin
  <2>2. CASE pc[t] \in HoldsRoom /\ held'[t].id = held[t].id
    BY <1>1, <1>2, <2>1, <2>2, RecordsKept DEF RoomOrigin, KeepsRecord
  <2>3. CASE held'[t].id \in RuntimeRooms(req[t].session)
    <3>1. /\ runtime[held'[t].id].id = held'[t].id
          /\ runtime[held'[t].id].session = req[t].session
          /\ held'[t].id \in RoomIds /\ runtime[held'[t].id] # Null
      BY <1>1, <2>3, FoundRoom DEF RuntimeRooms
    <3> QED BY <2>1, <3>1, RecordsKept DEF RoomOrigin, KeepsRecord
  <2>4. CASE held'[t].id \in RecordIds(req[t].session)
    BY <2>1, <2>4 DEF RoomOrigin, RecordIds, KeepsRecord, RecordsStay
  <2> QED BY <2>1, <2>2, <2>3, <2>4 DEF RoomOrigin
<1>5. \A u \in Procs : pc'[u] \in HoldsRoom => KeepsRecord(held'[u])
  BY <1>1, <1>4, RecordsKept DEF MovesOnly
<1>6. \A room \in todo' : KeepsRecord(room)
  BY <1>1, RecordsKept DEF MovesOnly
<1> QED BY <1>3, <1>5, <1>6 DEF RecordsKeepSession, OwnRecord, KeepsRecord

\* So does what the janitor leaves behind: its list holds rooms it found in
\* the runtime.
LEMMA JanitorKeepsRecords ==
    ASSUME ServiceInvariant, RecordsKeepSession, JanitorStep, RecordsStay
    PROVE  RecordsKeepSession'
<1>1. ControlTypes /\ DataTypes /\ Janitor \in Procs
  BY DEF ServiceInvariant, TypeOK, Procs
<1>2. CASE CleanupIdleRooms \/ ShutdownActiveRooms
  <2>1. UNCHANGED <<runtime, pc, held>>
    BY <1>2 DEF CleanupIdleRooms, ShutdownActiveRooms
  <2>2. ASSUME NEW r \in RoomIds, runtime[r] # Null
        PROVE  KeepsRecord(Close(runtime[r], clock))
    <3>1. runtime[r] \in Rooms /\ clock \in Nat
      BY <1>1, <2>2 DEF DataTypes
    <3>2. /\ Close(runtime[r], clock).id = runtime[r].id
          /\ Close(runtime[r], clock).session = runtime[r].session
      BY <3>1, EndRoomType
    <3> QED BY <2>2, <3>2, RecordsKept DEF KeepsRecord
  <2>3. ASSUME NEW room \in todo' PROVE KeepsRecord(room)
    <3>1. PICK due : todo' = Snapshot(due)
      BY <1>2 DEF CleanupIdleRooms, ShutdownActiveRooms
    <3>2. PICK r \in RoomIds : runtime[r] # Null /\ room = Close(runtime[r], clock)
      BY <2>3, <3>1 DEF Snapshot
    <3> QED BY <2>2, <3>2
  <2> QED BY <2>1, <2>3, RecordsKept DEF RecordsKeepSession, OwnRecord, KeepsRecord
<1>3. ASSUME NEW room, Proceed(Janitor, pc'[Janitor], room),
             pc'[Janitor] \in HoldsRoom => KeepsRecord(room), todo' \subseteq todo,
             \A r \in RoomIds : runtime'[r] # Null => runtime'[r] = runtime[r]
      PROVE  RecordsKeepSession'
  <2>1. /\ pc' = [pc EXCEPT ![Janitor] = pc'[Janitor]]
        /\ held' = [held EXCEPT ![Janitor] = room]
    BY <1>3 DEF Proceed
  <2>2. \A u \in Procs : pc'[u] \in HoldsRoom => KeepsRecord(held'[u])
    BY <1>1, <1>3, <2>1, RecordsKept DEF ControlTypes
  <2> QED BY <1>3, <2>2, RecordsKept DEF RecordsKeepSession, OwnRecord, KeepsRecord
<1>4. ASSUME NEW room \in todo, JanitorCloseMedia(room)
      PROVE  RecordsKeepSession'
  <2>1. Proceed(Janitor, "delete", room) /\ runtime' = runtime /\ todo' \subseteq todo
    BY <1>4 DEF JanitorCloseMedia
  <2>2. pc'[Janitor] = "delete"
    BY <1>1, <2>1 DEF Proceed, ControlTypes
  <2> QED BY <1>3, <2>1, <2>2, RecordsKept
<1>5. CASE DeleteRuntime(Janitor)
  <2>1. /\ Proceed(Janitor, "closeRecord", held[Janitor]) /\ todo' = todo
        /\ runtime' = [runtime EXCEPT ![held[Janitor].id] = Null]
        /\ pc[Janitor] \in HoldsRoom
    BY <1>5 DEF DeleteRuntime, Goto, Proceed, HoldsRoom
  <2>2. pc'[Janitor] = "closeRecord"
    BY <1>1, <2>1 DEF Proceed, ControlTypes
  <2>3. \A r \in RoomIds : runtime'[r] # Null => runtime'[r] = runtime[r]
    BY <1>1, <2>1 DEF DataTypes
  <2> QED BY <1>1, <1>3, <2>1, <2>2, <2>3, RecordsKept
<1>6. CASE CloseRecord(Janitor)
  <2>1. /\ Proceed(Janitor, "closeState", held[Janitor]) /\ todo' \subseteq todo
        /\ runtime' = runtime /\ pc[Janitor] \in HoldsRoom
    BY <1>6 DEF CloseRecord, AbortOnError, HoldsRoom
  <2>2. pc'[Janitor] = "closeState"
    BY <1>1, <2>1 DEF Proceed, ControlTypes
  <2> QED BY <1>1, <1>3, <2>1, <2>2, RecordsKept
<1>7. CASE JanitorCloseState
  <2>1. Proceed(Janitor, "idle", Null) /\ todo' \subseteq todo /\ runtime' = runtime
    BY <1>7 DEF JanitorCloseState, AbortOnError
  <2>2. pc'[Janitor] = "idle"
    BY <1>1, <2>1 DEF Proceed, ControlTypes
  <2> QED BY <1>3, <2>1, <2>2 DEF HoldsRoom
<1> QED BY <1>2, <1>4, <1>5, <1>6, <1>7 DEF JanitorStep

\* What is left of a step: it moves no goroutine that has a room.
Bystander ==
    \/ \E r \in RoomIds, s \in Sessions : CreateSession(r, s)
    \/ MediaStep \/ BeginStop \/ FinishStop \/ Tick \/ UNCHANGED vars
    \/ \E s \in Sessions : ExpireState(s)

\* A bystander changes nothing in the runtime and at the locks.
LEMMA BystanderMoves ==
    ASSUME Bystander
    PROVE  UNCHANGED <<runtime, conns, lock, pc, req, held, todo>>
BY DEF Bystander, CreateSession, MediaStep, PeerChange, TrackStart, RelayEnd, BeginStop,
       FinishStop, Tick, ExpireState, vars, ctl, media

\* A thread that takes up something new, or takes the lock, has no room yet.
LEMMA BeginMoves ==
    ASSUME ServiceInvariant, NEW t \in Threads, Begin(t) \/ LockSession(t)
    PROVE  /\ UNCHANGED <<env, runtime, store, conns, held, todo, faults>>
           /\ pc'[t] \in {"lock", "find"}
           /\ \A u \in Procs \ {t} : pc'[u] = pc[u]
           /\ \A u \in Threads \ {t} : req'[u] = req[u]
<1>1. ControlTypes /\ t \in Procs
  BY DEF ServiceInvariant, TypeOK, Procs
<1>2. CASE Begin(t)
  BY <1>1, <1>2 DEF Begin, Request, ReceiveRequest, ReceiveCallback, media, ControlTypes
<1>3. CASE LockSession(t)
  BY <1>1, <1>3 DEF LockSession, media, ControlTypes
<1> QED BY <1>2, <1>3

\* Every kind of step.
LEMMA StepKinds ==
    ASSUME [Next]_vars
    PROVE  \/ \E t \in Threads : Begin(t) \/ LockSession(t)
           \/ \E t \in Threads : Handle(t)
           \/ JanitorStep
           \/ Restart
           \/ Bystander
BY DEF Next, Lifecycle, Bystander

\* No step mixes rooms and records of two sessions.
LEMMA NextKeepsRecords ==
    ServiceInvariant /\ RecordsKeepSession /\ [Next]_vars => RecordsKeepSession'
<1> SUFFICES ASSUME ServiceInvariant, RecordsKeepSession, [Next]_vars
             PROVE  RecordsKeepSession'
  OBVIOUS
<1>1. RecordsStay
  BY StepRecordsStay
<1>2. ASSUME NEW t \in Threads, Begin(t) \/ LockSession(t)
      PROVE  RecordsKeepSession'
  BY <1>1, <1>2, BeginMoves, RecordsKept
     DEF RecordsKeepSession, OwnRecord, KeepsRecord, HoldsRoom
<1>3. CASE Restart
  BY <1>3 DEF Restart, RecordsKeepSession, HoldsRoom
<1>4. CASE Bystander
  BY <1>1, <1>4, BystanderMoves, RecordsKept DEF RecordsKeepSession, OwnRecord, KeepsRecord
<1> QED BY <1>1, <1>2, <1>3, <1>4, HandleKeepsRecords, JanitorKeepsRecords, StepKinds

\* A room has one id and one session for its life, in the runtime, in the
\* records and in every copy that a handler or the janitor works on: no save
\* under whatever lock, or under none, writes over the room of another session.
THEOREM RecordsTheorem == Spec => []RecordsKeepSession
<1>1. Init => RecordsKeepSession
  BY DEF Init, RecordsKeepSession, HoldsRoom
<1> QED BY <1>1, NextKeepsRecords, ServiceInvariantHolds, PTL DEF Spec

-----------------------------------------------------------------------------
(* Sessions do not disturb each other.                                     *)

\* A handler leaves every session but its own as it is.
LEMMA OtherSessions ==
    ASSUME ServiceInvariant, RecordsKeepSession, NEW t \in Threads, Handle(t),
           NEW s \in Sessions, s # req[t].session
    PROVE  SameSession(s)
<1>1. /\ InSection(t) /\ MovesOnly(t) /\ WritesOnly(t) /\ t \in Procs
  BY HandleMoves, HandleWrites DEF Procs
<1>2. pc[t] \in HoldsRoom =>
         OwnRecord(held[t]) /\ held[t].session = req[t].session
  BY <1>1, Serving DEF RecordsKeepSession
<1>3. \A r \in RuntimeRooms(s) : OwnRecord(runtime[r]) /\ runtime[r].id = r
  BY DEF RecordsKeepSession, RuntimeRooms, ServiceInvariant
<1>4. ASSUME NEW r \in RuntimeRooms(s)
      PROVE  runtime'[r] = runtime[r] /\ records'[r] = records[r]
  <2>1. r \in RoomIds /\ runtime[r].session = s /\ records[r].session = s
    BY <1>3 DEF RuntimeRooms, OwnRecord
  <2>2. pc[t] \in HoldsRoom => r # held[t].id
    BY <1>2, <2>1 DEF OwnRecord
  <2> QED BY <1>1, <2>1, <2>2 DEF WritesOnly, HoldsRoom
<1>5. NextRooms(s) \subseteq RuntimeRooms(s)
  BY <1>1, <1>2 DEF WritesOnly, HoldsRoom, NextRooms, RuntimeRooms
<1>6. RuntimeRooms(s) \subseteq NextRooms(s)
  BY <1>4 DEF NextRooms, RuntimeRooms
<1> QED BY <1>1, <1>4, <1>5, <1>6 DEF SameSession, MovesOnly, WritesOnly

\* Nor does it touch a handler at work on another session.
LEMMA OtherHandlers ==
    ASSUME ServiceInvariant, RecordsKeepSession, NEW t \in Threads, Handle(t),
           NEW u \in Threads, u # t
    PROVE  /\ pc'[u] = pc[u] /\ held'[u] = held[u] /\ req'[u] = req[u]
           /\ InSection(u) => /\ req[u].session \in Sessions
                              /\ req[u].session # req[t].session
                              /\ SameSession(req[u].session)
<1>1. InSection(t) /\ MovesOnly(t)
  BY HandleMoves
<1>2. InSection(u) => req[u].session \in Sessions /\ lock[req[u].session] = u
  BY Serving DEF ServiceInvariant, HandlerOK, InSection
<1>3. lock[req[t].session] = t
  BY <1>1 DEF ServiceInvariant, HandlerOK, InSection
<1> QED BY <1>1, <1>2, <1>3, OtherSessions DEF MovesOnly, Procs

\* The janitor only takes rooms away and writes states of its own.
LEMMA JanitorTakes ==
    ASSUME ServiceInvariant, JanitorStep
    PROVE  /\ \A r \in RoomIds : runtime'[r] # Null => runtime'[r] = runtime[r]
           /\ \A u \in Threads : pc'[u] = pc[u] /\ held'[u] = held[u]
           /\ \A s \in Sessions :
                 \/ states'[s] = states[s]
                 \/ states'[s] # Null /\ states'[s].savedAt = clock
           /\ UNCHANGED <<clock, lock, req>>
           /\ faults' \in {faults, faults + 1}
<1> USE DEF Procs
<1>1. ControlTypes /\ DataTypes /\ Janitor \notin Threads
  BY ConstantsAssumption DEF ServiceInvariant, TypeOK
<1>2. CASE CleanupIdleRooms \/ ShutdownActiveRooms
  BY <1>2 DEF CleanupIdleRooms, ShutdownActiveRooms, env, store
<1>3. ASSUME NEW step, NEW room, Proceed(Janitor, step, room)
      PROVE  /\ \A u \in Threads : pc'[u] = pc[u] /\ held'[u] = held[u]
             /\ UNCHANGED <<lock, req>>
  BY <1>1, <1>3 DEF Proceed, ControlTypes
<1>4. CASE \E room \in todo : JanitorCloseMedia(room)
  BY <1>3, <1>4 DEF JanitorCloseMedia, CallFails, env, store
<1>5. CASE DeleteRuntime(Janitor)
  BY <1>1, <1>3, <1>5 DEF DeleteRuntime, Goto, Proceed, DataTypes, env, store
<1>6. CASE CloseRecord(Janitor)
  BY <1>3, <1>6 DEF CloseRecord, WriteRecord, CallFails, env
<1>7. CASE JanitorCloseState
  <2> DEFINE room == held[Janitor]
             saved == [view |-> Project(room), savedAt |-> clock]
  <2>1. room \in Rooms /\ room.session \in Sessions
    BY <1>7, JanitorHeld DEF JanitorCloseState, Rooms
  <2>2. saved # Null /\ saved.savedAt = clock
    <3>1. saved \in States
      BY <1>1, <2>1 DEF States, Views, Project, Rooms, DataTypes
    <3> HIDE DEF saved
    <3> QED BY <3>1, NullAssumption DEF saved
  <2> HIDE DEF saved, room
  <2>3. states' = states \/ states' = [states EXCEPT ![room.session] = saved]
    BY <1>7 DEF JanitorCloseState, WriteState, saved, room
  <2>4. \A s \in Sessions : states'[s] = states[s] \/ states'[s] = saved
    BY <1>1, <2>1, <2>3 DEF DataTypes
  <2>5. UNCHANGED <<clock, runtime>> /\ faults' \in {faults, faults + 1}
    BY <1>7 DEF JanitorCloseState, WriteState, CallFails, env
  <2>6. Proceed(Janitor, "idle", Null)
    BY <1>7 DEF JanitorCloseState
  <2> QED BY <1>3, <2>2, <2>4, <2>5, <2>6
<1> QED BY <1>2, <1>4, <1>5, <1>6, <1>7 DEF JanitorStep

\* Where a handler is after its step, and with which room.
LEMMA Advance ==
    ASSUME ServiceInvariant, NEW t \in Threads
    PROVE  /\ \A step, room : Goto(t, step, room) \/ Proceed(t, step, room) =>
                 pc'[t] = step /\ held'[t] = room /\ req'[t] = req[t]
           /\ Return(t) => pc'[t] = "idle"
BY DEF Goto, Proceed, Return, ServiceInvariant, TypeOK, ControlTypes, Procs

-----------------------------------------------------------------------------
(* The failure of a critical participant.                                  *)

\* Without failing calls a quiet session has no room in which the connection or
\* the track of a critical participant has failed: it has ended with that
\* failure, which docs/ARCHITECTURE.md:72-73 does not provide for.
CriticalFailureEndsRoom ==
    \A r \in RoomIds :
        runtime[r] # Null /\ Quiet(runtime[r].session) /\ faults = 0 =>
            \A p \in Members(runtime[r]) : IsCritical(p) =>
                "failed" \notin {runtime[r].parts[p].state, runtime[r].parts[p].track}

\* No critical participant of the room has failed.
NoCritical(room) ==
    \A p \in Members(room) : IsCritical(p) =>
        "failed" \notin {room.parts[p].state, room.parts[p].track}

RoomsSound(s) == \A r \in RuntimeRooms(s) : NoCritical(runtime[r])

\* A handler has a sound room, or is about to fail the room it has.
CriticalHandlerOK(t) ==
    /\ pc[t] \in {"find", "accept", "rejectPeer", "saveState"} => RoomsSound(req[t].session)
    /\ pc[t] \in {"accept", "closePeer", "saveState"} => NoCritical(held[t])
    /\ pc[t] \in {"saveRuntime", "saveRecord"} => NoCritical(held[t]) \/ CriticalFailure(t)
    /\ pc[t] = "saveRecord" => RoomsSound(req[t].session) \/ CriticalFailure(t)
    /\ pc[t] \in {"closeRecord", "closeState"} => RuntimeRooms(req[t].session) = {}

\* Without failing calls the room of a quiet session is sound.
CriticalInvariant ==
    faults = 0 =>
        /\ \A s \in Sessions : Quiet(s) => RoomsSound(s)
        /\ \A t \in Threads : CriticalHandlerOK(t)

\* An operation on a sound room leaves it sound, unless it is the failure of a
\* critical participant.
LEMMA SoundOps ==
    ASSUME NEW room \in Rooms, NEW now \in Nat, NEW p \in Participants, NoCritical(room)
    PROVE  /\ NoCritical(SetUserID(room, now))
           /\ \A b : NoCritical(AddParticipant(room, p, NewParticipant(b), now))
           /\ NoCritical(RemoveParticipant(room, p, now))
           /\ \A st : st # "failed" \/ ~IsCritical(p) =>
                 /\ NoCritical(UpdateParticipantState(room, p, st, now))
                 /\ NoCritical(UpdateParticipantTrackState(room, p, st, now))
<1>1. /\ room.parts \in [Participants -> ParticipantStates]
      /\ \A q \in Participants : room.parts[q] \in ParticipantStates
  BY DEF Rooms
<1>3. NoCritical(SetUserID(room, now))
  <2>1. SetUserID(room, now).parts = room.parts
    BY DEF SetUserID, Rooms
  <2> QED BY <2>1 DEF NoCritical, Members
<1>4. ASSUME NEW x
      PROVE  LET other == AddParticipant(room, p, x, now) IN
             /\ other.parts[p] = x
             /\ \A q \in Participants \ {p} : other.parts[q] = room.parts[q]
  BY <1>1 DEF AddParticipant, Rooms
<1>5. ASSUME NEW b PROVE NoCritical(AddParticipant(room, p, NewParticipant(b), now))
  <2> DEFINE other == AddParticipant(room, p, NewParticipant(b), now)
  <2>1. "failed" \notin {NewParticipant(b).state, NewParticipant(b).track}
    BY DEF NewParticipant, NewTrack
  <2>2. /\ other.parts[p] = NewParticipant(b)
        /\ \A q \in Participants \ {p} : other.parts[q] = room.parts[q]
    BY <1>4
  <2> HIDE DEF other
  <2> QED BY <2>1, <2>2 DEF NoCritical, Members, other
<1>6. NoCritical(RemoveParticipant(room, p, now))
  <2> DEFINE other == RemoveParticipant(room, p, now)
  <2>1. /\ other.parts[p] = Absent
        /\ \A q \in Participants \ {p} : other.parts[q] = room.parts[q]
    BY <1>1 DEF RemoveParticipant, Rooms
  <2> HIDE DEF other
  <2> QED BY <2>1 DEF NoCritical, Members, other
<1>7. ASSUME NEW st, st # "failed" \/ ~IsCritical(p)
      PROVE  NoCritical(UpdateParticipantState(room, p, st, now))
  <2> DEFINE other == UpdateParticipantState(room, p, st, now)
             x == [room.parts[p] EXCEPT !.state = st]
  <2>1. x.state = st /\ x.track = room.parts[p].track
    BY <1>1 DEF ParticipantStates
  <2> HIDE DEF x
  <2>2. /\ other.parts[p] = x
        /\ \A q \in Participants \ {p} : other.parts[q] = room.parts[q]
    BY <1>1 DEF UpdateParticipantState, Rooms, x
  <2>3. room.parts[p] = Absent => room.parts[p].track = "none"
    BY DEF Absent
  <2> HIDE DEF other
  <2> QED BY <1>7, <2>1, <2>2, <2>3 DEF NoCritical, Members, other
<1>8. ASSUME NEW st, st # "failed" \/ ~IsCritical(p)
      PROVE  NoCritical(UpdateParticipantTrackState(room, p, st, now))
  <2> DEFINE other == UpdateParticipantTrackState(room, p, st, now)
             x == [room.parts[p] EXCEPT !.track = st]
  <2>1. x.track = st /\ x.state = room.parts[p].state
    BY <1>1 DEF ParticipantStates
  <2> HIDE DEF x
  <2>2. /\ other.parts[p] = x
        /\ \A q \in Participants \ {p} : other.parts[q] = room.parts[q]
    BY <1>1 DEF UpdateParticipantTrackState, Rooms, x
  <2>3. room.parts[p] = Absent => room.parts[p].state = "absent"
    BY DEF Absent
  <2> HIDE DEF other
  <2> QED BY <1>8, <2>1, <2>2, <2>3 DEF NoCritical, Members, other
<1> QED BY <1>3, <1>5, <1>6, <1>7, <1>8

\* A record read back as a room has nobody in it.
LEMMA RuntimeRoomSound ==
    ASSUME NEW r \in RoomIds, NEW now \in Nat
    PROVE  NoCritical(RuntimeRoom(r, now))
<1>1. RuntimeRoom(r, now).parts = [p \in Participants |-> Absent]
  BY DEF RuntimeRoom, NewRoom
<1> QED BY <1>1 DEF NoCritical, Members

\* The rooms of session s are sound after the step.
NextSound(s) == \A r \in NextRooms(s) : NoCritical(runtime'[r])

\* The lookups of the callbacks and requests: what they go on with is sound or
\* about to be failed.
LEMMA CriticalFinds ==
    ASSUME ServiceInvariant, NEW t \in Threads, pc[t] = "find", Handle(t),
           RoomsSound(req[t].session)
    PROVE  /\ pc'[t] \in {"idle", "findRecord", "accept", "closePeer", "saveRuntime",
                          "closeMedia"}
           /\ pc'[t] \in {"accept", "closePeer"} => NoCritical(held'[t])
           /\ pc'[t] = "saveRuntime" => NoCritical(held'[t]) \/ CriticalFailure(t)
<1>1. InSection(t)
  BY DEF InSection
<1>2. /\ req[t] \in Served /\ req[t].session \in Sessions /\ req[t].now \in Nat
      /\ \A r \in RuntimeRooms(req[t].session) :
            runtime[r] \in Rooms /\ NoCritical(runtime[r])
  BY <1>1, Serving, FoundRoom DEF RoomsSound
<1>3. CASE JoinFind(t)
  <2>1. req[t].part \in Participants
    BY <1>2, <1>3, ServedType DEF JoinFind
  <2>2. \A r \in RuntimeRooms(req[t].session) :
           NoCritical(SetUserID(runtime[r], req[t].now))
    BY <1>2, <2>1, SoundOps
  <2> QED BY <1>3, <2>2, Advance DEF JoinFind, JoinFound
<1>4. CASE EndFind(t)
  BY <1>4, Advance DEF EndFind
<1>5. CASE LeaveFind(t)
  <2>1. req[t].part \in Participants
    BY <1>2, <1>5, ServedType DEF LeaveFind
  <2>2. \A r \in RuntimeRooms(req[t].session) :
           NoCritical(RemoveParticipant(runtime[r], req[t].part, req[t].now))
    BY <1>2, <2>1, SoundOps
  <2> QED BY <1>5, <2>2, Advance DEF LeaveFind
<1>6. CASE ConnectionFind(t)
  <2>1. req[t].part \in Participants
    BY <1>2, <1>6, ServedType DEF ConnectionFind
  <2>2. CriticalFailure(t) \/ req[t].state # "failed" \/ ~IsCritical(req[t].part)
    BY <1>6 DEF ConnectionFind, CriticalFailure
  <2>3. \A r \in RuntimeRooms(req[t].session) :
           \/ CriticalFailure(t)
           \/ NoCritical(UpdateParticipantState(runtime[r], req[t].part, req[t].state, req[t].now))
    BY <1>2, <2>1, <2>2, SoundOps
  <2> QED BY <1>6, <2>3, Advance DEF ConnectionFind
<1>7. CASE TrackFind(t)
  <2>1. req[t].part \in Participants
    BY <1>2, <1>7, ServedType DEF TrackFind
  <2>2. CriticalFailure(t) \/ req[t].state # "failed" \/ ~IsCritical(req[t].part)
    BY <1>7 DEF TrackFind, CriticalFailure
  <2>3. \A r \in RuntimeRooms(req[t].session) :
           \/ CriticalFailure(t)
           \/ NoCritical(UpdateParticipantTrackState(runtime[r], req[t].part, req[t].state, req[t].now))
    BY <1>2, <2>1, <2>2, SoundOps
  <2> QED BY <1>7, <2>3, Advance DEF TrackFind
<1> QED BY <1>3, <1>4, <1>5, <1>6, <1>7
        DEF Handle, FindRecord, AcceptParticipant, RejectPeer, ClosePeer, SaveRuntime,
            SaveRecord, SaveState, CloseMedia, DeleteRuntime, CloseRecord, CloseState

\* Whatever a handler does without failing calls, its next step finds what it
\* relies on, and a handler that returns leaves a sound room.
LEMMA CriticalHandle ==
    ASSUME ServiceInvariant, NEW t \in Threads, Handle(t), CriticalHandlerOK(t),
           faults' = faults
    PROVE  IF pc'[t] = "idle" THEN NextSound(req[t].session)
           ELSE /\ pc'[t] \in {"find", "accept", "rejectPeer", "saveState"} =>
                      NextSound(req[t].session)
                /\ pc'[t] \in {"accept", "closePeer", "saveState"} => NoCritical(held'[t])
                /\ pc'[t] \in {"saveRuntime", "saveRecord"} =>
                      NoCritical(held'[t]) \/ CriticalFailure(t)
                /\ pc'[t] = "saveRecord" =>
                      NextSound(req[t].session) \/ CriticalFailure(t)
                /\ pc'[t] \in {"closeRecord", "closeState"} =>
                      NextRooms(req[t].session) = {}
<1>1. /\ InSection(t) /\ DataTypes /\ req[t] \in Served
      /\ req[t].session \in Sessions /\ req[t].now \in Nat
  BY HandleGoesOn, Serving DEF ServiceInvariant, TypeOK
<1>2. pc[t] \in HoldsRoom =>
         /\ held[t] \in Rooms /\ held[t].id \in RoomIds
         /\ RuntimeRooms(req[t].session) \subseteq {held[t].id}
  BY <1>1, Serving
<1>3. ~CallFails
  BY <1>1 DEF CallFails, DataTypes
<1>4. ASSUME runtime' = runtime
      PROVE  /\ NextRooms(req[t].session) = RuntimeRooms(req[t].session)
             /\ RoomsSound(req[t].session) => NextSound(req[t].session)
  BY <1>4 DEF NextRooms, RuntimeRooms, RoomsSound, NextSound
<1>5. RuntimeRooms(req[t].session) = {} => RoomsSound(req[t].session)
  BY DEF RoomsSound
<1>6. CASE pc[t] = "find"
  <2>1. runtime' = runtime
    BY <1>6 DEF Handle, JoinFind, EndFind, LeaveFind, ConnectionFind, TrackFind,
       FindRecord, AcceptParticipant, RejectPeer, ClosePeer, SaveRuntime,
       SaveRecord, SaveState, CloseMedia, DeleteRuntime, CloseRecord, CloseState
  <2> QED BY <1>4, <1>6, <2>1, CriticalFinds DEF CriticalHandlerOK
<1>7. CASE FindRecord(t)
  <2>1. RuntimeRooms(req[t].session) = {} /\ runtime' = runtime
    BY <1>7 DEF FindRecord, ServiceInvariant, HandlerOK
  <2>2. \A r \in RecordIds(req[t].session) :
           req[t].kind = "join" =>
              NoCritical(SetUserID(RuntimeRoom(r, req[t].now), req[t].now))
    <3> SUFFICES ASSUME NEW r \in RecordIds(req[t].session), req[t].kind = "join"
                 PROVE  NoCritical(SetUserID(RuntimeRoom(r, req[t].now), req[t].now))
      OBVIOUS
    <3> DEFINE room == RuntimeRoom(r, req[t].now)
    <3>1. room \in Rooms /\ NoCritical(room) /\ req[t].part \in Participants
      BY <1>1, RuntimeRoomType, RuntimeRoomSound, ServedType DEF RecordIds
    <3> HIDE DEF room
    <3> QED BY <1>1, <3>1, SoundOps DEF room
  <2> QED BY <1>3, <1>4, <1>5, <1>7, <2>1, <2>2, Advance DEF FindRecord, JoinFound
<1>8. CASE AcceptParticipant(t)
  <2>1. /\ pc[t] = "accept" /\ RoomsSound(req[t].session) /\ runtime' = runtime
        /\ NoCritical(held[t]) /\ held[t] \in Rooms
    BY <1>2, <1>8 DEF AcceptParticipant, CriticalHandlerOK, HoldsRoom
  <2>2. req[t].part \in Participants
    BY <1>1, <2>1, ServedType DEF ServiceInvariant, HandlerOK
  <2>3. NoCritical(AddParticipant(held[t], req[t].part,
                       NewParticipant(req[t].publish), req[t].now))
    BY <1>1, <2>1, <2>2, SoundOps
  <2> QED BY <1>4, <1>8, <2>1, <2>3, Advance DEF AcceptParticipant
<1>9. CASE RejectPeer(t) \/ ClosePeer(t)
  BY <1>3, <1>4, <1>9, Advance DEF RejectPeer, ClosePeer, CriticalHandlerOK
<1>10. CASE SaveRuntime(t)
  <2>1. /\ pc'[t] = "saveRecord" /\ held'[t] = held[t] /\ pc[t] = "saveRuntime"
        /\ runtime' = [runtime EXCEPT ![held[t].id] = held[t]]
    BY <1>10, Advance DEF SaveRuntime
  <2>2. \A r \in NextRooms(req[t].session) : runtime'[r] = held[t]
    BY <1>1, <1>2, <2>1 DEF NextRooms, RuntimeRooms, HoldsRoom, DataTypes
  <2> QED BY <2>1, <2>2 DEF CriticalHandlerOK, NextSound
<1>11. CASE SaveRecord(t) \/ SaveState(t)
  BY <1>3, <1>4, <1>11, Advance
     DEF SaveRecord, SaveState, WriteRecord, WriteState, CriticalHandlerOK
<1>12. CASE CloseMedia(t)
  BY <1>12, Advance DEF CloseMedia
<1>13. CASE DeleteRuntime(t)
  <2>1. /\ pc'[t] = "closeRecord" /\ pc[t] = "delete"
        /\ runtime' = [runtime EXCEPT ![held[t].id] = Null]
    BY <1>13, Advance DEF DeleteRuntime
  <2>2. NextRooms(req[t].session) = {}
    BY <1>1, <1>2, <2>1 DEF NextRooms, RuntimeRooms, HoldsRoom, DataTypes
  <2> QED BY <2>1, <2>2
<1>14. CASE CloseRecord(t) \/ CloseState(t)
  BY <1>4, <1>5, <1>14, Advance DEF CloseRecord, CloseState, CriticalHandlerOK
<1> QED BY <1>6, <1>7, <1>8, <1>9, <1>10, <1>11, <1>12, <1>13, <1>14
        DEF Handle, JoinFind, EndFind, LeaveFind, ConnectionFind, TrackFind

\* A step that only takes rooms away leaves a sound session sound.
LEMMA SoundLess ==
    ASSUME NEW s \in Sessions, RoomsSound(s),
           \A r \in RoomIds : runtime'[r] # Null => runtime'[r] = runtime[r]
    PROVE  NextSound(s)
BY DEF RoomsSound, NextSound, RuntimeRooms, NextRooms

\* A handler without a part in such a step still has what it relies on.
LEMMA CriticalUndisturbed ==
    ASSUME NEW u \in Threads, CriticalHandlerOK(u), InSection(u) => req[u].session \in Sessions,
           pc'[u] = pc[u], held'[u] = held[u], InSection(u) => req'[u] = req[u],
           InSection(u) => \A r \in NextRooms(req[u].session) :
              r \in RuntimeRooms(req[u].session) /\ runtime'[r] = runtime[r]
    PROVE  CriticalHandlerOK(u)'
<1>1. CASE InSection(u)
  BY <1>1 DEF CriticalHandlerOK, CriticalFailure, RoomsSound, NextRooms, RuntimeRooms,
              NoCritical, Members
<1>2. CASE ~InSection(u)
  BY <1>2 DEF CriticalHandlerOK, InSection
<1> QED BY <1>1, <1>2

\* No step loses track of a failed critical participant.
LEMMA NextCritical ==
    ServiceInvariant /\ RecordsKeepSession /\ CriticalInvariant /\ [Next]_vars
        => CriticalInvariant'
<1> SUFFICES ASSUME ServiceInvariant, RecordsKeepSession, CriticalInvariant,
                    [Next]_vars, faults' = 0
             PROVE  /\ \A s \in Sessions : lock'[s] = Null => NextSound(s)
                    /\ \A u \in Threads : CriticalHandlerOK(u)'
  BY DEF CriticalInvariant, Quiet, RoomsSound, NextSound, RuntimeRooms, NextRooms
<1>1. DataTypes /\ ControlTypes
  BY DEF ServiceInvariant, TypeOK
<1>2. \A u \in Threads : InSection(u) => req[u].session \in Sessions
  BY Serving
<1>3. ASSUME faults = 0
      PROVE  /\ \A s \in Sessions : lock[s] = Null => RoomsSound(s)
             /\ \A u \in Threads : CriticalHandlerOK(u)
  BY <1>3 DEF CriticalInvariant, Quiet
<1>4. ASSUME NEW t \in Threads, Handle(t)
      PROVE  /\ \A s \in Sessions : lock'[s] = Null => NextSound(s)
             /\ \A u \in Threads : CriticalHandlerOK(u)'
  <2>1. InSection(t) /\ MovesOnly(t) /\ WritesOnly(t) /\ req[t].session \in Sessions
    BY <1>2, <1>4, HandleMoves, HandleWrites
  <2>2. faults = 0 /\ faults' = faults
    BY <1>1, <2>1 DEF WritesOnly, DataTypes
  <2>3. CriticalHandlerOK(t)
    BY <1>3, <2>2
  <2>4. ASSUME NEW s \in Sessions, s # req[t].session, lock'[s] = Null
        PROVE  NextSound(s)
    <3>1. SameSession(s)
      BY <1>4, <2>4, OtherSessions
    <3> QED BY <1>3, <2>2, <2>4, <3>1 DEF SameSession, NextSound, RoomsSound
  <2>5. ASSUME NEW u \in Threads, u # t
        PROVE  CriticalHandlerOK(u)'
    <3>1. /\ pc'[u] = pc[u] /\ held'[u] = held[u] /\ req'[u] = req[u]
          /\ InSection(u) => SameSession(req[u].session)
      BY <1>4, <2>5, OtherHandlers
    <3>2. CriticalHandlerOK(u)
      BY <1>3, <2>2
    <3> QED BY <1>2, <3>1, <3>2, CriticalUndisturbed DEF SameSession
  <2>6. CASE Return(t)
    <3>1. pc'[t] = "idle"
      BY <2>6, Advance
    <3>2. NextSound(req[t].session)
      BY <1>4, <2>2, <2>3, <3>1, CriticalHandle
    <3>3. CriticalHandlerOK(t)'
      BY <3>1 DEF CriticalHandlerOK
    <3> QED BY <2>4, <2>5, <3>2, <3>3
  <2>7. ASSUME NEW step \in Steps \ {"lock"}, pc'[t] = step, req'[t] = req[t],
               lock'[req[t].session] = t
        PROVE  /\ \A s \in Sessions : lock'[s] = Null => NextSound(s)
               /\ CriticalHandlerOK(t)'
    <3>1. pc'[t] # "idle"
      BY <2>7 DEF Steps
    <3>2. CriticalHandlerOK(t)'
      BY <1>4, <2>2, <2>3, <2>7, <3>1, CriticalHandle
         DEF CriticalHandlerOK, CriticalFailure, NextSound, RoomsSound, NextRooms,
             RuntimeRooms
    <3>3. t # Null
      BY NullAssumption
    <3> QED BY <2>4, <2>7, <3>2, <3>3
  <2> QED BY <1>4, <2>5, <2>6, <2>7, HandleMoves
<1>5. CASE JanitorStep
  <2>1. faults = 0
    BY <1>1, <1>5, JanitorTakes DEF DataTypes
  <2>2. /\ \A r \in RoomIds : runtime'[r] # Null => runtime'[r] = runtime[r]
        /\ \A u \in Threads : pc'[u] = pc[u] /\ held'[u] = held[u]
        /\ UNCHANGED <<lock, req>>
    BY <1>5, JanitorTakes
  <2>3. \A s \in Sessions : lock'[s] = Null => NextSound(s)
    BY <1>3, <2>1, <2>2, SoundLess
  <2>4. \A s \in Sessions : \A r \in NextRooms(s) :
           r \in RuntimeRooms(s) /\ runtime'[r] = runtime[r]
    BY <2>2 DEF NextRooms, RuntimeRooms
  <2>5. \A u \in Threads : CriticalHandlerOK(u)'
    BY <1>2, <1>3, <2>1, <2>2, <2>4, CriticalUndisturbed
  <2> QED BY <2>3, <2>5
<1>6. CASE Restart
  <2>1. \A r \in RoomIds : runtime'[r] = Null
    BY <1>6 DEF Restart
  <2>2. \A u \in Threads : pc'[u] = "idle"
    BY <1>6 DEF Restart, Procs
  <2> QED BY <2>1, <2>2 DEF NextSound, NextRooms, CriticalHandlerOK
<1>7. ASSUME NEW t \in Threads, Begin(t) \/ LockSession(t)
      PROVE  /\ \A s \in Sessions : lock'[s] = Null => NextSound(s)
             /\ \A u \in Threads : CriticalHandlerOK(u)'
  <2>1. /\ UNCHANGED <<runtime, held, faults>> /\ pc'[t] \in {"lock", "find"}
        /\ \A u \in Procs \ {t} : pc'[u] = pc[u]
        /\ \A u \in Threads \ {t} : req'[u] = req[u]
    BY <1>7, BeginMoves
  <2>2. \A s \in Sessions : NextRooms(s) = RuntimeRooms(s)
    BY <2>1 DEF NextRooms, RuntimeRooms
  <2>3. \A s \in Sessions : lock'[s] = Null => lock[s] = Null
    BY <1>1, <1>7, NullAssumption DEF Begin, Request, ReceiveRequest, ReceiveCallback,
       LockSession, ControlTypes
  <2>4. \A s \in Sessions : lock'[s] = Null => NextSound(s)
    BY <1>3, <2>1, <2>2, <2>3 DEF NextSound, RoomsSound
  <2>5. ASSUME NEW u \in Threads, u # t PROVE CriticalHandlerOK(u)'
    BY <1>2, <1>3, <2>1, <2>2, <2>5, CriticalUndisturbed DEF Procs
  <2>6. CriticalHandlerOK(t)'
    <3>1. CASE pc'[t] = "lock"
      BY <3>1 DEF CriticalHandlerOK
    <3>2. CASE pc'[t] = "find"
      <4>1. LockSession(t)
        BY <1>1, <1>7, <3>2 DEF Begin, Request, ReceiveRequest, ReceiveCallback,
           ControlTypes, Procs
      <4>2. pc[t] = "lock" /\ lock[req[t].session] = Null /\ req' = req
        BY <4>1 DEF LockSession
      <4>3. req[t].session \in Sessions
        BY <4>2, ServedType DEF ServiceInvariant, HandlerOK, TypeOK, ControlTypes
      <4>4. RoomsSound(req[t].session)
        BY <1>3, <2>1, <4>2, <4>3
      <4> QED BY <2>1, <3>2, <4>2, <4>4 DEF CriticalHandlerOK, RoomsSound, RuntimeRooms
    <3> QED BY <2>1, <3>1, <3>2
  <2> QED BY <2>4, <2>5, <2>6
<1>8. CASE Bystander
  <2>1. UNCHANGED <<runtime, lock, pc, req, held>>
    BY <1>8, BystanderMoves
  <2>2. faults = 0
    BY <1>1, <1>8 DEF Bystander, CreateSession, WriteRecord, CallFails, MediaStep,
       PeerChange, TrackStart, RelayEnd, BeginStop, FinishStop, Tick, ExpireState, vars,
       DataTypes
  <2>3. \A s \in Sessions : NextRooms(s) = RuntimeRooms(s)
    BY <2>1 DEF NextRooms, RuntimeRooms
  <2>4. \A s \in Sessions : lock'[s] = Null => NextSound(s)
    BY <1>3, <2>1, <2>2, <2>3 DEF NextSound, RoomsSound
  <2>5. \A u \in Threads : CriticalHandlerOK(u)'
    BY <1>2, <1>3, <2>1, <2>2, <2>3, CriticalUndisturbed
  <2> QED BY <2>4, <2>5
<1> QED BY <1>4, <1>5, <1>6, <1>7, <1>8, StepKinds

\* That is what the code does under every schedule of requests, callbacks,
\* cleanups, crashes and stops.
THEOREM CriticalTheorem == Spec => []CriticalFailureEndsRoom
<1>1. Init => CriticalInvariant
  BY NullAssumption DEF Init, CriticalInvariant, RoomsSound, RuntimeRooms,
     CriticalHandlerOK, Procs
<1>2. ServiceInvariant /\ CriticalInvariant => CriticalFailureEndsRoom
  BY DEF ServiceInvariant, TypeOK, DataTypes, Rooms, CriticalInvariant, RoomsSound,
     RuntimeRooms, NoCritical, CriticalFailureEndsRoom
<1> QED BY <1>1, <1>2, NextCritical, RecordsTheorem, ServiceInvariantHolds, PTL DEF Spec

-----------------------------------------------------------------------------
(* The life of a live state entry.                                         *)

\* A room of the session was written to its live state no earlier than it was
\* last touched, or was not touched for the timeout.
Reflected(s) ==
    \A r \in RuntimeRooms(s) :
        \/ states[s] # Null /\ states[s].savedAt >= runtime[r].updatedAt
        \/ clock - runtime[r].updatedAt >= IdleTimeout

\* Nothing is from the future.
NothingFromTheFuture ==
    /\ \A t \in Threads : pc[t] # "idle" => req[t].now <= clock
    /\ \A r \in RoomIds : runtime[r] # Null => runtime[r].updatedAt <= clock
    /\ \A t \in Threads : pc[t] \in HoldsRoom => held[t].updatedAt <= clock

\* Without failing calls a quiet session is reflected, and so is one whose
\* handler may return without a save.
FreshInvariant ==
    /\ NothingFromTheFuture
    /\ faults = 0 =>
        /\ \A s \in Sessions : Quiet(s) => Reflected(s)
        /\ \A t \in Threads :
              pc[t] \in {"find", "accept", "rejectPeer"} => Reflected(req[t].session)

\* Every operation on a room dates it with the time of the request.
LEMMA DatedOps ==
    ASSUME NEW room \in Rooms, NEW now
    PROVE  /\ SetUserID(room, now).updatedAt = now
           /\ Close(room, now).updatedAt = now /\ Fail(room, now).updatedAt = now
           /\ \A p : RemoveParticipant(room, p, now).updatedAt = now
           /\ \A p, x : AddParticipant(room, p, x, now).updatedAt = now
           /\ \A p, x : UpdateParticipantState(room, p, x, now).updatedAt = now
           /\ \A p, x : UpdateParticipantTrackState(room, p, x, now).updatedAt = now
<1>1. \A p, x : UpdateParticipantState(room, p, x, now).updatedAt = now
  BY DEF UpdateParticipantState, Rooms
<1>2. \A p, x : UpdateParticipantTrackState(room, p, x, now).updatedAt = now
  BY DEF UpdateParticipantTrackState, Rooms
<1>3. \A p, x : AddParticipant(room, p, x, now).updatedAt = now
  BY DEF AddParticipant, Rooms
<1>4. \A p : RemoveParticipant(room, p, now).updatedAt = now
  BY DEF RemoveParticipant, Rooms
<1>5. Close(room, now).updatedAt = now /\ Fail(room, now).updatedAt = now
  BY DEF Close, Fail, Rooms
<1> QED BY <1>1, <1>2, <1>3, <1>4, <1>5 DEF SetUserID, Rooms

\* So the room a handler goes on with is dated with its request, or as before.
LEMMA HandleDates ==
    ASSUME ServiceInvariant, NEW t \in Threads, Handle(t), pc'[t] \in HoldsRoom
    PROVE  \/ held'[t].updatedAt = req[t].now
           \/ pc[t] \in HoldsRoom /\ held'[t].updatedAt = held[t].updatedAt
<1>1. /\ InSection(t) /\ DataTypes /\ req[t].session \in Sessions /\ req[t].now \in Nat
  BY HandleGoesOn, Serving DEF ServiceInvariant, TypeOK
<1>2. pc[t] \in HoldsRoom => held[t] \in Rooms
  BY <1>1, Serving
<1>3. \A r \in RuntimeRooms(req[t].session) : runtime[r] \in Rooms
  BY <1>1, FoundRoom
<1>4. \A r \in RecordIds(req[t].session) : RuntimeRoom(r, req[t].now) \in Rooms
  BY <1>1, RuntimeRoomType DEF RecordIds
<1>5. ASSUME NEW room \in Rooms,
             \/ held'[t] = SetUserID(room, req[t].now)
             \/ held'[t] = Close(room, req[t].now)
             \/ held'[t] = Fail(room, req[t].now)
             \/ \E p : held'[t] = RemoveParticipant(room, p, req[t].now)
             \/ \E p, x : held'[t] = AddParticipant(room, p, x, req[t].now)
             \/ \E p, x : held'[t] = UpdateParticipantState(room, p, x, req[t].now)
             \/ \E p, x : held'[t] = UpdateParticipantTrackState(room, p, x, req[t].now)
      PROVE  held'[t].updatedAt = req[t].now
  BY <1>5, DatedOps
<1>6. CASE JoinFind(t) \/ EndFind(t) \/ LeaveFind(t) \/ ConnectionFind(t) \/ TrackFind(t)
  BY <1>3, <1>5, <1>6, Advance DEF JoinFind, JoinFound, EndFind, LeaveFind, ConnectionFind,
     TrackFind, HoldsRoom
<1>7. CASE FindRecord(t)
  BY <1>4, <1>5, <1>7, Advance DEF FindRecord, JoinFound, HoldsRoom
<1>8. CASE AcceptParticipant(t) \/ RejectPeer(t) \/ ClosePeer(t)
  BY <1>2, <1>5, <1>8, Advance DEF AcceptParticipant, RejectPeer, ClosePeer, HoldsRoom
<1>9. CASE SaveRecord(t) \/ SaveState(t)
  <2>1. pc[t] \in HoldsRoom /\ held[t] \in Rooms
    BY <1>2, <1>9 DEF SaveRecord, SaveState, HoldsRoom
  <2>2. held'[t] = Fail(held[t], req[t].now) \/ held'[t] = held[t] \/ pc'[t] = "idle"
    BY <1>9, Advance DEF SaveRecord, SaveState, PersistFailed
  <2> QED BY <1>5, <2>1, <2>2 DEF HoldsRoom
<1>10. CASE \/ SaveRuntime(t) \/ CloseMedia(t) \/ DeleteRuntime(t)
            \/ CloseRecord(t) \/ CloseState(t)
  BY <1>10, Advance DEF SaveRuntime, CloseMedia, DeleteRuntime, CloseRecord, CloseState,
     HoldsRoom
<1> QED BY <1>6, <1>7, <1>8, <1>9, <1>10 DEF Handle

\* A save that does not fail puts an entry that begins to live now.
LEMMA SavedNow ==
    ASSUME DataTypes, NEW room \in Rooms, WriteState(room, TRUE)
    PROVE  states'[room.session] # Null /\ states'[room.session].savedAt = clock
<1> DEFINE saved == [view |-> Project(room), savedAt |-> clock]
<1>1. saved \in States /\ room.session \in Sessions
  BY DEF States, Views, Project, Rooms, DataTypes
<1>2. saved.savedAt = clock /\ states' = [states EXCEPT ![room.session] = saved]
  BY DEF WriteState
<1> HIDE DEF saved
<1> QED BY <1>1, <1>2, NullAssumption DEF DataTypes

\* The session is reflected after a step that does not move the clock.
NextReflected(s) ==
    \A r \in NextRooms(s) :
        \/ states'[s] # Null /\ states'[s].savedAt >= runtime'[r].updatedAt
        \/ clock - runtime'[r].updatedAt >= IdleTimeout

\* A handler that returns without failing calls leaves its session reflected,
\* and before a step in which it may return without a save it is reflected.
LEMMA FreshHandle ==
    ASSUME ServiceInvariant, NothingFromTheFuture, NEW t \in Threads, Handle(t),
           pc[t] \in {"find", "accept", "rejectPeer"} => Reflected(req[t].session),
           faults' = faults, pc'[t] \in {"idle", "find", "accept", "rejectPeer"}
    PROVE  NextReflected(req[t].session)
<1>1. /\ InSection(t) /\ DataTypes /\ req[t].session \in Sessions
  BY HandleGoesOn, Serving DEF ServiceInvariant, TypeOK
<1>2. pc[t] \in HoldsRoom =>
         held[t] \in Rooms /\ held[t].session = req[t].session
  BY <1>1, Serving
<1>3. ~CallFails
  BY <1>1 DEF CallFails, DataTypes
<1>4. ASSUME runtime' = runtime, states' = states
      PROVE  Reflected(req[t].session) => NextReflected(req[t].session)
  BY <1>4 DEF NextRooms, RuntimeRooms, Reflected, NextReflected
<1>5. RuntimeRooms(req[t].session) = {} => Reflected(req[t].session)
  BY DEF Reflected
<1>6. ASSUME runtime' = runtime, WriteState(held[t], TRUE), pc[t] \in HoldsRoom
      PROVE  NextReflected(req[t].session)
  <2>1. states'[req[t].session] # Null /\ states'[req[t].session].savedAt = clock
    BY <1>1, <1>2, <1>6, SavedNow
  <2>2. \A r \in NextRooms(req[t].session) : runtime'[r].updatedAt <= clock
    BY <1>6 DEF NextRooms, NothingFromTheFuture
  <2> QED BY <2>1, <2>2 DEF NextReflected
<1>7. CASE JoinFind(t) \/ EndFind(t) \/ LeaveFind(t) \/ ConnectionFind(t) \/ TrackFind(t)
  BY <1>4, <1>7 DEF JoinFind, EndFind, LeaveFind, ConnectionFind, TrackFind, store
<1>8. CASE FindRecord(t)
  BY <1>4, <1>5, <1>8 DEF FindRecord, store, ServiceInvariant, HandlerOK
<1>9. CASE AcceptParticipant(t) \/ RejectPeer(t)
  BY <1>4, <1>9 DEF AcceptParticipant, RejectPeer, store
<1>10. CASE ClosePeer(t) \/ SaveRuntime(t) \/ SaveRecord(t) \/ CloseMedia(t)
            \/ DeleteRuntime(t) \/ CloseRecord(t)
  BY <1>3, <1>10, Advance DEF ClosePeer, SaveRuntime, SaveRecord, WriteRecord, CloseMedia,
     DeleteRuntime, CloseRecord
<1>11. CASE SaveState(t) \/ CloseState(t)
  BY <1>3, <1>6, <1>11, Advance DEF SaveState, CloseState, WriteState, HoldsRoom
<1> QED BY <1>7, <1>8, <1>9, <1>10, <1>11 DEF Handle

\* Time, requests and rooms stay in order.
LEMMA NextNothingFromTheFuture ==
    ASSUME ServiceInvariant, NothingFromTheFuture, [Next]_vars
    PROVE  NothingFromTheFuture'
<1>1. /\ DataTypes /\ ControlTypes /\ clock \in Nat
      /\ \A t \in Threads : pc[t] # "idle" => req[t] # Null /\ req[t].now \in Nat
      /\ \A t \in Threads : pc[t] \in HoldsRoom => held[t] \in Rooms
  <2>1. DataTypes /\ ControlTypes /\ clock \in Nat
    BY DEF ServiceInvariant, TypeOK, DataTypes
  <2>2. ASSUME NEW t \in Threads, pc[t] # "idle"
        PROVE  req[t] # Null /\ req[t].now \in Nat
    <3>1. req[t] # Null
      BY <2>2 DEF ServiceInvariant, HandlerOK
    <3> QED BY <2>1, <3>1, ServedType DEF ControlTypes
  <2>3. ASSUME NEW t \in Threads, pc[t] \in HoldsRoom
        PROVE  held[t] \in Rooms
    BY <2>3, Serving DEF InSection, HoldsRoom
  <2> QED BY <2>1, <2>2, <2>3
<1>2. ASSUME NEW t \in Threads, Handle(t)
      PROVE  NothingFromTheFuture'
  <2>1. /\ MovesOnly(t) /\ WritesOnly(t) /\ InSection(t) /\ clock' = clock
    BY <1>2, HandleMoves, HandleWrites DEF WritesOnly, env
  <2>2. \A r \in RoomIds : runtime'[r] # Null => runtime'[r].updatedAt <= clock
    BY <2>1 DEF WritesOnly, NothingFromTheFuture, HoldsRoom
  <2>3. \A u \in Threads \ {t} : /\ pc'[u] # "idle" => req'[u].now <= clock
                                 /\ pc'[u] \in HoldsRoom => held'[u].updatedAt <= clock
    BY <2>1 DEF MovesOnly, NothingFromTheFuture, Procs
  <2>4. pc'[t] # "idle" => req'[t].now <= clock
    BY <1>2, <2>1, HandleMoves, Advance DEF NothingFromTheFuture, InSection
  <2>5. pc'[t] \in HoldsRoom => held'[t].updatedAt <= clock
    BY <1>2, <2>1, HandleDates DEF NothingFromTheFuture, InSection
  <2> QED BY <2>1, <2>2, <2>3, <2>4, <2>5 DEF NothingFromTheFuture
<1>3. CASE JanitorStep
  BY <1>3, JanitorTakes DEF NothingFromTheFuture
<1>4. CASE Restart
  BY <1>4 DEF Restart, NothingFromTheFuture, HoldsRoom, Procs
<1>5. ASSUME NEW t \in Threads, Begin(t) \/ LockSession(t)
      PROVE  NothingFromTheFuture'
  <2>1. /\ UNCHANGED <<env, runtime, held>> /\ pc'[t] \in {"lock", "find"}
        /\ \A u \in Threads \ {t} : pc'[u] = pc[u] /\ req'[u] = req[u]
    BY <1>5, BeginMoves DEF Procs
  <2>2. CASE Begin(t)
    <3>1. req'[t].now = clock
      <4>1. CASE Request(t)
        BY <1>1, <4>1 DEF Request, ReceiveRequest, ControlTypes
      <4>2. ASSUME NEW c \in callbacks, ReceiveCallback(t, c)
            PROVE  req'[t].now = clock
        BY <1>1, <4>2 DEF ReceiveCallback, ControlTypes
      <4> QED BY <2>2, <4>1, <4>2 DEF Begin
    <3> QED BY <1>1, <2>1, <3>1 DEF NothingFromTheFuture, env, HoldsRoom
  <2>3. CASE LockSession(t)
    <3>1. req' = req /\ pc[t] = "lock"
      BY <2>3 DEF LockSession
    <3> QED BY <2>1, <3>1 DEF NothingFromTheFuture, env, HoldsRoom
  <2> QED BY <1>5, <2>2, <2>3
<1>6. CASE Bystander
  <2>1. UNCHANGED <<runtime, pc, req, held>> /\ clock' \in {clock, clock + 1}
    BY <1>6, BystanderMoves DEF Bystander, CreateSession, MediaStep, PeerChange,
       TrackStart, RelayEnd, BeginStop, FinishStop, Tick, ExpireState, vars, env
  <2>2. \A r \in RoomIds : runtime[r] # Null => runtime[r].updatedAt \in Nat
    BY <1>1 DEF DataTypes, Rooms
  <2>3. \A t \in Threads : pc[t] \in HoldsRoom => held[t].updatedAt \in Nat
    BY <1>1 DEF Rooms
  <2> QED BY <1>1, <2>1, <2>2, <2>3 DEF NothingFromTheFuture
<1> QED BY <1>2, <1>3, <1>4, <1>5, <1>6, StepKinds

\* An entry that expires, and a clock that goes on, leave a session reflected:
\* a room whose entry is over was not touched for as long.
LEMMA BystanderReflected ==
    ASSUME ServiceInvariant, NEW s \in Sessions, Reflected(s), Bystander
    PROVE  Reflected(s)'
<1>1. DataTypes /\ runtime' = runtime /\ clock \in Nat
  BY BystanderMoves DEF ServiceInvariant, TypeOK, DataTypes
<1>2. \A r \in RuntimeRooms(s) : runtime[r].updatedAt \in Nat
  BY <1>1 DEF DataTypes, RuntimeRooms, Rooms
<1>3. states[s] # Null => states[s].savedAt \in Nat
  BY <1>1 DEF DataTypes, States
<1>4. /\ clock' \in {clock, clock + 1}
      /\ \/ states'[s] = states[s]
         \/ clock - states[s].savedAt >= IdleTimeout /\ clock' = clock /\ states[s] # Null
  BY <1>1 DEF Bystander, CreateSession, MediaStep, PeerChange, TrackStart, RelayEnd,
     BeginStop, FinishStop, Tick, ExpireState, vars, env, store, DataTypes
<1>5. \A r \in RuntimeRooms(s) :
         \/ states'[s] # Null /\ states'[s].savedAt >= runtime[r].updatedAt
         \/ clock' - runtime[r].updatedAt >= IdleTimeout
  BY <1>1, <1>2, <1>3, <1>4, ConstantsAssumption DEF Reflected
<1> QED BY <1>1, <1>5 DEF Reflected, RuntimeRooms

\* Nor does a cleanup of whatever room.
LEMMA JanitorReflected ==
    ASSUME ServiceInvariant, NothingFromTheFuture, NEW s \in Sessions, Reflected(s),
           JanitorStep
    PROVE  NextReflected(s)
<1>1. \A r \in NextRooms(s) :
         r \in RuntimeRooms(s) /\ runtime'[r] = runtime[r] /\ runtime[r].updatedAt <= clock
  BY JanitorTakes DEF NextRooms, RuntimeRooms, NothingFromTheFuture
<1> QED BY <1>1, JanitorTakes DEF Reflected, NextReflected

\* The clauses about handlers, after a step.
FreshHandlerOK(t) ==
    pc[t] \in {"find", "accept", "rejectPeer"} => Reflected(req[t].session)

\* The invariant is inductive.
LEMMA NextFresh ==
    ServiceInvariant /\ RecordsKeepSession /\ FreshInvariant /\ [Next]_vars
        => FreshInvariant'
<1> SUFFICES ASSUME ServiceInvariant, RecordsKeepSession, FreshInvariant, [Next]_vars,
                    faults' = 0
             PROVE  /\ \A s \in Sessions : lock'[s] = Null => Reflected(s)'
                    /\ \A u \in Threads : FreshHandlerOK(u)'
  BY NextNothingFromTheFuture DEF FreshInvariant, Quiet, FreshHandlerOK
<1>1. DataTypes /\ ControlTypes /\ NothingFromTheFuture
  BY DEF ServiceInvariant, TypeOK, FreshInvariant
<1>2. \A u \in Threads : InSection(u) => req[u].session \in Sessions
  BY Serving
<1>3. ASSUME faults = 0
      PROVE  /\ \A s \in Sessions : lock[s] = Null => Reflected(s)
             /\ \A u \in Threads : FreshHandlerOK(u)
  BY <1>3 DEF FreshInvariant, Quiet, FreshHandlerOK
<1>4. ASSUME clock' = clock, NEW s, NextReflected(s)
      PROVE  Reflected(s)'
  BY <1>4 DEF Reflected, NextReflected, RuntimeRooms, NextRooms
<1>5. ASSUME clock' = clock, NEW u \in Threads, req'[u] = req[u],
             NextReflected(req[u].session)
      PROVE  FreshHandlerOK(u)'
  BY <1>5 DEF FreshHandlerOK, Reflected, NextReflected, RuntimeRooms, NextRooms
<1>6. ASSUME NEW u \in Threads, pc'[u] \notin {"find", "accept", "rejectPeer"}
      PROVE  FreshHandlerOK(u)'
  BY <1>6 DEF FreshHandlerOK
<1>7. ASSUME NEW t \in Threads, Handle(t)
      PROVE  /\ \A s \in Sessions : lock'[s] = Null => Reflected(s)'
             /\ \A u \in Threads : FreshHandlerOK(u)'
  <2>1. InSection(t) /\ MovesOnly(t) /\ WritesOnly(t) /\ req[t].session \in Sessions
    BY <1>2, <1>7, HandleMoves, HandleWrites
  <2>2. faults = 0 /\ faults' = faults /\ clock' = clock
    BY <1>1, <2>1 DEF WritesOnly, DataTypes, env
  <2>3. pc[t] \in {"find", "accept", "rejectPeer"} => Reflected(req[t].session)
    BY <1>3, <2>2 DEF FreshHandlerOK
  <2>4. pc'[t] \in {"idle", "find", "accept", "rejectPeer"} => NextReflected(req[t].session)
    BY <1>1, <1>7, <2>2, <2>3, FreshHandle
  <2>5. ASSUME NEW s \in Sessions, s # req[t].session, Reflected(s)
        PROVE  NextReflected(s)
    BY <1>7, <2>2, <2>5, OtherSessions DEF SameSession, Reflected, NextReflected
  <2>6. ASSUME NEW u \in Threads, u # t
        PROVE  FreshHandlerOK(u)'
    <3>1. /\ pc'[u] = pc[u] /\ req'[u] = req[u]
          /\ InSection(u) => req[u].session \in Sessions /\ req[u].session # req[t].session
      BY <1>7, <2>6, OtherHandlers
    <3>2. CASE pc'[u] \in {"find", "accept", "rejectPeer"}
      <4>1. InSection(u) /\ Reflected(req[u].session)
        BY <1>3, <2>2, <3>1, <3>2 DEF InSection, FreshHandlerOK
      <4>2. NextReflected(req[u].session)
        BY <2>5, <3>1, <4>1
      <4> QED BY <1>5, <2>2, <3>1, <4>2
    <3> QED BY <1>6, <3>2
  <2>7. CASE Return(t)
    <3>1. pc'[t] = "idle"
      BY <2>7, Advance
    <3>2. \A s \in Sessions : lock'[s] = Null => NextReflected(s)
      BY <1>3, <2>1, <2>2, <2>4, <2>5, <3>1 DEF MovesOnly
    <3> QED BY <1>4, <1>6, <2>2, <2>6, <3>1, <3>2
  <2>8. ASSUME pc'[t] # "idle", req'[t] = req[t], lock'[req[t].session] = t
        PROVE  /\ \A s \in Sessions : lock'[s] = Null => Reflected(s)'
               /\ FreshHandlerOK(t)'
    <3>1. t # Null
      BY NullAssumption
    <3>2. \A s \in Sessions : lock'[s] = Null => NextReflected(s)
      BY <1>3, <2>1, <2>2, <2>5, <2>8, <3>1 DEF MovesOnly
    <3> QED BY <1>4, <1>5, <1>6, <2>2, <2>4, <2>8, <3>2
  <2> QED BY <1>7, <2>6, <2>7, <2>8, HandleMoves DEF Steps
<1>8. CASE JanitorStep
  <2>1. faults = 0 /\ clock' = clock /\ UNCHANGED <<lock, req>>
        /\ \A u \in Threads : pc'[u] = pc[u]
    BY <1>1, <1>8, JanitorTakes DEF DataTypes
  <2>2. \A s \in Sessions : Reflected(s) => NextReflected(s)
    BY <1>1, <1>8, JanitorReflected
  <2>3. ASSUME NEW u \in Threads, pc'[u] \in {"find", "accept", "rejectPeer"}
        PROVE  FreshHandlerOK(u)'
    <3>1. InSection(u) /\ Reflected(req[u].session)
      BY <1>3, <2>1, <2>3 DEF InSection, FreshHandlerOK
    <3> QED BY <1>2, <1>5, <2>1, <2>2, <3>1
  <2> QED BY <1>3, <1>4, <1>6, <2>1, <2>2, <2>3
<1>9. CASE Restart
  BY <1>9 DEF Restart, Reflected, RuntimeRooms, FreshHandlerOK, Procs
<1>10. ASSUME NEW t \in Threads, Begin(t) \/ LockSession(t)
       PROVE  /\ \A s \in Sessions : lock'[s] = Null => Reflected(s)'
              /\ \A u \in Threads : FreshHandlerOK(u)'
  <2>1. /\ UNCHANGED <<clock, runtime, states, faults>> /\ pc'[t] \in {"lock", "find"}
        /\ \A u \in Threads \ {t} : pc'[u] = pc[u] /\ req'[u] = req[u]
    BY <1>10, BeginMoves DEF env, store, Procs
  <2>2. \A s : Reflected(s) => NextReflected(s)
    BY <2>1 DEF Reflected, NextReflected, NextRooms, RuntimeRooms
  <2>3. \A s \in Sessions : lock'[s] = Null => lock[s] = Null
    BY <1>1, <1>10, NullAssumption DEF Begin, Request, ReceiveRequest, ReceiveCallback,
       LockSession, ControlTypes
  <2>4. ASSUME NEW u \in Threads, u # t, pc'[u] \in {"find", "accept", "rejectPeer"}
        PROVE  FreshHandlerOK(u)'
    BY <1>3, <1>5, <2>1, <2>2, <2>4 DEF FreshHandlerOK
  <2>5. ASSUME pc'[t] = "find"
        PROVE  FreshHandlerOK(t)'
    <3>1. LockSession(t)
      BY <1>1, <1>10, <2>5 DEF Begin, Request, ReceiveRequest, ReceiveCallback,
         ControlTypes, Procs
    <3>2. pc[t] = "lock" /\ lock[req[t].session] = Null /\ req' = req
      BY <3>1 DEF LockSession
    <3>3. req[t].session \in Sessions
      BY <3>2, ServedType DEF ServiceInvariant, HandlerOK, TypeOK, ControlTypes
    <3>4. NextReflected(req[t].session)
      BY <1>3, <2>1, <2>2, <3>2, <3>3
    <3> QED BY <1>5, <2>1, <3>2, <3>4
  <2> QED BY <1>3, <1>4, <1>6, <2>1, <2>2, <2>3, <2>4, <2>5
<1>11. CASE Bystander
  <2>1. UNCHANGED <<runtime, lock, pc, req>>
    BY <1>11, BystanderMoves
  <2>2. faults = 0
    BY <1>1, <1>11 DEF Bystander, CreateSession, WriteRecord, CallFails, MediaStep,
       PeerChange, TrackStart, RelayEnd, BeginStop, FinishStop, Tick, ExpireState, vars,
       DataTypes
  <2>3. \A s \in Sessions : lock'[s] = Null => Reflected(s)'
    BY <1>3, <1>11, <2>1, <2>2, BystanderReflected
  <2>4. ASSUME NEW u \in Threads, pc'[u] \in {"find", "accept", "rejectPeer"}
        PROVE  FreshHandlerOK(u)'
    <3>1. InSection(u) /\ Reflected(req[u].session)
      BY <1>3, <2>1, <2>2, <2>4 DEF InSection, FreshHandlerOK
    <3> DEFINE s == req[u].session
    <3>2. s \in Sessions /\ Reflected(s)
      BY <1>2, <3>1
    <3> HIDE DEF s
    <3> QED BY <1>11, <2>1, <3>2, BystanderReflected DEF FreshHandlerOK, s
  <2> QED BY <1>6, <2>3, <2>4
<1> QED BY <1>7, <1>8, <1>9, <1>10, <1>11, StepKinds

\* Whatever the schedule of handlers, cleanups, expiries, crashes and stops: as
\* long as no call fails, a quiet room that was touched within the timeout has
\* its live state, because every handler that dates a room saves a new entry.
THEOREM FreshTheorem == Spec => []FreshRoomIsReflected
<1>1. Init => FreshInvariant
  BY NullAssumption DEF Init, FreshInvariant, NothingFromTheFuture, Reflected,
     RuntimeRooms, HoldsRoom, Procs
<1>2. ServiceInvariant /\ FreshInvariant => FreshRoomIsReflected
  <2> SUFFICES ASSUME ServiceInvariant, FreshInvariant, faults = 0, NEW r \in RoomIds,
                      runtime[r] # Null, Quiet(runtime[r].session),
                      clock - runtime[r].updatedAt < IdleTimeout
               PROVE  states[runtime[r].session] # Null
    BY DEF FreshRoomIsReflected
  <2>1. runtime[r].session \in Sessions /\ r \in RuntimeRooms(runtime[r].session)
    BY DEF ServiceInvariant, TypeOK, DataTypes, Rooms, RuntimeRooms
  <2>2. runtime[r].updatedAt \in Nat /\ clock \in Nat
    BY DEF ServiceInvariant, TypeOK, DataTypes, Rooms
  <2> QED BY <2>1, <2>2, ConstantsAssumption DEF FreshInvariant, Reflected
<1> QED BY <1>1, <1>2, NextFresh, RecordsTheorem, ServiceInvariantHolds, PTL DEF Spec

=============================================================================
