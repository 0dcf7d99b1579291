------------------------ MODULE SessionContractProofs ------------------------
(***************************************************************************)
(* What SessionService keeps while no janitor deletes rooms next to a      *)
(* handler, for every value of its constants but IdleTimeout = 0, with     *)
(* which idle_room_cleanup_scheduler.go starts no cleanup.  The run        *)
(* IdleRace shows what a janitor does to it.                               *)
(*                                                                         *)
(* A handler works on a copy of the room, while callbacks, creations,      *)
(* failing calls and crashes go on around it.  WorkOK says for each of its *)
(* steps how the copy, the runtime room, the record and the connections    *)
(* differ; from it follow the properties of the quiet states, those of the *)
(* records, and the refinement of SessionContract.                         *)
(***************************************************************************)
EXTENDS SessionRoomProofs

USE ConstantsAssumption, AgentsAssumption, NullAssumption

\* RoomIdleTimeout <= 0: neither the ticker nor the hook of the stop exists.
NoCleanup == IdleTimeout = 0

-----------------------------------------------------------------------------
(* The invariant.                                                          *)

NoJanitor == pc[Janitor] = "idle" /\ todo = {}

\* Joins go into a room of this status.
Joinable(status) == status \in {"created", "active"}

\* The participant is in the session's runtime room.
InRoom(s, q) == \E r \in RuntimeRooms(s) : q \in Members(runtime[r])

ActiveRecords(s) == \A r \in RuntimeRooms(s) : records[r].status = "active"

\* The room's record is active, and who is registered is in the room.
Settled(s) ==
    /\ ActiveRecords(s)
    /\ \A q \in Participants : conns[s][q] # Null => InRoom(s, q)

\* How the copy that will be saved differs from the runtime room: by the one
\* participant who joins or leaves, or not in who is in it.
OneChange(t) ==
    LET s == req[t].session
        p == req[t].part
        room == held[t]
    IN  \/ /\ req[t].kind = "join" /\ p \in Participants /\ ~InRoom(s, p)
           /\ \A q \in Participants : q \in Members(room) <=> q = p \/ InRoom(s, q)
        \/ /\ req[t].kind = "leave" /\ p \in Participants /\ p \notin Agents /\ InRoom(s, p)
           /\ \A q \in Participants : q \in Members(room) <=> q # p /\ InRoom(s, q)
        \/ /\ req[t].kind \in {"connection", "track"} /\ RuntimeRooms(s) # {}
           /\ \A q \in Participants : q \in Members(room) <=> InRoom(s, q)

\* What holds before each step of a handler.
WorkOK(t) ==
    LET s == req[t].session
        p == req[t].part
        room == held[t]
    IN  /\ pc[t] \in {"find", "findRecord", "accept", "closePeer"} => Settled(s)
        /\ pc[t] = "accept" =>
              /\ Joinable(records[room.id].status)
              /\ \A q \in Participants : q \in Members(room) <=> InRoom(s, q)
        /\ pc[t] = "rejectPeer" =>
              /\ ActiveRecords(s)
              /\ \A q \in Participants : conns[s][q] # Null => q = p \/ InRoom(s, q)
        /\ pc[t] \in {"closePeer", "saveRuntime"} => OneChange(t)
        /\ pc[t] = "saveRuntime" => ActiveRecords(s)
        /\ pc[t] \in {"saveRuntime", "saveRecord", "saveState"} =>
              /\ Joinable(records[room.id].status)
              /\ \A q \in Participants : conns[s][q] # Null => q \in Members(room)
        /\ pc[t] \in {"saveRecord", "saveState"} =>
              /\ runtime[room.id] = room
              /\ \/ records[room.id].status = "active"
                 \/ pc[t] = "saveRecord" /\ req[t].kind = "join"
        /\ pc[t] \in {"closeMedia", "delete", "closeRecord", "closeState"} =>
              Terminal(room.status)
        /\ pc[t] \in {"delete", "closeRecord", "closeState"} =>
              \A q \in Participants : conns[s][q] = Null
        /\ pc[t] \in {"closeRecord", "closeState"} => RuntimeRooms(s) = {}
        /\ pc[t] = "closeState" /\ faults = 0 => Terminal(records[room.id].status)

WorkInvariant ==
    /\ NoCleanup /\ NoJanitor
    /\ \A s \in Sessions : Quiet(s) => Settled(s)
    /\ \A t \in Threads : WorkOK(t)

\* The same of the state after a step.
NextInRoom(s, q) == \E r \in NextRooms(s) : q \in Members(runtime'[r])

NextSettled(s) ==
    /\ \A r \in NextRooms(s) : records'[r].status = "active"
    /\ \A q \in Participants : conns'[s][q] # Null => NextInRoom(s, q)

\* A handler returns to a settled session, or has what its next step needs.
WorkDone(t) ==
    IF pc'[t] = "idle" THEN NextSettled(req[t].session) ELSE WorkOK(t)'

-----------------------------------------------------------------------------
(* Operations on rooms.                                                    *)

\* Who is in a room after an operation on it.
LEMMA MemberOps ==
    ASSUME NEW room \in Rooms, NEW now \in Nat, NEW p \in Participants
    PROVE  /\ \A b : \A q \in Participants :
                 q \in Members(AddParticipant(room, p, NewParticipant(b), now))
                    <=> q = p \/ q \in Members(room)
           /\ \A q \in Participants :
                 q \in Members(RemoveParticipant(room, p, now))
                    <=> q # p /\ q \in Members(room)
           /\ \A st \in ConnectionStates : CanUpdateParticipant(room, p) =>
                 Members(UpdateParticipantState(room, p, st, now)) = Members(room)
           /\ \A st \in TrackStates : CanUpdateTrack(room, p) =>
                 Members(UpdateParticipantTrackState(room, p, st, now)) = Members(room)
<1>1. /\ room.parts \in [Participants -> ParticipantStates]
      /\ \A q \in Participants : room.parts[q] \in ParticipantStates
  BY DEF Rooms
<1>2. ASSUME NEW b
      PROVE  \A q \in Participants :
                 q \in Members(AddParticipant(room, p, NewParticipant(b), now))
                    <=> q = p \/ q \in Members(room)
  <2> DEFINE other == AddParticipant(room, p, NewParticipant(b), now)
             x == NewParticipant(b)
  <2>1. x # Absent
    <3>1. x.state = "connecting" /\ Absent.state = "absent"
      BY DEF NewParticipant, Absent
    <3> HIDE DEF x
    <3> QED BY <3>1
  <2>2. /\ other.parts[p] = x
        /\ \A q \in Participants \ {p} : other.parts[q] = room.parts[q]
    BY <1>1 DEF AddParticipant, Rooms
  <2> HIDE DEF other, x
  <2> QED BY <2>1, <2>2 DEF Members, other
<1>3. \A q \in Participants :
         q \in Members(RemoveParticipant(room, p, now)) <=> q # p /\ q \in Members(room)
  <2> DEFINE other == RemoveParticipant(room, p, now)
  <2>1. /\ other.parts[p] = Absent
        /\ \A q \in Participants \ {p} : other.parts[q] = room.parts[q]
    BY <1>1 DEF RemoveParticipant, Rooms
  <2> HIDE DEF other
  <2> QED BY <2>1 DEF Members, other
<1>4. ASSUME NEW st \in ConnectionStates, CanUpdateParticipant(room, p)
      PROVE  Members(UpdateParticipantState(room, p, st, now)) = Members(room)
  <2> DEFINE other == UpdateParticipantState(room, p, st, now)
             x == [room.parts[p] EXCEPT !.state = st]
  <2>1. x # Absent
    <3>1. x.state = st /\ Absent.state = "absent" /\ st # "absent"
      BY <1>1 DEF ParticipantStates, ConnectionStates, Absent
    <3> HIDE DEF x
    <3> QED BY <3>1
  <2>2. /\ other.parts[p] = x
        /\ \A q \in Participants \ {p} : other.parts[q] = room.parts[q]
    BY <1>1 DEF UpdateParticipantState, Rooms
  <2> HIDE DEF other, x
  <2> QED BY <1>4, <2>1, <2>2 DEF Members, CanUpdateParticipant, other
<1>5. ASSUME NEW st \in TrackStates, CanUpdateTrack(room, p)
      PROVE  Members(UpdateParticipantTrackState(room, p, st, now)) = Members(room)
  <2> DEFINE other == UpdateParticipantTrackState(room, p, st, now)
             x == [room.parts[p] EXCEPT !.track = st]
  <2>1. x # Absent
    <3>1. x.track = st /\ Absent.track = "none" /\ st # "none"
      BY <1>1 DEF ParticipantStates, TrackStates, Absent
    <3> HIDE DEF x
    <3> QED BY <3>1
  <2>2. /\ other.parts[p] = x
        /\ \A q \in Participants \ {p} : other.parts[q] = room.parts[q]
    BY <1>1 DEF UpdateParticipantTrackState, Rooms
  <2> HIDE DEF other, x
  <2> QED BY <1>5, <2>1, <2>2 DEF Members, CanUpdateTrack, other
<1> QED BY <1>2, <1>3, <1>4, <1>5

\* Giving a room a user keeps who is in it; an ended room is terminal.
LEMMA MemberEnds ==
    ASSUME NEW room \in Rooms, NEW now \in Nat
    PROVE  /\ Members(SetUserID(room, now)) = Members(room)
           /\ Terminal(Close(room, now).status) /\ Terminal(Fail(room, now).status)
<1>1. SetUserID(room, now).parts = room.parts
  BY DEF SetUserID, Rooms
<1> QED BY <1>1 DEF Members, Close, Fail, Terminal, Rooms

\* A record read back as a room has its status and nobody in it.
LEMMA RuntimeRoomEmpty ==
    ASSUME NEW r, NEW now
    PROVE  Members(RuntimeRoom(r, now)) = {} /\ RuntimeRoom(r, now).status = records[r].status
<1>1. /\ RuntimeRoom(r, now).parts = [p \in Participants |-> Absent]
      /\ RuntimeRoom(r, now).status = records[r].status
  BY DEF RuntimeRoom, NewRoom
<1> QED BY <1>1 DEF Members

-----------------------------------------------------------------------------
(* One lemma per action of a handler.                                      *)

\* What a handler starts from.
Works(t) == ServiceInvariant /\ RecordsKeepSession /\ InSection(t) /\ WorkOK(t)

\* What is known of the session's rooms, and of the room at hand.
LEMMA Working ==
    ASSUME NEW t \in Threads, Works(t)
    PROVE  /\ req[t] \in Served /\ req[t].session \in Sessions /\ req[t].now \in Nat
           /\ \A r \in RuntimeRooms(req[t].session) :
                 /\ r \in RoomIds /\ runtime[r] \in Rooms /\ runtime[r].id = r
                 /\ runtime[r].session = req[t].session /\ runtime[r].status = "active"
                 /\ RuntimeRooms(req[t].session) = {r}
                 /\ \A q : InRoom(req[t].session, q) <=> q \in Members(runtime[r])
           /\ pc[t] \in HoldsRoom =>
                 /\ held[t] \in Rooms /\ held[t].session = req[t].session
                 /\ held[t].id \in RoomIds
                 /\ RuntimeRooms(req[t].session) \subseteq {held[t].id}
                 /\ records[held[t].id] \in Records
           /\ pc[t] \in WritesActive => held[t].status = "active"
           /\ pc[t] = "findRecord" => RuntimeRooms(req[t].session) = {}
           /\ pc[t] \in {"accept", "rejectPeer"} => req[t].kind = "join"
           /\ pc[t] = "closePeer" => req[t].kind = "leave"
           /\ DataTypes
<1>1. ServiceInvariant /\ InSection(t) /\ DataTypes /\ HandlerOK(t)
  BY DEF Works, ServiceInvariant, TypeOK
<1>2. /\ req[t] \in Served /\ req[t].session \in Sessions /\ req[t].now \in Nat
      /\ pc[t] \in HoldsRoom =>
            /\ held[t] \in Rooms /\ held[t].session = req[t].session
            /\ held[t].id \in RoomIds
            /\ RuntimeRooms(req[t].session) \subseteq {held[t].id}
      /\ pc[t] \in WritesActive => held[t].status = "active"
  BY <1>1, Serving
<1>3. pc[t] \in HoldsRoom => records[held[t].id] \in Records
  BY <1>1, <1>2 DEF Works, RecordsKeepSession, OwnRecord, DataTypes, Procs
<1>4. ASSUME NEW r \in RuntimeRooms(req[t].session)
      PROVE  /\ r \in RoomIds /\ runtime[r] \in Rooms /\ runtime[r].id = r
             /\ runtime[r].session = req[t].session /\ runtime[r].status = "active"
             /\ RuntimeRooms(req[t].session) = {r}
             /\ \A q : InRoom(req[t].session, q) <=> q \in Members(runtime[r])
  BY <1>1, <1>2, FoundRoom DEF InRoom
<1> QED BY <1>1, <1>2, <1>3, <1>4 DEF HandlerOK

\* A handler that leaves rooms, records and connections alone.
LEMMA Unmoved ==
    ASSUME UNCHANGED <<runtime, records, conns>>
    PROVE  /\ \A s : NextRooms(s) = RuntimeRooms(s) /\ RuntimeRooms(s)' = RuntimeRooms(s)
           /\ \A s, q : NextInRoom(s, q) <=> InRoom(s, q)
           /\ \A s : Settled(s) => NextSettled(s)
BY DEF NextRooms, RuntimeRooms, NextInRoom, InRoom, Settled, ActiveRecords, NextSettled

\* A join finds the room of its session, or none.
LEMMA JoinFindWorks ==
    ASSUME NEW t \in Threads, Works(t), JoinFind(t)
    PROVE  WorkDone(t)
<1> DEFINE s == req[t].session
<1>1. pc[t] = "find" /\ Settled(s) /\ UNCHANGED <<runtime, records, conns, faults>>
  BY DEF JoinFind, Works, WorkOK, store, media
<1>2. NextSettled(s)
  BY <1>1, Unmoved
<1>3. ASSUME NEW r \in RuntimeRooms(s),
             Goto(t, "accept", SetUserID(runtime[r], req[t].now))
      PROVE  WorkDone(t)
  <2> DEFINE room == SetUserID(runtime[r], req[t].now)
  <2>1. room.id = r /\ Members(room) = Members(runtime[r])
    BY Working, MemberEnds DEF SetUserID, Rooms
  <2>2. records[r].status = "active"
    BY <1>1 DEF Settled, ActiveRecords
  <2>3. \A q \in Participants : q \in Members(room) <=> InRoom(s, q)
    BY <2>1, Working
  <2> HIDE DEF room
  <2>4. pc'[t] = "accept" /\ held'[t] = room /\ req'[t] = req[t]
    BY <1>3, Advance DEF Works, room
  <2>5. WorkOK(t)'
    BY <1>1, <2>1, <2>2, <2>3, <2>4
       DEF WorkOK, Settled, ActiveRecords, InRoom, RuntimeRooms, Joinable, Members
  <2> QED BY <2>4, <2>5 DEF WorkDone
<1>4. CASE RuntimeRooms(s) = {} /\ Goto(t, "findRecord", Null)
  <2>1. pc'[t] = "findRecord" /\ req'[t] = req[t]
    BY <1>4, Advance DEF Works
  <2>2. WorkOK(t)'
    BY <1>1, <2>1 DEF WorkOK, Settled, ActiveRecords, InRoom, RuntimeRooms, Members
  <2> QED BY <2>1, <2>2 DEF WorkDone
<1>5. CASE Return(t)
  BY <1>2, <1>5, Advance DEF WorkDone, Works
<1> QED BY <1>3, <1>4, <1>5 DEF JoinFind, JoinFound

\* So does the end of a session, which closes the room it finds.
LEMMA EndFindWorks ==
    ASSUME NEW t \in Threads, Works(t), EndFind(t)
    PROVE  WorkDone(t)
<1> DEFINE s == req[t].session
<1>1. pc[t] = "find" /\ Settled(s) /\ UNCHANGED <<runtime, records, conns, faults>>
  BY DEF EndFind, Works, WorkOK, store, media
<1>2. ASSUME NEW r \in RuntimeRooms(s),
             Goto(t, "closeMedia", Close(runtime[r], req[t].now))
      PROVE  WorkDone(t)
  <2>1. Terminal(Close(runtime[r], req[t].now).status)
    BY Working, MemberEnds
  <2>2. pc'[t] = "closeMedia" /\ held'[t] = Close(runtime[r], req[t].now) /\ req'[t] = req[t]
    BY <1>2, Advance DEF Works
  <2>3. WorkOK(t)'
    BY <2>1, <2>2 DEF WorkOK, Terminal
  <2> QED BY <2>2, <2>3 DEF WorkDone
<1>3. CASE RuntimeRooms(s) = {} /\ Goto(t, "findRecord", Null)
  <2>1. pc'[t] = "findRecord" /\ req'[t] = req[t]
    BY <1>3, Advance DEF Works
  <2>2. WorkOK(t)'
    BY <1>1, <2>1 DEF WorkOK, Settled, ActiveRecords, InRoom, RuntimeRooms, Members
  <2> QED BY <2>1, <2>2 DEF WorkDone
<1> QED BY <1>2, <1>3 DEF EndFind

\* A leave takes its participant out of its copy of the room, or fails it.
LEMMA LeaveFindWorks ==
    ASSUME NEW t \in Threads, Works(t), LeaveFind(t)
    PROVE  WorkDone(t)
<1> DEFINE s == req[t].session
           p == req[t].part
<1>1. /\ pc[t] = "find" /\ Settled(s) /\ UNCHANGED <<runtime, records, conns, faults>>
      /\ req[t].kind = "leave" /\ p \in Participants
  BY Working, ServedType DEF LeaveFind, Works, WorkOK, store, media
<1>2. NextSettled(s)
  BY <1>1, Unmoved
<1>3. ASSUME NEW r \in RuntimeRooms(s), p \in Members(runtime[r]), ~IsCritical(p),
             Goto(t, "closePeer", RemoveParticipant(runtime[r], p, req[t].now))
      PROVE  WorkDone(t)
  <2> DEFINE room == RemoveParticipant(runtime[r], p, req[t].now)
  <2>1. \A q \in Participants : q \in Members(room) <=> q # p /\ InRoom(s, q)
    BY <1>1, Working, MemberOps
  <2>2. InRoom(s, p) /\ p \notin Agents
    BY <1>3, Working DEF IsCritical
  <2> HIDE DEF room
  <2>3. pc'[t] = "closePeer" /\ held'[t] = room /\ req'[t] = req[t]
    BY <1>3, Advance DEF Works, room
  <2>4. WorkOK(t)'
    BY <1>1, <2>1, <2>2, <2>3
       DEF WorkOK, OneChange, Settled, ActiveRecords, InRoom, RuntimeRooms, Members
  <2> QED BY <2>3, <2>4 DEF WorkDone
<1>4. ASSUME NEW r \in RuntimeRooms(s),
             Goto(t, "closeMedia", Fail(runtime[r], req[t].now))
      PROVE  WorkDone(t)
  <2>1. Terminal(Fail(runtime[r], req[t].now).status)
    BY Working, MemberEnds
  <2>2. pc'[t] = "closeMedia" /\ held'[t] = Fail(runtime[r], req[t].now) /\ req'[t] = req[t]
    BY <1>4, Advance DEF Works
  <2>3. WorkOK(t)'
    BY <2>1, <2>2 DEF WorkOK, Terminal
  <2> QED BY <2>2, <2>3 DEF WorkDone
<1>5. CASE Return(t)
  BY <1>2, <1>5, Advance DEF WorkDone, Works
<1> QED BY <1>3, <1>4, <1>5 DEF LeaveFind

\* A callback changes a member of its copy, not who is in it.
LEMMA CallbackFindWorks ==
    ASSUME NEW t \in Threads, Works(t), ConnectionFind(t) \/ TrackFind(t)
    PROVE  WorkDone(t)
<1> DEFINE s == req[t].session
           p == req[t].part
<1>1. /\ pc[t] = "find" /\ Settled(s) /\ UNCHANGED <<runtime, records, conns, faults>>
      /\ req[t].kind \in {"connection", "track"}
  BY DEF ConnectionFind, TrackFind, Works, WorkOK, store, media
<1>2. NextSettled(s)
  BY <1>1, Unmoved
<1>3. ASSUME NEW r \in RuntimeRooms(s), NEW room,
             Goto(t, "saveRuntime", room), Members(room) = Members(runtime[r]), room.id = r
      PROVE  WorkDone(t)
  <2>1. pc'[t] = "saveRuntime" /\ held'[t] = room /\ req'[t] = req[t]
    BY <1>3, Advance DEF Works
  <2>2. /\ \A q \in Participants : q \in Members(room) <=> InRoom(s, q)
        /\ RuntimeRooms(s) # {} /\ records[r].status = "active"
    BY <1>1, <1>3, Working DEF Settled, ActiveRecords
  <2>3. WorkOK(t)'
    BY <1>1, <1>3, <2>1, <2>2
       DEF WorkOK, OneChange, Settled, ActiveRecords, InRoom, RuntimeRooms, Joinable, Members
  <2> QED BY <2>1, <2>3 DEF WorkDone
<1>4. CASE Return(t)
  BY <1>2, <1>4, Advance DEF WorkDone, Works
<1>5. CASE ConnectionFind(t)
  <2>1. p \in Participants /\ req[t].state \in ConnectionStates
    BY <1>5, Working, ServedType DEF ConnectionFind
  <2>2. ASSUME NEW r \in RuntimeRooms(s), CanUpdateParticipant(runtime[r], p)
        PROVE  LET room == UpdateParticipantState(runtime[r], p, req[t].state, req[t].now)
               IN  Members(room) = Members(runtime[r]) /\ room.id = r
    BY <2>1, <2>2, Working, MemberOps, SameIdentity
  <2> QED BY <1>3, <1>4, <1>5, <2>2 DEF ConnectionFind
<1>6. CASE TrackFind(t)
  <2>1. p \in Participants /\ req[t].state \in TrackStates
    BY <1>6, Working, ServedType DEF TrackFind
  <2>2. ASSUME NEW r \in RuntimeRooms(s), CanUpdateTrack(runtime[r], p)
        PROVE  LET room == UpdateParticipantTrackState(runtime[r], p, req[t].state, req[t].now)
               IN  Members(room) = Members(runtime[r]) /\ room.id = r
    BY <2>1, <2>2, Working, MemberOps, SameIdentity
  <2> QED BY <1>3, <1>4, <1>6, <2>2 DEF TrackFind
<1> QED BY <1>5, <1>6

\* A join or an end goes on with a record when its session has no room.
LEMMA FindRecordWorks ==
    ASSUME NEW t \in Threads, Works(t), FindRecord(t)
    PROVE  WorkDone(t)
<1> DEFINE s == req[t].session
<1>1. /\ pc[t] = "findRecord" /\ Settled(s) /\ UNCHANGED <<runtime, records, conns>>
      /\ RuntimeRooms(s) = {}
  BY Working DEF FindRecord, Works, WorkOK, store, media
<1>2. NextSettled(s)
  BY <1>1, Unmoved
<1>3. ASSUME NEW r \in RecordIds(s)
      PROVE  LET room == RuntimeRoom(r, req[t].now) IN
             /\ room \in Rooms /\ room.id = r
             /\ Members(room) = {} /\ room.status = records[r].status
  BY Working, RuntimeRoomType, RuntimeRoomEmpty DEF RecordIds
<1>4. ASSUME NEW r \in RecordIds(s),
             CanJoinParticipants(RuntimeRoom(r, req[t].now)),
             Goto(t, "accept", SetUserID(RuntimeRoom(r, req[t].now), req[t].now))
      PROVE  WorkDone(t)
  <2> DEFINE read == RuntimeRoom(r, req[t].now)
             room == SetUserID(read, req[t].now)
  <2>1. /\ read \in Rooms /\ read.id = r /\ Members(read) = {}
        /\ read.status = records[r].status
    BY <1>3
  <2> HIDE DEF read
  <2>2. room.id = r /\ Members(room) = {} /\ Joinable(records[r].status)
    BY <1>4, <2>1, Working, MemberEnds
       DEF SetUserID, Rooms, CanJoinParticipants, Joinable, read
  <2>3. \A q \in Participants : q \in Members(room) <=> InRoom(s, q)
    BY <1>1, <2>2 DEF InRoom
  <2> HIDE DEF room
  <2>4. pc'[t] = "accept" /\ held'[t] = room /\ req'[t] = req[t]
    BY <1>4, Advance DEF Works, room, read
  <2>5. WorkOK(t)'
    BY <1>1, <2>2, <2>3, <2>4
       DEF WorkOK, Settled, ActiveRecords, InRoom, RuntimeRooms, Members
  <2> QED BY <2>4, <2>5 DEF WorkDone
<1>5. ASSUME NEW r \in RecordIds(s),
             Goto(t, "closeMedia", Close(RuntimeRoom(r, req[t].now), req[t].now))
      PROVE  WorkDone(t)
  <2>1. Terminal(Close(RuntimeRoom(r, req[t].now), req[t].now).status)
    BY <1>3, Working, MemberEnds
  <2>2. /\ pc'[t] = "closeMedia" /\ req'[t] = req[t]
        /\ held'[t] = Close(RuntimeRoom(r, req[t].now), req[t].now)
    BY <1>5, Advance DEF Works
  <2>3. WorkOK(t)'
    BY <2>1, <2>2 DEF WorkOK, Terminal
  <2> QED BY <2>2, <2>3 DEF WorkDone
<1>6. CASE Return(t)
  BY <1>2, <1>6, Advance DEF WorkDone, Works
<1> QED BY <1>4, <1>5, <1>6 DEF FindRecord, JoinFound

\* A join registers its connection before it knows that it may join.
LEMMA AcceptWorks ==
    ASSUME NEW t \in Threads, Works(t), AcceptParticipant(t)
    PROVE  WorkDone(t)
<1> DEFINE s == req[t].session
           p == req[t].part
<1>1. /\ pc[t] = "accept" /\ Settled(s) /\ UNCHANGED <<runtime, records, faults>>
      /\ Joinable(records[held[t].id].status)
      /\ \A q \in Participants : q \in Members(held[t]) <=> InRoom(s, q)
  BY DEF AcceptParticipant, Works, WorkOK, store
<1>2. req[t].kind = "join" /\ p \in Participants /\ held[t] \in Rooms
  BY <1>1, Working, ServedType DEF HoldsRoom
<1>3. CASE Return(t) /\ FailOffer(s, p)
  <2>1. UNCHANGED <<runtime, records, conns>>
    BY <1>1, <1>3 DEF FailOffer
  <2> QED BY <1>1, <1>3, <2>1, Unmoved, Advance DEF WorkDone, Works
<1>4. ASSUME NEW i \in PeerIds, AcceptOffer(i, s, p, req[t].publish)
      PROVE  \A q \in Participants : conns'[s][q] # Null => q = p \/ InRoom(s, q)
  BY <1>1, <1>2, <1>4, Working DEF AcceptOffer, DataTypes, Settled
<1>5. ASSUME NEW i \in PeerIds, AcceptOffer(i, s, p, req[t].publish),
             CanAddParticipant(held[t], p),
             Goto(t, "saveRuntime",
                  AddParticipant(held[t], p, NewParticipant(req[t].publish), req[t].now))
      PROVE  WorkDone(t)
  <2> DEFINE room == AddParticipant(held[t], p, NewParticipant(req[t].publish), req[t].now)
  <2>1. /\ room.id = held[t].id
        /\ \A q \in Participants : q \in Members(room) <=> q = p \/ InRoom(s, q)
    BY <1>1, <1>2, Working, MemberOps, SameIdentity
  <2>2. ~InRoom(s, p)
    BY <1>1, <1>2, <1>5 DEF CanAddParticipant
  <2> HIDE DEF room
  <2>3. pc'[t] = "saveRuntime" /\ held'[t] = room /\ req'[t] = req[t]
    BY <1>5, Advance DEF Works, room
  <2>4. RuntimeRooms(s)' = RuntimeRooms(s) /\ \A q : InRoom(s, q)' <=> InRoom(s, q)
    BY <1>1, <2>3 DEF InRoom, RuntimeRooms, Members
  <2>5. OneChange(t)'
    BY <1>2, <2>1, <2>2, <2>3, <2>4 DEF OneChange, Members
  <2>6. ActiveRecords(s)'
    BY <1>1, <2>4 DEF Settled, ActiveRecords
  <2>7. \A q \in Participants : conns'[s][q] # Null => q \in Members(room)
    BY <1>4, <1>5, <2>1
  <2>8. WorkOK(t)'
    BY <1>1, <2>1, <2>3, <2>5, <2>6, <2>7 DEF WorkOK, Members
  <2> QED BY <2>3, <2>8 DEF WorkDone
<1>6. ASSUME NEW i \in PeerIds, AcceptOffer(i, s, p, req[t].publish),
             Goto(t, "rejectPeer", held[t])
      PROVE  WorkDone(t)
  <2>1. pc'[t] = "rejectPeer" /\ req'[t] = req[t]
    BY <1>6, Advance DEF Works
  <2>2. WorkOK(t)'
    BY <1>1, <1>2, <1>4, <1>6, <2>1
       DEF WorkOK, Settled, ActiveRecords, InRoom, RuntimeRooms, Members
  <2> QED BY <2>1, <2>2 DEF WorkDone
<1> QED BY <1>3, <1>5, <1>6 DEF AcceptParticipant

\* Closing the connection of a participant unregisters it.
LEMMA Unregisters ==
    ASSUME DataTypes, NEW s \in Sessions, NEW p \in Participants, CloseParticipant(s, p)
    PROVE  /\ conns'[s][p] = Null
           /\ \A q \in Participants \ {p} : conns'[s][q] = conns[s][q]
BY DEF CloseParticipant, DataTypes

\* A join that is rejected takes its connection with it.
LEMMA RejectWorks ==
    ASSUME NEW t \in Threads, Works(t), RejectPeer(t)
    PROVE  WorkDone(t)
<1> DEFINE s == req[t].session
           p == req[t].part
<1>1. /\ pc[t] = "rejectPeer" /\ UNCHANGED <<runtime, records>> /\ ActiveRecords(s)
      /\ \A q \in Participants : conns[s][q] # Null => q = p \/ InRoom(s, q)
  BY DEF RejectPeer, Works, WorkOK, store
<1>2. p \in Participants /\ s \in Sessions /\ DataTypes
  BY <1>1, Working, ServedType
<1>3. \A q \in Participants : conns'[s][q] # Null => InRoom(s, q)
  BY <1>1, <1>2, Unregisters DEF RejectPeer
<1>4. NextSettled(s)
  BY <1>1, <1>3 DEF NextSettled, NextInRoom, NextRooms, ActiveRecords, InRoom, RuntimeRooms
<1> QED BY <1>4, Advance DEF RejectPeer, WorkDone, Works

\* A leave closes its connection, and may then give up.
LEMMA ClosePeerWorks ==
    ASSUME NEW t \in Threads, Works(t), ClosePeer(t)
    PROVE  WorkDone(t)
<1> DEFINE s == req[t].session
           p == req[t].part
           room == held[t]
<1>1. /\ pc[t] = "closePeer" /\ UNCHANGED <<runtime, records>> /\ Settled(s) /\ OneChange(t)
      /\ req[t].kind = "leave"
  BY Working DEF ClosePeer, Works, WorkOK, store
<1>2. /\ p \in Participants /\ p \notin Agents /\ InRoom(s, p)
      /\ s \in Sessions /\ DataTypes /\ room \in Rooms
      /\ \A q \in Participants : q \in Members(room) <=> q # p /\ InRoom(s, q)
  BY <1>1, Working, ServedType DEF OneChange, HoldsRoom
<1>3. \A q \in Participants : conns'[s][q] # Null => q # p /\ InRoom(s, q)
  BY <1>1, <1>2, Unregisters DEF ClosePeer, Settled
<1>4. NextSettled(s)
  BY <1>1, <1>3
     DEF NextSettled, NextInRoom, NextRooms, Settled, ActiveRecords, InRoom, RuntimeRooms
<1>5. CASE Goto(t, "saveRuntime", held[t])
  <2>1. records[room.id].status = "active"
    BY <1>1, <1>2, Working DEF InRoom, Settled, ActiveRecords, HoldsRoom
  <2>2. pc'[t] = "saveRuntime" /\ held'[t] = room /\ req'[t] = req[t]
    BY <1>5, Advance DEF Works
  <2>3. WorkOK(t)'
    BY <1>1, <1>2, <1>3, <2>1, <2>2
       DEF WorkOK, OneChange, Settled, ActiveRecords, InRoom, RuntimeRooms, Joinable, Members
  <2> QED BY <2>2, <2>3 DEF WorkDone
<1>6. CASE Return(t)
  BY <1>4, <1>6, Advance DEF WorkDone, Works
<1> QED BY <1>5, <1>6 DEF ClosePeer

\* The first save makes the copy the room of the session.
LEMMA SaveRuntimeWorks ==
    ASSUME NEW t \in Threads, Works(t), SaveRuntime(t)
    PROVE  WorkDone(t)
<1> DEFINE s == req[t].session
           room == held[t]
<1>1. /\ pc[t] = "saveRuntime" /\ UNCHANGED <<records, conns, faults>>
      /\ ActiveRecords(s) /\ OneChange(t) /\ Joinable(records[room.id].status)
      /\ \A q \in Participants : conns[s][q] # Null => q \in Members(room)
  BY DEF SaveRuntime, Works, WorkOK, store, media
<1>2. /\ room \in Rooms /\ room.id \in RoomIds /\ RuntimeRooms(s) \subseteq {room.id}
      /\ DataTypes
  BY <1>1, Working DEF HoldsRoom
<1>3. req[t].kind = "join" \/ records[room.id].status = "active"
  BY <1>1, <1>2 DEF OneChange, InRoom, ActiveRecords
<1>4. runtime'[room.id] = room
  BY <1>2 DEF SaveRuntime, DataTypes
<1>5. pc'[t] = "saveRecord" /\ held'[t] = room /\ req'[t] = req[t]
  BY Advance DEF SaveRuntime, Works
<1>6. WorkOK(t)'
  BY <1>1, <1>3, <1>4, <1>5 DEF WorkOK, Members
<1> QED BY <1>5, <1>6 DEF WorkDone

\* A record that is saved, or whose save fails, is active, unless a first join
\* fails.
LEMMA SaveRecordWorks ==
    ASSUME NEW t \in Threads, Works(t), SaveRecord(t)
    PROVE  WorkDone(t)
<1> DEFINE s == req[t].session
           room == held[t]
<1>1. /\ pc[t] = "saveRecord" /\ UNCHANGED <<runtime, conns>>
      /\ runtime[room.id] = room /\ Joinable(records[room.id].status)
      /\ records[room.id].status = "active" \/ req[t].kind = "join"
      /\ \A q \in Participants : conns[s][q] # Null => q \in Members(room)
  BY DEF SaveRecord, Works, WorkOK, media
<1>2. /\ room \in Rooms /\ room.id \in RoomIds /\ RuntimeRooms(s) \subseteq {room.id}
      /\ room.session = s /\ room.status = "active" /\ DataTypes /\ req[t].now \in Nat
  BY <1>1, Working DEF HoldsRoom, WritesActive
<1>3. CASE Goto(t, "closeMedia", Fail(room, req[t].now))
  <2>1. /\ pc'[t] = "closeMedia" /\ held'[t] = Fail(room, req[t].now)
    BY <1>3, Advance DEF Works
  <2>2. Terminal(Fail(room, req[t].now).status)
    BY <1>2, MemberEnds
  <2>3. WorkOK(t)'
    BY <2>1, <2>2 DEF WorkOK, Terminal
  <2> QED BY <2>1, <2>3 DEF WorkDone
<1>4. ASSUME records' = [records EXCEPT ![room.id] = Record(room)]
      PROVE  records'[room.id].status = "active"
  BY <1>2, <1>4 DEF DataTypes, Record
<1>5. CASE WriteRecord(room, TRUE) /\ Goto(t, "saveState", room)
  <2>1. records'[room.id].status = "active"
    BY <1>4, <1>5 DEF WriteRecord
  <2>2. pc'[t] = "saveState" /\ held'[t] = room /\ req'[t] = req[t]
    BY <1>5, Advance DEF Works
  <2>3. WorkOK(t)'
    BY <1>1, <2>1, <2>2 DEF WorkOK, Joinable, Members
  <2> QED BY <2>2, <2>3 DEF WorkDone
<1>6. CASE WriteRecord(room, FALSE) /\ Return(t) /\ req[t].kind # "join"
  <2>1. records'[room.id].status = "active"
    BY <1>1, <1>4, <1>6 DEF WriteRecord
  <2>2. NextRooms(s) = {room.id} /\ runtime'[room.id] = room
    BY <1>1, <1>2 DEF NextRooms, RuntimeRooms
  <2>3. NextSettled(s)
    BY <1>1, <2>1, <2>2 DEF NextSettled, NextInRoom
  <2> QED BY <1>6, <2>3, Advance DEF WorkDone, Works
<1> QED BY <1>3, <1>5, <1>6 DEF SaveRecord, PersistFailed

\* With the live state the handler has saved its room.
LEMMA SaveStateWorks ==
    ASSUME NEW t \in Threads, Works(t), SaveState(t)
    PROVE  WorkDone(t)
<1> DEFINE s == req[t].session
           room == held[t]
<1>1. /\ pc[t] = "saveState" /\ UNCHANGED <<runtime, records, conns>>
      /\ runtime[room.id] = room /\ records[room.id].status = "active"
      /\ \A q \in Participants : conns[s][q] # Null => q \in Members(room)
  BY DEF SaveState, Works, WorkOK, media
<1>2. /\ room \in Rooms /\ room.id \in RoomIds /\ RuntimeRooms(s) \subseteq {room.id}
      /\ room.session = s /\ req[t].now \in Nat
  BY <1>1, Working DEF HoldsRoom
<1>3. CASE Goto(t, "closeMedia", Fail(room, req[t].now))
  <2>1. /\ pc'[t] = "closeMedia" /\ held'[t] = Fail(room, req[t].now)
    BY <1>3, Advance DEF Works
  <2>2. Terminal(Fail(room, req[t].now).status)
    BY <1>2, MemberEnds
  <2>3. WorkOK(t)'
    BY <2>1, <2>2 DEF WorkOK, Terminal
  <2> QED BY <2>1, <2>3 DEF WorkDone
<1>4. CASE Return(t)
  <2>1. NextRooms(s) = {room.id} /\ runtime'[room.id] = room
    BY <1>1, <1>2 DEF NextRooms, RuntimeRooms
  <2>2. NextSettled(s)
    BY <1>1, <2>1 DEF NextSettled, NextInRoom
  <2> QED BY <1>4, <2>2, Advance DEF WorkDone, Works
<1> QED BY <1>3, <1>4 DEF SaveState, PersistFailed

\* A teardown takes the connections, the room and the record, one by one.
LEMMA TeardownWorks ==
    ASSUME NEW t \in Threads, Works(t),
           CloseMedia(t) \/ DeleteRuntime(t) \/ CloseRecord(t) \/ CloseState(t)
    PROVE  WorkDone(t)
<1> DEFINE s == req[t].session
           room == held[t]
<1>1. pc[t] \in HoldsRoom
  BY DEF CloseMedia, DeleteRuntime, CloseRecord, CloseState, HoldsRoom
<1>2. /\ room \in Rooms /\ room.id \in RoomIds /\ RuntimeRooms(s) \subseteq {room.id}
      /\ s \in Sessions /\ room.session = s /\ DataTypes
  BY <1>1, Working
<1>3. Terminal(room.status)
  BY DEF Works, WorkOK, CloseMedia, DeleteRuntime, CloseRecord, CloseState
<1>4. CASE CloseMedia(t)
  <2>1. \A q \in Participants : conns'[s][q] = Null
    BY <1>2, <1>4 DEF CloseMedia, CloseSession, DataTypes
  <2>2. pc'[t] = "delete" /\ held'[t] = room /\ req'[t] = req[t]
    BY <1>4, Advance DEF Works, CloseMedia
  <2>3. WorkOK(t)'
    BY <1>3, <2>1, <2>2 DEF WorkOK, Terminal
  <2> QED BY <2>2, <2>3 DEF WorkDone
<1>5. CASE DeleteRuntime(t)
  <2>1. /\ \A q \in Participants : conns'[s][q] = Null
        /\ runtime' = [runtime EXCEPT ![room.id] = Null]
    BY <1>5 DEF DeleteRuntime, Works, WorkOK, media
  <2>2. NextRooms(s) = {}
    BY <1>2, <2>1 DEF NextRooms, RuntimeRooms, DataTypes
  <2>3. pc'[t] = "closeRecord" /\ held'[t] = room /\ req'[t] = req[t]
    BY <1>5, Advance DEF Works, DeleteRuntime
  <2>4. WorkOK(t)'
    BY <1>3, <2>1, <2>2, <2>3 DEF WorkOK, Terminal, RuntimeRooms, NextRooms
  <2> QED BY <2>3, <2>4 DEF WorkDone
<1>6. CASE CloseRecord(t)
  <2>1. /\ UNCHANGED <<runtime, conns>> /\ RuntimeRooms(s) = {}
        /\ \A q \in Participants : conns[s][q] = Null
    BY <1>6 DEF CloseRecord, Works, WorkOK, media
  <2>2. faults' = 0 => Terminal(records'[room.id].status)
    BY <1>2, <1>3, <1>6 DEF CloseRecord, WriteRecord, CallFails, DataTypes, Record, Terminal
  <2>3. pc'[t] = "closeState" /\ held'[t] = room /\ req'[t] = req[t]
    BY <1>6, Advance DEF Works, CloseRecord
  <2>4. WorkOK(t)'
    BY <1>3, <2>1, <2>2, <2>3 DEF WorkOK, Terminal, RuntimeRooms
  <2> QED BY <2>3, <2>4 DEF WorkDone
<1>7. CASE CloseState(t)
  <2>1. /\ UNCHANGED <<runtime, conns>> /\ RuntimeRooms(s) = {}
        /\ \A q \in Participants : conns[s][q] = Null
    BY <1>7 DEF CloseState, Works, WorkOK, media
  <2>2. NextSettled(s)
    BY <2>1 DEF NextSettled, NextRooms, RuntimeRooms
  <2> QED BY <1>7, <2>2, Advance DEF CloseState, WorkDone, Works
<1> QED BY <1>4, <1>5, <1>6, <1>7

\* Whatever a handler does leaves its session settled, or its next step ready.
LEMMA HandleWorks ==
    ASSUME NEW t \in Threads, Works(t), Handle(t)
    PROVE  WorkDone(t)
BY JoinFindWorks, EndFindWorks, LeaveFindWorks, CallbackFindWorks, FindRecordWorks,
   AcceptWorks, RejectWorks, ClosePeerWorks, SaveRuntimeWorks, SaveRecordWorks,
   SaveStateWorks, TeardownWorks DEF Handle

-----------------------------------------------------------------------------
(* What a step does to the sessions and handlers that have no part in it.  *)

\* The rooms, records and connections of session s stay as they are.
SameRooms(s) ==
    /\ NextRooms(s) = RuntimeRooms(s)
    /\ \A r \in RuntimeRooms(s) : runtime'[r] = runtime[r] /\ records'[r] = records[r]
    /\ conns'[s] = conns[s]

\* The room at hand, and its record, stay as they are.
SameAtHand(u) ==
    pc[u] \in HoldsRoom =>
        /\ records'[held[u].id] = records[held[u].id]
        /\ runtime'[held[u].id] = runtime[held[u].id]

\* A settled session that is left alone stays settled.
LEMMA StaysSettled ==
    ASSUME NEW s \in Sessions, Settled(s), SameRooms(s)
    PROVE  NextSettled(s)
BY DEF Settled, ActiveRecords, InRoom, SameRooms, NextSettled, NextInRoom

\* So does a handler keep what its next step needs.
LEMMA WorkUndisturbed ==
    ASSUME NEW u \in Threads, WorkOK(u), pc'[u] = pc[u], held'[u] = held[u],
           req'[u] = req[u], InSection(u) => SameRooms(req[u].session), SameAtHand(u),
           faults' = 0 => faults = 0
    PROVE  WorkOK(u)'
<1>1. CASE ~InSection(u)
  BY <1>1 DEF InSection, WorkOK
<1>2. CASE InSection(u)
  <2> DEFINE s == req[u].session
  <2>1. /\ NextRooms(s) = RuntimeRooms(s) /\ conns'[s] = conns[s]
        /\ \A r \in RuntimeRooms(s) : runtime'[r] = runtime[r] /\ records'[r] = records[r]
        /\ \A q : NextInRoom(s, q) <=> InRoom(s, q)
    BY <1>2 DEF SameRooms, NextInRoom, InRoom
  <2>2. pc[u] \in HoldsRoom =>
           /\ records'[held[u].id] = records[held[u].id]
           /\ runtime'[held[u].id] = runtime[held[u].id]
    BY DEF SameAtHand
  <2> QED BY <2>1, <2>2
          DEF WorkOK, HoldsRoom, OneChange, Settled, ActiveRecords, InRoom, NextInRoom,
              RuntimeRooms, NextRooms, Members, Joinable
<1> QED BY <1>1, <1>2

\* Under its lock, a handler leaves the other sessions and their handlers alone.
LEMMA HandleSpares ==
    ASSUME ServiceInvariant, RecordsKeepSession, NEW t \in Threads, Handle(t)
    PROVE  /\ \A s \in Sessions : s # req[t].session => SameRooms(s)
           /\ \A u \in Threads : u # t =>
                 /\ pc'[u] = pc[u] /\ held'[u] = held[u] /\ req'[u] = req[u]
                 /\ InSection(u) => SameRooms(req[u].session)
                 /\ SameAtHand(u)
           /\ faults' = 0 => faults = 0
<1>1. \A s \in Sessions : s # req[t].session => SameRooms(s)
  BY OtherSessions DEF SameRooms, SameSession
<1>2. InSection(t) /\ WritesOnly(t) /\ faults \in Nat /\ t \in Procs
  BY HandleMoves, HandleWrites DEF ServiceInvariant, TypeOK, DataTypes, Procs
<1>3. pc[t] \in HoldsRoom => OwnRecord(held[t]) /\ held[t].session = req[t].session
  BY <1>2, Serving DEF RecordsKeepSession
<1>4. ASSUME NEW u \in Threads, u # t
      PROVE  /\ pc'[u] = pc[u] /\ held'[u] = held[u] /\ req'[u] = req[u]
             /\ InSection(u) => SameRooms(req[u].session)
             /\ SameAtHand(u)
  <2>1. /\ pc'[u] = pc[u] /\ held'[u] = held[u] /\ req'[u] = req[u]
        /\ InSection(u) => req[u].session \in Sessions /\ req[u].session # req[t].session
    BY <1>4, OtherHandlers
  <2>2. ASSUME pc[u] \in HoldsRoom
        PROVE  held[u].id \in RoomIds /\ (pc[t] \in HoldsRoom => held[u].id # held[t].id)
    <3>1. InSection(u) /\ u \in Procs
      BY <2>2 DEF InSection, HoldsRoom, Procs
    <3>2. /\ held[u].id \in RoomIds /\ held[u].session = req[u].session
          /\ OwnRecord(held[u])
      BY <2>2, <3>1, Serving DEF RecordsKeepSession
    <3> QED BY <1>3, <2>1, <3>1, <3>2 DEF OwnRecord
  <2>3. SameAtHand(u)
    BY <1>2, <2>2 DEF SameAtHand, WritesOnly, HoldsRoom
  <2> QED BY <1>1, <2>1, <2>3
<1>5. faults' = 0 => faults = 0
  BY <1>2 DEF WritesOnly
<1> QED BY <1>1, <1>4, <1>5

\* A bystander changes records only by creating one.
LEMMA BystanderSpares ==
    ASSUME ServiceInvariant, RecordsKeepSession, Bystander
    PROVE  /\ \A s \in Sessions : SameRooms(s)
           /\ \A u \in Threads : SameAtHand(u)
           /\ faults' = 0 => faults = 0
<1>1. UNCHANGED <<runtime, conns, lock, pc, req, held, todo>> /\ DataTypes
  BY BystanderMoves DEF ServiceInvariant, TypeOK
<1>2. ASSUME NEW r \in RoomIds, records[r] # Null
      PROVE  records'[r] = records[r]
  <2>1. ASSUME NEW q \in RoomIds, NEW s \in Sessions, CreateSession(q, s)
        PROVE  records'[r] = records[r]
    <3>1. records[q] = Null /\ NewRoom(q, s, clock).id = q
      BY <2>1 DEF CreateSession, NewRoom
    <3> QED BY <1>1, <1>2, <2>1, <3>1 DEF CreateSession, WriteRecord, DataTypes
  <2>2. CASE \/ MediaStep \/ BeginStop \/ FinishStop \/ Tick \/ UNCHANGED vars
             \/ \E s \in Sessions : ExpireState(s)
    BY <2>2 DEF MediaStep, PeerChange, TrackStart, RelayEnd, BeginStop, FinishStop, Tick,
       ExpireState, vars, store
  <2> QED BY <2>1, <2>2 DEF Bystander
<1>3. faults' = 0 => faults = 0
  BY <1>1 DEF Bystander, CreateSession, WriteRecord, CallFails, MediaStep,
     PeerChange, TrackStart, RelayEnd, BeginStop, FinishStop, Tick, ExpireState, vars,
     DataTypes
<1>4. \A s \in Sessions : SameRooms(s)
  BY <1>1, <1>2
     DEF SameRooms, NextRooms, RuntimeRooms, RecordsKeepSession, OwnRecord, ServiceInvariant
<1>5. \A u \in Threads : SameAtHand(u)
  <2> SUFFICES ASSUME NEW u \in Threads, pc[u] \in HoldsRoom
               PROVE  held[u].id \in RoomIds /\ records[held[u].id] # Null
    BY <1>1, <1>2 DEF SameAtHand
  <2>1. InSection(u) /\ u \in Procs
    BY DEF InSection, HoldsRoom, Procs
  <2> QED BY <2>1, Serving DEF RecordsKeepSession, OwnRecord
<1> QED BY <1>3, <1>4, <1>5

\* Without an idle timeout the janitor never starts.
LEMMA NoJanitorStep ==
    ASSUME NoCleanup, NoJanitor
    PROVE  ~JanitorStep
BY DEF NoCleanup, NoJanitor, JanitorStep, CleanupIdleRooms, ShutdownActiveRooms,
       CleanupEnabled, JanitorCloseMedia, DeleteRuntime, CloseRecord, JanitorCloseState

\* Whatever handlers, callbacks, failing calls and crashes do keeps every quiet
\* session settled and every handler's work in order.
LEMMA NextWorks ==
    ServiceInvariant /\ RecordsKeepSession /\ WorkInvariant /\ [Next]_vars => WorkInvariant'
<1> SUFFICES ASSUME ServiceInvariant, RecordsKeepSession, WorkInvariant, [Next]_vars
             PROVE  /\ NoJanitor'
                    /\ \A s \in Sessions : lock'[s] = Null => NextSettled(s)
                    /\ \A u \in Threads : WorkOK(u)'
  BY DEF WorkInvariant, NoCleanup, Quiet, Settled, ActiveRecords, InRoom, RuntimeRooms,
         NextSettled, NextInRoom, NextRooms
<1>1. /\ NoCleanup /\ NoJanitor /\ DataTypes /\ ControlTypes
      /\ \A s \in Sessions : lock[s] = Null => Settled(s)
      /\ \A u \in Threads : WorkOK(u)
  BY DEF WorkInvariant, ServiceInvariant, TypeOK, Quiet
<1>2. \A u \in Threads : InSection(u) => req[u].session \in Sessions
  BY Serving
<1>3. ASSUME NEW t \in Threads, Handle(t)
      PROVE  /\ NoJanitor'
             /\ \A s \in Sessions : lock'[s] = Null => NextSettled(s)
             /\ \A u \in Threads : WorkOK(u)'
  <2>1. InSection(t) /\ MovesOnly(t) /\ WorkDone(t)
    BY <1>1, <1>3, HandleMoves, HandleWorks DEF Works
  <2>2. NoJanitor'
    BY <1>1, <2>1, ConstantsAssumption DEF MovesOnly, NoJanitor, Procs
  <2>3. ASSUME NEW s \in Sessions, s # req[t].session, lock'[s] = Null
        PROVE  NextSettled(s)
    BY <1>1, <1>3, <2>1, <2>3, HandleSpares, StaysSettled DEF MovesOnly
  <2>4. ASSUME NEW u \in Threads, u # t
        PROVE  WorkOK(u)'
    BY <1>1, <1>3, <2>4, HandleSpares, WorkUndisturbed
  <2>5. CASE pc'[t] = "idle"
    BY <2>1, <2>2, <2>3, <2>4, <2>5 DEF WorkDone, WorkOK
  <2>6. CASE pc'[t] # "idle"
    <3>1. lock'[req[t].session] = t /\ t # Null
      BY <1>3, <2>6, HandleMoves, Advance, NullAssumption
    <3> QED BY <2>1, <2>2, <2>3, <2>4, <2>6, <3>1 DEF WorkDone
  <2> QED BY <2>5, <2>6
<1>4. CASE JanitorStep
  BY <1>1, <1>4, NoJanitorStep
<1>5. CASE Restart
  <2>1. \A s \in Sessions : NextRooms(s) = {} /\ \A q \in Participants : conns'[s][q] = Null
    BY <1>5 DEF Restart, NextRooms
  <2>2. \A u \in Procs : pc'[u] = "idle"
    BY <1>5 DEF Restart
  <2> QED BY <1>5, <2>1, <2>2 DEF Restart, NoJanitor, NextSettled, WorkOK, Procs
<1>6. ASSUME NEW t \in Threads, Begin(t) \/ LockSession(t)
      PROVE  /\ NoJanitor'
             /\ \A s \in Sessions : lock'[s] = Null => NextSettled(s)
             /\ \A u \in Threads : WorkOK(u)'
  <2>1. /\ UNCHANGED <<runtime, records, conns, held, todo, faults>>
        /\ pc'[t] \in {"lock", "find"}
        /\ \A u \in Procs \ {t} : pc'[u] = pc[u]
        /\ \A u \in Threads \ {t} : req'[u] = req[u]
    BY <1>6, BeginMoves DEF store
  <2>2. NoJanitor'
    BY <1>1, <2>1, ConstantsAssumption DEF NoJanitor, Procs
  <2>3. \A s \in Sessions : lock'[s] = Null => lock[s] = Null
    BY <1>1, <1>6, NullAssumption DEF Begin, Request, ReceiveRequest, ReceiveCallback,
       LockSession, ControlTypes
  <2>4. \A s \in Sessions : lock'[s] = Null => NextSettled(s)
    BY <1>1, <2>1, <2>3, Unmoved
  <2>5. (\A s : SameRooms(s)) /\ \A u \in Threads : SameAtHand(u)
    BY <2>1 DEF SameRooms, SameAtHand, NextRooms, RuntimeRooms
  <2>6. ASSUME NEW u \in Threads, u # t PROVE WorkOK(u)'
    BY <1>1, <2>1, <2>5, <2>6, WorkUndisturbed DEF Procs
  <2>7. WorkOK(t)'
    <3>1. CASE pc'[t] = "lock"
      BY <3>1 DEF WorkOK
    <3>2. CASE pc'[t] = "find"
      <4>1. LockSession(t)
        BY <1>1, <1>6, <3>2 DEF Begin, Request, ReceiveRequest, ReceiveCallback,
           ControlTypes, Procs
      <4>2. pc[t] = "lock" /\ lock[req[t].session] = Null /\ req' = req
        BY <4>1 DEF LockSession
      <4>3. req[t].session \in Sessions
        BY <4>2, ServedType DEF ServiceInvariant, HandlerOK, TypeOK, ControlTypes
      <4>4. Settled(req[t].session)
        BY <1>1, <4>2, <4>3
      <4> QED BY <2>1, <3>2, <4>2, <4>4
              DEF WorkOK, Settled, ActiveRecords, InRoom, RuntimeRooms, Members
    <3> QED BY <2>1, <3>1, <3>2
  <2> QED BY <2>2, <2>4, <2>6, <2>7
<1>7. CASE Bystander
  <2>1. UNCHANGED <<runtime, conns, lock, pc, req, held, todo>>
    BY <1>7, BystanderMoves
  <2>2. \A s \in Sessions : lock'[s] = Null => NextSettled(s)
    BY <1>1, <1>7, <2>1, BystanderSpares, StaysSettled
  <2>3. \A u \in Threads : WorkOK(u)'
    BY <1>1, <1>2, <1>7, <2>1, BystanderSpares, WorkUndisturbed
  <2> QED BY <1>1, <2>1, <2>2, <2>3 DEF NoJanitor
<1> QED BY <1>3, <1>4, <1>5, <1>6, <1>7, StepKinds

-----------------------------------------------------------------------------
(* The quiet states.                                                       *)

\* The service starts with nothing to do.
LEMMA InitWorks == NoCleanup /\ Init => WorkInvariant
BY DEF Init, WorkInvariant, NoJanitor, Settled, ActiveRecords, InRoom, RuntimeRooms,
       WorkOK, Procs

\* With no idle timeout: the work of every handler is in order.
LEMMA WorkHolds == NoCleanup /\ Spec => []WorkInvariant
BY InitWorks, NextWorks, ServiceInvariantHolds, RecordsTheorem, PTL DEF Spec

\* With no janitor beside the handlers, the record of a runtime room is active
\* whenever no handler is at work on its session, whichever save of whichever
\* handler failed and whenever the process crashed.
THEOREM ActiveRecordTheorem == NoCleanup /\ Spec => []RuntimeHasActiveRecord
<1>1. ServiceInvariant /\ RecordsKeepSession /\ WorkInvariant => RuntimeHasActiveRecord
  BY DEF ServiceInvariant, TypeOK, DataTypes, RecordsKeepSession, OwnRecord, WorkInvariant,
         Settled, ActiveRecords, RuntimeHasActiveRecord, RuntimeRooms, Rooms
<1> QED BY <1>1, WorkHolds, ServiceInvariantHolds, RecordsTheorem, PTL

\* Nor does any handler that returned leave a connection registered for
\* somebody who is not in the room: not a rejected join, nor a leave whose
\* Close or whose save failed, nor the end of a session.
THEOREM RegisteredTheorem == NoCleanup /\ Spec => []RegisteredAreMembers
<1>1. WorkInvariant => RegisteredAreMembers
  BY DEF WorkInvariant, Settled, InRoom, RegisteredAreMembers, Registered
<1> QED BY <1>1, WorkHolds, PTL

-----------------------------------------------------------------------------
(* Ends are final.                                                         *)

\* A record of this status is terminal after the step if it was before.
StaysTerminal ==
    \A r \in RoomIds :
        records[r] # Null /\ Terminal(records[r].status) => Terminal(records'[r].status)

\* The live state that this room is shown as.
Shown(room) == [view |-> Project(room), savedAt |-> clock]

\* A handler writes the live state of its session only, as that of its room.
LEMMA HandleShows ==
    ASSUME ServiceInvariant, NEW t \in Threads, Handle(t), NEW s \in Sessions
    PROVE  \/ states'[s] = states[s]
           \/ /\ s = req[t].session /\ states'[s] = Shown(held[t])
              /\ pc[t] \in {"saveState", "closeState"}
<1>1. InSection(t) /\ DataTypes
  BY HandleMoves DEF ServiceInvariant, TypeOK
<1>2. CASE SaveState(t) \/ CloseState(t)
  <2>1. pc[t] \in {"saveState", "closeState"} /\ held[t].session = req[t].session
    BY <1>1, <1>2, Serving DEF SaveState, CloseState, HoldsRoom
  <2>2. states' = states \/ states' = [states EXCEPT ![held[t].session] = Shown(held[t])]
    BY <1>2 DEF SaveState, CloseState, WriteState, Shown
  <2> QED BY <1>1, <2>1, <2>2 DEF DataTypes
<1>3. CASE ~(SaveState(t) \/ CloseState(t))
  BY <1>3 DEF Handle, JoinFind, EndFind, LeaveFind, ConnectionFind, TrackFind, FindRecord,
     AcceptParticipant, RejectPeer, ClosePeer, SaveRuntime, SaveRecord, CloseMedia,
     DeleteRuntime, CloseRecord, store
<1> QED BY <1>2, <1>3

\* With no idle timeout only handlers write the live state.
LEMMA OnlyHandlersShow ==
    ASSUME WorkInvariant, [Next]_vars, ~ \E t \in Threads : Handle(t)
    PROVE  states' = states
<1>1. NoCleanup /\ ~JanitorStep
  BY NoJanitorStep DEF WorkInvariant
<1>2. CASE \E t \in Threads : Begin(t) \/ LockSession(t)
  BY <1>2 DEF Begin, Request, ReceiveRequest, ReceiveCallback, LockSession, store
<1>3. CASE Restart \/ Bystander
  BY <1>1, <1>3 DEF Restart, Bystander, CreateSession, MediaStep, PeerChange, TrackStart,
     RelayEnd, BeginStop, FinishStop, Tick, ExpireState, NoCleanup, vars, store
<1> QED BY <1>1, <1>2, <1>3, StepKinds

\* No step makes a terminal record joinable.
LEMMA NextStaysTerminal ==
    ServiceInvariant /\ RecordsKeepSession /\ WorkInvariant /\ [Next]_vars => StaysTerminal
<1> SUFFICES ASSUME ServiceInvariant, RecordsKeepSession, WorkInvariant, [Next]_vars,
                    NEW r \in RoomIds, records[r] # Null, Terminal(records[r].status)
             PROVE  Terminal(records'[r].status)
  BY DEF StaysTerminal
<1>1. ASSUME NEW t \in Threads, Handle(t)
      PROVE  Terminal(records'[r].status)
  <2>1. WorkOK(t) /\ WritesOnly(t) /\ (records'[r] # records[r] => r = held[t].id)
    BY <1>1, HandleWrites DEF WorkInvariant, WritesOnly
  <2>2. pc[t] = "saveRecord" => records'[r] = records[r]
    BY <2>1 DEF WorkOK, Joinable, Terminal
  <2>3. pc[t] = "closeRecord" => Terminal(Record(held[t]).status)
    BY <2>1 DEF WorkOK, Record
  <2> QED BY <2>1, <2>2, <2>3 DEF WritesOnly
<1>2. CASE \E t \in Threads : Begin(t) \/ LockSession(t)
  BY <1>2 DEF Begin, Request, ReceiveRequest, ReceiveCallback, LockSession, store
<1>3. ASSUME NEW q \in RoomIds, NEW s \in Sessions, CreateSession(q, s)
      PROVE  Terminal(records'[r].status)
  <2>1. records[q] = Null /\ NewRoom(q, s, clock).id = q
    BY <1>3 DEF CreateSession, NewRoom
  <2>2. records'[r] = records[r]
    BY <1>3, <2>1 DEF CreateSession, WriteRecord, ServiceInvariant, TypeOK, DataTypes
  <2> QED BY <2>2
<1>4. CASE Restart \/ \/ MediaStep \/ BeginStop \/ FinishStop \/ Tick \/ UNCHANGED vars
                      \/ \E s \in Sessions : ExpireState(s)
  BY <1>4 DEF Restart, MediaStep, PeerChange, TrackStart, RelayEnd, BeginStop, FinishStop,
     Tick, ExpireState, vars, store
<1>5. ~JanitorStep
  BY NoJanitorStep DEF WorkInvariant
<1> QED BY <1>1, <1>2, <1>3, <1>4, <1>5, StepKinds DEF Bystander

\* A session record that is closed or failed never becomes joinable again,
\* whatever copy of its room a handler still has.
THEOREM TerminalStickyTheorem == NoCleanup /\ Spec => TerminalSticky
<1>1. ServiceInvariant /\ RecordsKeepSession /\ WorkInvariant /\ [Next]_vars
         => [StaysTerminal]_vars
  BY NextStaysTerminal
<1> QED BY <1>1, WorkHolds, ServiceInvariantHolds, RecordsTheorem, PTL
        DEF Spec, TerminalSticky, StaysTerminal

\* The room of a live state that shows an end has a terminal record.
EndRecorded(s) ==
    states[s] # Null /\ Terminal(states[s].view.status) =>
        LET r == states[s].view.id IN
        r \in RoomIds /\ records[r] # Null /\ Terminal(records[r].status)

EndInvariant == faults = 0 => \A s \in Sessions : EndRecorded(s)

\* A live state shows the id and the status of the room it was saved from.
LEMMA ShownRoom ==
    ASSUME NEW room
    PROVE  Shown(room).view.id = room.id /\ Shown(room).view.status = room.status
BY DEF Shown, Project

\* A teardown writes the record before the live state.
LEMMA NextEnds ==
    ServiceInvariant /\ RecordsKeepSession /\ WorkInvariant /\ EndInvariant /\ [Next]_vars
        => EndInvariant'
<1> SUFFICES ASSUME ServiceInvariant, RecordsKeepSession, WorkInvariant, EndInvariant,
                    [Next]_vars, faults' = 0, NEW s \in Sessions,
                    states'[s] # Null, Terminal(states'[s].view.status)
             PROVE  LET r == states'[s].view.id IN
                    r \in RoomIds /\ records'[r] # Null /\ Terminal(records'[r].status)
  BY DEF EndInvariant, EndRecorded
<1>1. RecordsStay /\ StaysTerminal
  BY StepRecordsStay, NextStaysTerminal
<1>2. CASE faults = 0 /\ states'[s] = states[s]
  BY <1>1, <1>2 DEF EndInvariant, EndRecorded, RecordsStay, StaysTerminal
<1>3. ASSUME NEW t \in Threads, Handle(t)
      PROVE  LET r == states'[s].view.id IN
             r \in RoomIds /\ records'[r] # Null /\ Terminal(records'[r].status)
  <2>1. faults = 0 /\ InSection(t) /\ WorkOK(t)
    BY <1>3, HandleSpares, HandleMoves DEF WorkInvariant
  <2>2. CASE states'[s] = states[s]
    BY <1>2, <2>1, <2>2
  <2>3. CASE states'[s] = Shown(held[t]) /\ pc[t] \in {"saveState", "closeState"}
    <3>1. held[t].status = "active" => ~Terminal(held[t].status)
      BY DEF Terminal
    <3>2. pc[t] = "closeState" /\ states'[s].view.id = held[t].id
      BY <2>1, <2>3, <3>1, Serving, ShownRoom DEF WritesActive
    <3>3. held[t].id \in RoomIds /\ records[held[t].id] # Null
      BY <2>1, <3>2, Serving DEF RecordsKeepSession, OwnRecord, HoldsRoom, Procs
    <3>4. Terminal(records[held[t].id].status)
      BY <2>1, <3>2 DEF WorkOK
    <3> QED BY <1>1, <3>2, <3>3, <3>4 DEF RecordsStay, StaysTerminal
  <2> QED BY <1>3, <2>2, <2>3, HandleShows
<1>4. CASE ~ \E t \in Threads : Handle(t)
  <2>1. states' = states /\ ~JanitorStep
    BY <1>4, OnlyHandlersShow, NoJanitorStep DEF WorkInvariant
  <2>2. faults = 0
    BY <1>4, <2>1, StepKinds, BeginMoves, BystanderSpares DEF Restart
  <2> QED BY <1>2, <2>1, <2>2
<1> QED BY <1>3, <1>4

\* A client that has seen a room end never sees this very room come back, as
\* long as no call fails: crashes, late callbacks and joins on the way do not
\* undo an end that was shown.
THEOREM ShownEndTheorem == NoCleanup /\ Spec => ShownEndIsFinal
<1> DEFINE Final ==
      \A s \in Sessions :
          faults = 0 /\ GetSessionStatus(s) # Null /\ Terminal(GetSessionStatus(s).status)
          /\ GetSessionStatus(s)' # Null
          /\ GetSessionStatus(s)'.id = GetSessionStatus(s).id
          => Terminal(GetSessionStatus(s)'.status)
<1>1. Init => EndInvariant
  BY DEF Init, EndInvariant, EndRecorded
<1>2. ServiceInvariant /\ RecordsKeepSession /\ WorkInvariant /\ EndInvariant /\ [Next]_vars
         => Final
  <2> SUFFICES ASSUME ServiceInvariant, RecordsKeepSession, WorkInvariant, EndInvariant,
                      [Next]_vars, NEW s \in Sessions, faults = 0, states[s] # Null,
                      Terminal(states[s].view.status), states'[s] # Null,
                      states'[s].view.id = states[s].view.id
               PROVE  Terminal(states'[s].view.status)
    BY DEF GetSessionStatus
  <2>1. Terminal(records[states[s].view.id].status)
    BY DEF EndInvariant, EndRecorded
  <2>2. ASSUME NEW t \in Threads, Handle(t)
        PROVE  Terminal(states'[s].view.status)
    <3>1. WorkOK(t)
      BY DEF WorkInvariant
    <3>2. CASE states'[s] = Shown(held[t]) /\ pc[t] \in {"saveState", "closeState"}
      <4>1. pc[t] = "closeState"
        BY <2>1, <3>1, <3>2, ShownRoom DEF WorkOK, Joinable, Terminal
      <4> QED BY <3>1, <3>2, <4>1, ShownRoom DEF WorkOK
    <3> QED BY <2>2, <3>2, HandleShows
  <2>3. CASE ~ \E t \in Threads : Handle(t)
    BY <2>3, OnlyHandlersShow
  <2> QED BY <2>2, <2>3
<1>3. ServiceInvariant /\ RecordsKeepSession /\ WorkInvariant /\ EndInvariant /\ [Next]_vars
         => [Final]_vars
  BY <1>2
<1> QED BY <1>1, <1>3, NextEnds, WorkHolds, ServiceInvariantHolds, RecordsTheorem, PTL
        DEF Spec, ShownEndIsFinal

-----------------------------------------------------------------------------
(* The refinement of SessionContract.                                      *)

\* What the contract sees of a session with one room, or with none,
LEMMA Sees ==
    ASSUME NEW s
    PROVE  /\ RuntimeRooms(s) = {} => OpenRoom(s) = Null /\ OpenMembers(s) = {}
           /\ \A r \in RoomIds : RuntimeRooms(s) = {r} =>
                 OpenRoom(s) = r /\ OpenMembers(s) = Members(runtime[r])
<1>1. RuntimeRooms(s) = {} => OpenRoom(s) = Null /\ OpenMembers(s) = {}
  BY DEF OpenRoom, OpenMembers
<1>2. ASSUME NEW r \in RoomIds, RuntimeRooms(s) = {r}
      PROVE  OpenRoom(s) = r /\ OpenMembers(s) = Members(runtime[r])
  <2>1. OpenMembers(s) = Members(runtime[r])
    BY <1>2 DEF OpenMembers
  <2>2. \A x \in RoomIds : RuntimeRooms(s) = {x} <=> x = r
    BY <1>2
  <2>3. OpenRoom(s) = CHOOSE x \in RoomIds : RuntimeRooms(s) = {x}
    BY <1>2 DEF OpenRoom
  <2> QED BY <2>1, <2>2, <2>3
<1> QED BY <1>1, <1>2

\* and of it after a step.
LEMMA NextSees ==
    ASSUME NEW s
    PROVE  /\ NextRooms(s) = {} => OpenRoom(s)' = Null /\ OpenMembers(s)' = {}
           /\ \A r \in RoomIds : NextRooms(s) = {r} =>
                 OpenRoom(s)' = r /\ OpenMembers(s)' = Members(runtime'[r])
<1>1. NextRooms(s) = {} => OpenRoom(s)' = Null /\ OpenMembers(s)' = {}
  BY DEF OpenRoom, OpenMembers, RuntimeRooms, NextRooms
<1>2. ASSUME NEW r \in RoomIds, NextRooms(s) = {r}
      PROVE  OpenRoom(s)' = r /\ OpenMembers(s)' = Members(runtime'[r])
  <2>0. RuntimeRooms(s)' = {r}
    BY <1>2 DEF RuntimeRooms, NextRooms
  <2>1. OpenMembers(s)' = Members(runtime'[r])
    BY <2>0 DEF OpenMembers, Members
  <2>2. \A x \in RoomIds : RuntimeRooms(s)' = {x} <=> x = r
    BY <2>0
  <2>3. OpenRoom(s)' = CHOOSE x \in RoomIds : RuntimeRooms(s)' = {x}
    BY <2>0 DEF OpenRoom
  <2> QED BY <2>1, <2>2, <2>3
<1> QED BY <1>1, <1>2

\* A session whose rooms stay as they are looks the same to the contract.
LEMMA SeesNothing ==
    ASSUME ServiceInvariant, NEW s \in Sessions,
           NextRooms(s) = RuntimeRooms(s),
           \A r \in RuntimeRooms(s) : runtime'[r] = runtime[r]
    PROVE  OpenRoom(s)' = OpenRoom(s) /\ OpenMembers(s)' = OpenMembers(s)
<1>1. CASE RuntimeRooms(s) = {}
  BY <1>1, Sees, NextSees
<1>2. ASSUME NEW r \in RuntimeRooms(s)
      PROVE  OpenRoom(s)' = OpenRoom(s) /\ OpenMembers(s)' = OpenMembers(s)
  <2>1. r \in RoomIds /\ RuntimeRooms(s) = {r} /\ runtime'[r] = runtime[r]
    BY <1>2, FoundRoom
  <2> QED BY <2>1, Sees, NextSees
<1> QED BY <1>1, <1>2

\* What the contract's variables stand for.
OpenOf == [s \in Sessions |-> OpenRoom(s)]
MembersOf == [s \in Sessions |-> OpenMembers(s)]

\* A step that shows at most in session s is the contract's step on it.
SeesOnly(s) ==
    \A x \in Sessions \ {s} :
        OpenRoom(x)' = OpenRoom(x) /\ OpenMembers(x)' = OpenMembers(x)

\* The first save of a handler opens the room, or adds or removes the one
\* participant of the request.
LEMMA SaveRuntimeRefines ==
    ASSUME NEW t \in Threads, Works(t), SaveRuntime(t),
           NEW s \in Sessions, s = req[t].session, SeesOnly(s)
    PROVE  \/ Contract!Next
           \/ UNCHANGED <<OpenOf, MembersOf>>
<1> DEFINE p == req[t].part
           room == held[t]
<1>1. pc[t] = "saveRuntime" /\ OneChange(t) /\ runtime' = [runtime EXCEPT ![room.id] = room]
  BY DEF SaveRuntime, Works, WorkOK
<1>2. /\ room \in Rooms /\ room.id \in RoomIds /\ RuntimeRooms(s) \subseteq {room.id}
      /\ room.session = s /\ s \in Sessions /\ DataTypes
  BY <1>1, Working DEF HoldsRoom
<1>3. runtime'[room.id] = room /\ NextRooms(s) = {room.id}
  <2>1. room # Null
    BY <1>2, NullAssumption
  <2> QED BY <1>1, <1>2, <2>1 DEF NextRooms, RuntimeRooms, DataTypes
<1>4. OpenRoom(s)' = room.id /\ OpenMembers(s)' = Members(room) /\ room.id # Null
  BY <1>2, <1>3, NextSees, NullAssumption
<1>5. \/ RuntimeRooms(s) = {} /\ OpenRoom(s) = Null /\ OpenMembers(s) = {}
      \/ RuntimeRooms(s) = {room.id} /\ OpenRoom(s) = room.id
  BY <1>2, Sees
<1>6. \A q \in Participants : InRoom(s, q) <=> q \in OpenMembers(s)
  BY DEF InRoom, OpenMembers
<1>7. OpenMembers(s) \subseteq Participants /\ Members(room) \subseteq Participants
  BY DEF OpenMembers, Members
<1>8. CASE req[t].kind = "join"
  <2>1. p \in Participants /\ p \notin OpenMembers(s) /\ OpenMembers(s)' = OpenMembers(s) \cup {p}
    BY <1>1, <1>4, <1>6, <1>7, <1>8 DEF OneChange
  <2>2. CASE OpenRoom(s) = Null /\ OpenMembers(s) = {}
    <3>1. Contract!Open(s, room.id, p)
      BY <1>2, <1>4, <2>1, <2>2 DEF Contract!Open, SeesOnly
    <3> QED BY <1>2, <2>1, <3>1 DEF Contract!Next
  <2>3. CASE OpenRoom(s) = room.id
    <3>1. Contract!Join(s, p)
      BY <1>2, <1>4, <2>1, <2>3 DEF Contract!Join, SeesOnly
    <3> QED BY <1>2, <2>1, <3>1 DEF Contract!Next
  <2> QED BY <1>5, <2>2, <2>3
<1>9. CASE req[t].kind = "leave"
  <2>1. /\ p \in Participants /\ p \in OpenMembers(s) /\ p \notin Agents
        /\ OpenMembers(s)' = OpenMembers(s) \ {p}
    BY <1>1, <1>4, <1>6, <1>7, <1>9 DEF OneChange
  <2>2. OpenRoom(s) = room.id
    BY <1>5, <2>1
  <2>3. Contract!Leave(s, p)
    BY <1>2, <1>4, <2>1, <2>2 DEF Contract!Leave, SeesOnly
  <2> QED BY <1>2, <2>1, <2>3 DEF Contract!Next
<1>10. CASE req[t].kind \in {"connection", "track"}
  <2>1. /\ RuntimeRooms(s) # {}
        /\ \A q \in Participants : q \in Members(room) <=> q \in OpenMembers(s)
    BY <1>1, <1>6, <1>10 DEF OneChange
  <2>2. OpenRoom(s)' = OpenRoom(s)
    BY <1>4, <1>5, <2>1
  <2>3. OpenMembers(s)' = OpenMembers(s)
    BY <1>4, <1>7, <2>1
  <2> QED BY <2>2, <2>3 DEF SeesOnly, OpenOf, MembersOf
<1> QED BY <1>1, <1>8, <1>9, <1>10 DEF OneChange

\* The third write of a teardown finishes the room, if there is one.
LEMMA DeleteRuntimeRefines ==
    ASSUME NEW t \in Threads, Works(t), DeleteRuntime(t),
           NEW s \in Sessions, s = req[t].session, SeesOnly(s)
    PROVE  \/ Contract!Next
           \/ UNCHANGED <<OpenOf, MembersOf>>
<1>1. pc[t] = "delete" /\ runtime' = [runtime EXCEPT ![held[t].id] = Null]
  BY DEF DeleteRuntime
<1>2. /\ RuntimeRooms(s) \subseteq {held[t].id} /\ held[t].id \in RoomIds
      /\ s \in Sessions /\ DataTypes
  BY <1>1, Working DEF HoldsRoom
<1>3. NextRooms(s) = {}
  BY <1>1, <1>2 DEF NextRooms, RuntimeRooms, DataTypes
<1>4. OpenRoom(s)' = Null /\ OpenMembers(s)' = {}
  BY <1>3, NextSees
<1>5. CASE RuntimeRooms(s) = {}
  <2>1. OpenRoom(s)' = OpenRoom(s) /\ OpenMembers(s)' = OpenMembers(s)
    BY <1>4, <1>5, Sees
  <2> QED BY <2>1 DEF SeesOnly, OpenOf, MembersOf
<1>6. CASE RuntimeRooms(s) = {held[t].id}
  <2>1. OpenRoom(s) # Null
    BY <1>2, <1>6, Sees, NullAssumption
  <2>2. Contract!Finish(s)
    BY <1>2, <1>4, <2>1 DEF Contract!Finish, SeesOnly
  <2> QED BY <1>2, <2>2 DEF Contract!Next
<1> QED BY <1>2, <1>5, <1>6

\* A step that leaves the runtime rooms alone is a stutter of the contract.
LEMMA RuntimeStutters ==
    ASSUME runtime' = runtime
    PROVE  UNCHANGED <<OpenOf, MembersOf>>
BY DEF OpenOf, MembersOf, OpenRoom, OpenMembers, RuntimeRooms, Members

\* Every step of the service is one of the contract, or a stutter.
LEMMA NextRefines ==
    ServiceInvariant /\ RecordsKeepSession /\ WorkInvariant /\ [Next]_vars
        => Contract!Next \/ UNCHANGED <<OpenOf, MembersOf>>
<1> SUFFICES ASSUME ServiceInvariant, RecordsKeepSession, WorkInvariant, [Next]_vars
             PROVE  Contract!Next \/ UNCHANGED <<OpenOf, MembersOf>>
  OBVIOUS
<1>1. ASSUME NEW t \in Threads, Handle(t)
      PROVE  Contract!Next \/ UNCHANGED <<OpenOf, MembersOf>>
  <2>1. Works(t) /\ req[t].session \in Sessions
    BY <1>1, HandleMoves, Serving DEF WorkInvariant, Works
  <2>2. SeesOnly(req[t].session)
    BY <1>1, HandleSpares, SeesNothing DEF SameRooms, SeesOnly
  <2>3. CASE ~(SaveRuntime(t) \/ DeleteRuntime(t))
    <3>1. runtime' = runtime
      BY <1>1, <2>3 DEF Handle, JoinFind, EndFind, LeaveFind, ConnectionFind, TrackFind,
         FindRecord, AcceptParticipant, RejectPeer, ClosePeer, SaveRecord, SaveState,
         CloseMedia, CloseRecord, CloseState
    <3> QED BY <3>1, RuntimeStutters
  <2> QED BY <2>1, <2>2, <2>3, SaveRuntimeRefines, DeleteRuntimeRefines
<1>2. CASE Restart
  <2>1. \A s \in Sessions : OpenRoom(s)' = Null /\ OpenMembers(s)' = {}
    BY <1>2, NextSees DEF Restart, NextRooms
  <2>2. Contract!Lose
    BY <2>1 DEF Contract!Lose
  <2> QED BY <2>2 DEF Contract!Next
<1>3. ASSUME NEW t \in Threads, Begin(t) \/ LockSession(t)
      PROVE  UNCHANGED <<OpenOf, MembersOf>>
  BY <1>3, BeginMoves, RuntimeStutters
<1>4. CASE Bystander
  BY <1>4, BystanderMoves, RuntimeStutters
<1>5. ~JanitorStep
  BY NoJanitorStep DEF WorkInvariant
<1> QED BY <1>1, <1>2, <1>3, <1>4, <1>5, StepKinds

\* Whatever handlers, callbacks, failing saves and crashes do, the runtime
\* repository shows a session that changes by one member at a time, in one
\* room, until the room ends as a whole: the service implements its contract,
\* and no save of a handler undoes what another one saved.
THEOREM ContractTheorem == NoCleanup /\ Spec => ImplementsContract
<1>1. Init => Contract!Init
  <2> SUFFICES ASSUME Init, NEW s \in Sessions
               PROVE  OpenRoom(s) = Null /\ OpenMembers(s) = {}
    BY DEF Contract!Init
  <2>1. RuntimeRooms(s) = {}
    BY DEF Init, RuntimeRooms
  <2> QED BY <2>1, Sees
<1>2. ServiceInvariant /\ RecordsKeepSession /\ WorkInvariant /\ [Next]_vars
         => [Contract!Next]_Contract!vars
  BY NextRefines DEF Contract!vars, OpenOf, MembersOf
<1> QED BY <1>1, <1>2, WorkHolds, ServiceInvariantHolds, RecordsTheorem, PTL
        DEF Spec, ImplementsContract, Contract!Spec

-----------------------------------------------------------------------------
(* The live state.                                                         *)

\* The live state is that of the room, or of a room that has ended.
Mirrored(s) ==
    /\ \A r \in RuntimeRooms(s) : states[s] # Null /\ states[s].view = Project(runtime[r])
    /\ RuntimeRooms(s) = {} /\ states[s] # Null => Terminal(states[s].view.status)

\* Until its first save a handler finds the live state as the last one left it.
MirrorOK(t) ==
    pc[t] \in {"find", "findRecord", "accept", "rejectPeer", "closePeer", "saveRuntime"}
        => Mirrored(req[t].session)

\* With no crash and no stop, and as long as no call fails.
MirrorInvariant ==
    /\ ~MayCrash /\ ~MayStop /\ phase = "running"
    /\ faults = 0 =>
          /\ \A s \in Sessions : Quiet(s) => Mirrored(s)
          /\ \A t \in Threads : MirrorOK(t)

\* The same of the state after a step.
NextMirrored(s) ==
    /\ \A r \in NextRooms(s) : states'[s] # Null /\ states'[s].view = Project(runtime'[r])
    /\ NextRooms(s) = {} /\ states'[s] # Null => Terminal(states'[s].view.status)

\* A session whose rooms and live state stay as they are stays mirrored.
LEMMA StaysMirrored ==
    ASSUME NEW s \in Sessions, Mirrored(s), states'[s] = states[s],
           NextRooms(s) = RuntimeRooms(s),
           \A r \in RuntimeRooms(s) : runtime'[r] = runtime[r]
    PROVE  NextMirrored(s)
BY DEF Mirrored, NextMirrored

\* A live state that is saved is not Null.
LEMMA ShownType ==
    ASSUME DataTypes, NEW room \in Rooms
    PROVE  Shown(room) # Null
<1>1. Shown(room) \in States
  BY DEF Shown, Project, States, Views, Rooms, DataTypes
<1> QED BY <1>1, NullAssumption

\* A handler whose calls succeed ends with the live state of its room.
LEMMA HandleMirrors ==
    ASSUME NEW t \in Threads, Works(t), Handle(t), MirrorOK(t), faults' = faults
    PROVE  pc'[t] \in {"idle", "find", "findRecord", "accept", "rejectPeer", "closePeer",
                       "saveRuntime"} => NextMirrored(req[t].session)
<1> DEFINE s == req[t].session
           room == held[t]
<1>1. s \in Sessions /\ DataTypes /\ ~CallFails
  BY Working DEF CallFails, DataTypes
<1>2. CASE pc[t] \in {"find", "findRecord", "accept", "rejectPeer", "closePeer"}
  <2>1. UNCHANGED <<runtime, states>>
    BY <1>2 DEF Handle, JoinFind, EndFind, LeaveFind, ConnectionFind, TrackFind, FindRecord,
       AcceptParticipant, RejectPeer, ClosePeer, SaveRuntime, SaveRecord, SaveState,
       CloseMedia, DeleteRuntime, CloseRecord, CloseState, store
  <2>2. Mirrored(s)
    BY <1>2 DEF MirrorOK
  <2>3. NextRooms(s) = RuntimeRooms(s)
    BY <2>1 DEF NextRooms, RuntimeRooms
  <2> QED BY <1>1, <2>1, <2>2, <2>3, StaysMirrored
<1>3. CASE SaveRuntime(t) \/ CloseMedia(t) \/ DeleteRuntime(t) \/ CloseRecord(t)
  BY <1>3, Advance DEF SaveRuntime, CloseMedia, DeleteRuntime, CloseRecord, Works
<1>4. CASE SaveRecord(t)
  BY <1>1, <1>4, Advance DEF SaveRecord, WriteRecord, Works
<1>5. CASE SaveState(t)
  <2>1. /\ pc[t] = "saveState" /\ runtime[room.id] = room /\ UNCHANGED runtime
        /\ states' = [states EXCEPT ![room.session] = Shown(room)]
    BY <1>1, <1>5 DEF SaveState, WriteState, Shown, Works, WorkOK
  <2>2. /\ room \in Rooms /\ room.id \in RoomIds /\ RuntimeRooms(s) \subseteq {room.id}
        /\ room.session = s
    BY <2>1, Working DEF HoldsRoom
  <2>3. NextRooms(s) = {room.id} /\ runtime'[room.id] = room
    BY <2>1, <2>2 DEF NextRooms, RuntimeRooms
  <2>4. states'[s] = Shown(room) /\ Shown(room) # Null /\ Shown(room).view = Project(room)
    BY <1>1, <2>1, <2>2, ShownType DEF DataTypes, Shown
  <2> QED BY <2>3, <2>4 DEF NextMirrored
<1>6. CASE CloseState(t)
  <2>1. /\ pc[t] = "closeState" /\ RuntimeRooms(s) = {} /\ UNCHANGED runtime
        /\ states' = [states EXCEPT ![room.session] = Shown(room)] /\ Terminal(room.status)
    BY <1>1, <1>6 DEF CloseState, WriteState, Shown, Works, WorkOK
  <2>2. room.session = s
    BY <2>1, Working DEF HoldsRoom
  <2>3. NextRooms(s) = {}
    BY <2>1 DEF NextRooms, RuntimeRooms
  <2>4. states'[s] = Shown(room)
    BY <1>1, <2>1, <2>2 DEF DataTypes
  <2> QED BY <2>1, <2>3, <2>4, ShownRoom DEF NextMirrored
<1> QED BY <1>2, <1>3, <1>4, <1>5, <1>6
        DEF Handle, JoinFind, EndFind, LeaveFind, ConnectionFind, TrackFind, FindRecord,
            AcceptParticipant, RejectPeer, ClosePeer

\* A handler that is left alone still finds what the last one left.
LEMMA MirrorUndisturbed ==
    ASSUME NEW u \in Threads, MirrorOK(u), pc'[u] = pc[u], req'[u] = req[u],
           InSection(u) => /\ req[u].session \in Sessions
                           /\ states'[req[u].session] = states[req[u].session]
                           /\ NextRooms(req[u].session) = RuntimeRooms(req[u].session)
                           /\ \A r \in RuntimeRooms(req[u].session) : runtime'[r] = runtime[r]
    PROVE  MirrorOK(u)'
BY DEF MirrorOK, InSection, Mirrored, RuntimeRooms, NextRooms, Project

\* No step of a process that is not stopped leaves a quiet session with a
\* stale live state.
LEMMA NextMirrors ==
    ServiceInvariant /\ RecordsKeepSession /\ WorkInvariant /\ MirrorInvariant /\ [Next]_vars
        => MirrorInvariant'
<1>1. ASSUME MirrorInvariant, [Next]_vars
      PROVE  phase' = "running" /\ ~Restart
  <2>1. phase = "running" /\ ~Restart /\ ~BeginStop /\ ~FinishStop
    BY <1>1 DEF MirrorInvariant, Restart, BeginStop, FinishStop
  <2>2. CASE JanitorStep
    BY <2>1, <2>2 DEF JanitorStep, CleanupIdleRooms, ShutdownActiveRooms, JanitorCloseMedia,
       DeleteRuntime, CloseRecord, JanitorCloseState, env
  <2>3. ASSUME NEW t \in Threads, Begin(t) \/ LockSession(t) PROVE phase' = phase
    BY <2>3 DEF Begin, Request, ReceiveRequest, ReceiveCallback, LockSession, env
  <2>4. ASSUME NEW t \in Threads, Handle(t) PROVE phase' = phase
    BY <2>4 DEF Handle, JoinFind, EndFind, LeaveFind, ConnectionFind, TrackFind, FindRecord,
       AcceptParticipant, RejectPeer, ClosePeer, SaveRuntime, SaveRecord, SaveState,
       CloseMedia, DeleteRuntime, CloseRecord, CloseState, env
  <2>5. CASE Bystander
    BY <2>1, <2>5 DEF Bystander, CreateSession, MediaStep, PeerChange, TrackStart, RelayEnd,
       ExpireState, Tick, vars, env
  <2> QED BY <1>1, <2>1, <2>2, <2>3, <2>4, <2>5, StepKinds
<1> SUFFICES ASSUME ServiceInvariant, RecordsKeepSession, WorkInvariant, MirrorInvariant,
                    [Next]_vars, faults' = 0
             PROVE  /\ \A s \in Sessions : lock'[s] = Null => NextMirrored(s)
                    /\ \A u \in Threads : MirrorOK(u)'
  BY <1>1 DEF MirrorInvariant, Quiet, Mirrored, NextMirrored, RuntimeRooms, NextRooms
<1>2. /\ ControlTypes
      /\ faults = 0 => /\ \A s \in Sessions : lock[s] = Null => Mirrored(s)
                       /\ \A u \in Threads : MirrorOK(u)
  BY DEF MirrorInvariant, ServiceInvariant, TypeOK, Quiet
<1>3. \A u \in Threads : InSection(u) => req[u].session \in Sessions
  BY Serving
<1>4. ASSUME NEW t \in Threads, Handle(t)
      PROVE  /\ \A s \in Sessions : lock'[s] = Null => NextMirrored(s)
             /\ \A u \in Threads : MirrorOK(u)'
  <2>1. /\ InSection(t) /\ MovesOnly(t) /\ Works(t) /\ faults = 0 /\ MirrorOK(t)
    BY <1>2, <1>4, HandleMoves, HandleSpares DEF WorkInvariant, Works
  <2>2. pc'[t] \in {"idle", "find", "findRecord", "accept", "rejectPeer", "closePeer",
                    "saveRuntime"} => NextMirrored(req[t].session)
    BY <1>4, <2>1, HandleMirrors
  <2>3. ASSUME NEW s \in Sessions, s # req[t].session, lock'[s] = Null
        PROVE  NextMirrored(s)
    BY <1>2, <1>4, <2>1, <2>3, OtherSessions, StaysMirrored DEF SameSession
  <2>4. ASSUME NEW u \in Threads, u # t
        PROVE  MirrorOK(u)'
    BY <1>2, <1>4, <2>1, <2>4, OtherHandlers, MirrorUndisturbed DEF SameSession
  <2>5. CASE pc'[t] = "idle"
    BY <2>2, <2>3, <2>4, <2>5 DEF MirrorOK
  <2>6. CASE pc'[t] # "idle"
    <3>1. lock'[req[t].session] = t /\ t # Null /\ req'[t] = req[t]
      BY <1>4, <2>6, HandleMoves, Advance, NullAssumption
    <3>2. MirrorOK(t)'
      BY <2>2, <3>1 DEF MirrorOK, Mirrored, NextMirrored, RuntimeRooms, NextRooms, Project
    <3> QED BY <2>3, <2>4, <3>1, <3>2
  <2> QED BY <2>5, <2>6
<1>5. ASSUME NEW t \in Threads, Begin(t) \/ LockSession(t)
      PROVE  /\ \A s \in Sessions : lock'[s] = Null => NextMirrored(s)
             /\ \A u \in Threads : MirrorOK(u)'
  <2>1. /\ UNCHANGED <<runtime, states, faults>> /\ pc'[t] \in {"lock", "find"}
        /\ \A u \in Procs \ {t} : pc'[u] = pc[u]
        /\ \A u \in Threads \ {t} : req'[u] = req[u]
    BY <1>5, BeginMoves DEF store
  <2>2. \A s : NextRooms(s) = RuntimeRooms(s)
    BY <2>1 DEF NextRooms, RuntimeRooms
  <2>3. \A s \in Sessions : lock'[s] = Null => lock[s] = Null
    BY <1>2, <1>5, NullAssumption DEF Begin, Request, ReceiveRequest, ReceiveCallback,
       LockSession, ControlTypes
  <2>4. \A s \in Sessions : lock'[s] = Null => NextMirrored(s)
    BY <1>2, <2>1, <2>2, <2>3, StaysMirrored
  <2>5. ASSUME NEW u \in Threads, u # t PROVE MirrorOK(u)'
    BY <1>2, <1>3, <2>1, <2>2, <2>5, MirrorUndisturbed DEF Procs
  <2>6. MirrorOK(t)'
    <3>1. CASE pc'[t] = "lock"
      BY <3>1 DEF MirrorOK
    <3>2. CASE pc'[t] = "find"
      <4>1. LockSession(t)
        BY <1>2, <1>5, <3>2 DEF Begin, Request, ReceiveRequest, ReceiveCallback,
           ControlTypes, Procs
      <4>2. pc[t] = "lock" /\ lock[req[t].session] = Null /\ req' = req
        BY <4>1 DEF LockSession
      <4>3. req[t].session \in Sessions
        BY <4>2, ServedType DEF ServiceInvariant, HandlerOK, TypeOK, ControlTypes
      <4>4. Mirrored(req[t].session)
        BY <1>2, <2>1, <4>2, <4>3
      <4> QED BY <2>1, <3>2, <4>2, <4>4 DEF MirrorOK, Mirrored, RuntimeRooms
    <3> QED BY <2>1, <3>1, <3>2
  <2> QED BY <2>4, <2>5, <2>6
<1>6. CASE Bystander
  <2>1. UNCHANGED <<runtime, lock, pc, req>> /\ faults = 0
    BY <1>6, BystanderMoves, BystanderSpares
  <2>2. states' = states
    BY <1>6 DEF Bystander, CreateSession, MediaStep, PeerChange, TrackStart, RelayEnd,
       BeginStop, FinishStop, Tick, ExpireState, WorkInvariant, NoCleanup, vars, store
  <2>3. \A s : NextRooms(s) = RuntimeRooms(s)
    BY <2>1 DEF NextRooms, RuntimeRooms
  <2>4. \A s \in Sessions : lock'[s] = Null => NextMirrored(s)
    BY <1>2, <2>1, <2>2, <2>3, StaysMirrored
  <2>5. \A u \in Threads : MirrorOK(u)'
    BY <1>2, <1>3, <2>1, <2>2, <2>3, MirrorUndisturbed
  <2> QED BY <2>4, <2>5
<1>7. ~JanitorStep
  BY NoJanitorStep DEF WorkInvariant
<1> QED BY <1>1, <1>4, <1>5, <1>6, <1>7, StepKinds

\* In a process that goes on, with no janitor and as long as no call fails,
\* what GetSessionStatus answers between handlers is the runtime room as it is,
\* or a room that has ended: no handler returns with its last save undone.
THEOREM MirrorTheorem ==
    NoCleanup /\ ~MayCrash /\ ~MayStop /\ Spec => []LiveStateMirrorsRoom
<1>1. NoCleanup /\ ~MayCrash /\ ~MayStop /\ Init => MirrorInvariant
  BY DEF Init, MirrorInvariant, Mirrored, MirrorOK, RuntimeRooms, Procs
<1>2. MirrorInvariant => LiveStateMirrorsRoom
  BY DEF MirrorInvariant, Mirrored, LiveStateMirrorsRoom, GetSessionStatus
<1> QED BY <1>1, <1>2, NextMirrors, WorkHolds, ServiceInvariantHolds, RecordsTheorem, PTL
        DEF Spec
=============================================================================
