------------------------ MODULE SessionServiceProofs ------------------------
(***************************************************************************)
(* Proofs about SessionService, for every value of its constants.          *)
(*                                                                         *)
(* ServiceInvariant is inductive.  Its core is HandlerOK: because only the *)
(* holder of a session's lock writes rooms of that session, and because it *)
(* looked the room up under that lock, no second room can appear; the      *)
(* janitor, which takes no lock, only ever removes rooms.                  *)
(***************************************************************************)
EXTENDS SessionService, TLAPS

USE ConstantsAssumption, AgentsAssumption, NullAssumption

-----------------------------------------------------------------------------
(* The operations of a room return rooms.                                  *)

\* Every operation that gives a live room back gives a well-typed room of the
\* same id and session.
LEMMA RoomOpsType ==
    ASSUME NEW room \in Rooms, NEW now \in Nat, NEW p \in Participants
    PROVE  /\ SetUserID(room, now) \in Rooms
           /\ \A b \in BOOLEAN :
                 AddParticipant(room, p, NewParticipant(b), now) \in Rooms
           /\ RemoveParticipant(room, p, now) \in Rooms
           /\ \A st \in ConnectionStates :
                 UpdateParticipantState(room, p, st, now) \in Rooms
           /\ \A st \in TrackStates :
                 UpdateParticipantTrackState(room, p, st, now) \in Rooms
<1> USE DEF Rooms, ParticipantStates, ConnectionStates, TrackStates, RoomStatuses, Absent
<1>1. SetUserID(room, now) \in Rooms
  BY DEF SetUserID
<1>2. ASSUME NEW b \in BOOLEAN
      PROVE  AddParticipant(room, p, NewParticipant(b), now) \in Rooms
  BY DEF AddParticipant, NewParticipant, NewTrack
<1>3. RemoveParticipant(room, p, now) \in Rooms
  BY DEF RemoveParticipant
<1>4. ASSUME NEW st \in ConnectionStates
      PROVE  UpdateParticipantState(room, p, st, now) \in Rooms
  <2> DEFINE q == [room.parts[p] EXCEPT !.state = st]
  <2>1. q \in ParticipantStates
    OBVIOUS
  <2>2. UpdateParticipantState(room, p, st, now) =
          [room EXCEPT !.parts = [room.parts EXCEPT ![p] = q], !.updatedAt = now]
    BY DEF UpdateParticipantState
  <2> HIDE DEF q
  <2> DEFINE parts == [room.parts EXCEPT ![p] = q]
  <2>3. parts \in [Participants -> ParticipantStates]
    BY <2>1
  <2> HIDE DEF parts
  <2> QED BY <2>2, <2>3 DEF parts
<1>5. ASSUME NEW st \in TrackStates
      PROVE  UpdateParticipantTrackState(room, p, st, now) \in Rooms
  <2> DEFINE q == [room.parts[p] EXCEPT !.track = st]
  <2>1. q \in ParticipantStates
    OBVIOUS
  <2>2. UpdateParticipantTrackState(room, p, st, now) =
          [room EXCEPT !.parts = [room.parts EXCEPT ![p] = q], !.updatedAt = now]
    BY DEF UpdateParticipantTrackState
  <2> HIDE DEF q
  <2> DEFINE parts == [room.parts EXCEPT ![p] = q]
  <2>3. parts \in [Participants -> ParticipantStates]
    BY <2>1
  <2> HIDE DEF parts
  <2> QED BY <2>2, <2>3 DEF parts
<1> QED BY <1>1, <1>2, <1>3, <1>4, <1>5

\* Ending a room keeps its identity.
LEMMA EndRoomType ==
    ASSUME NEW room \in Rooms, NEW now \in Nat
    PROVE  /\ Close(room, now) \in Rooms
           /\ Fail(room, now) \in Rooms
           /\ Close(room, now).id = room.id /\ Close(room, now).session = room.session
           /\ Fail(room, now).id = room.id /\ Fail(room, now).session = room.session
<1> USE DEF Rooms, ParticipantStates, ConnectionStates, TrackStates, RoomStatuses, Absent
<1>1. WithAll(room, "closed", "ended") \in [Participants -> ParticipantStates]
  BY DEF WithAll, Members
<1>2. WithAll(room, "failed", "failed") \in [Participants -> ParticipantStates]
  BY DEF WithAll, Members
<1>3. QED BY <1>1, <1>2 DEF Close, Fail

\* A record of the table read back as a room.
LEMMA RuntimeRoomType ==
    ASSUME DataTypes, NEW r \in RoomIds, records[r] # Null, NEW now \in Nat
    PROVE  /\ RuntimeRoom(r, now) \in Rooms
           /\ RuntimeRoom(r, now).id = r
           /\ RuntimeRoom(r, now).session = records[r].session
<1>1. records[r] \in Records
  BY DEF DataTypes
<1>2. [p \in Participants |-> Absent] \in [Participants -> ParticipantStates]
  BY DEF Absent, ParticipantStates
<1> QED BY <1>1, <1>2 DEF RuntimeRoom, NewRoom, Records, Rooms, RoomStatuses

\* What is known of the request a thread serves.
LEMMA ServedType ==
    ASSUME NEW x \in Served
    PROVE  /\ x.session \in Sessions /\ x.now \in Nat
           /\ x.kind \in {"join", "leave", "end", "connection", "track"}
           /\ x.kind \in {"join", "leave"} =>
                 x.part \in Participants /\ x.publish \in BOOLEAN
           /\ x.kind = "connection" =>
                 x.part \in Participants /\ x.state \in ConnectionStates
           /\ x.kind = "track" => x.part \in Participants /\ x.state \in TrackStates
BY DEF Served, Requests

-----------------------------------------------------------------------------
(* Data: each kind of write keeps the types.                               *)

MediaTypes ==
    /\ conns \in [Sessions -> [Participants -> PeerIds \cup {Null}]]
    /\ peers \in [PeerIds -> Peers \cup {Null}]
    /\ callbacks \subseteq Callbacks

\* Closing peers keeps the engine's tables and the pending callbacks typed.
LEMMA ClosePeersType ==
    ASSUME MediaTypes, NEW closing \in SUBSET PeerIds, ClosePeers(closing)
    PROVE  /\ peers' \in [PeerIds -> Peers \cup {Null}]
           /\ callbacks' \subseteq Callbacks
<1>1. peers' \in [PeerIds -> Peers \cup {Null}]
  BY DEF ClosePeers, MediaTypes
<1>2. ASSUME NEW i \in closing, peers[i] # Null
      PROVE  [kind |-> "connection", session |-> peers[i].session,
              part |-> peers[i].part, state |-> "closed"] \in Callbacks
  <2>1. peers[i] \in Peers
    BY <1>2 DEF MediaTypes
  <2> QED BY <2>1 DEF Peers, Callbacks, ConnectionStates
<1> QED BY <1>1, <1>2 DEF ClosePeers, MediaTypes

\* So does closing every registered peer of a session,
LEMMA CloseSessionType ==
    ASSUME MediaTypes, NEW s \in Sessions, CloseSession(s)
    PROVE  MediaTypes'
<1> DEFINE closing == {conns[s][p] : p \in Participants} \ {Null}
<1>1. closing \in SUBSET PeerIds /\ ClosePeers(closing)
  BY DEF MediaTypes, CloseSession
<1>2. conns' \in [Sessions -> [Participants -> PeerIds \cup {Null}]]
  BY DEF MediaTypes, CloseSession
<1> HIDE DEF closing
<1> QED BY <1>1, <1>2, ClosePeersType DEF MediaTypes

\* closing the registered peer of a participant,
LEMMA CloseParticipantType ==
    ASSUME MediaTypes, NEW s \in Sessions, NEW p \in Participants,
           CloseParticipant(s, p)
    PROVE  MediaTypes'
<1> DEFINE closing == {conns[s][p]} \ {Null}
<1>1. closing \in SUBSET PeerIds /\ ClosePeers(closing)
  BY DEF MediaTypes, CloseParticipant
<1>2. conns' \in [Sessions -> [Participants -> PeerIds \cup {Null}]]
  BY DEF MediaTypes, CloseParticipant
<1> HIDE DEF closing
<1> QED BY <1>1, <1>2, ClosePeersType DEF MediaTypes

\* and registering a new one.
LEMMA AcceptOfferType ==
    ASSUME MediaTypes, NEW i \in PeerIds, NEW s \in Sessions, NEW p \in Participants,
           NEW publish \in BOOLEAN, AcceptOffer(i, s, p, publish)
    PROVE  MediaTypes'
<1>1. peers' \in [PeerIds -> Peers \cup {Null}]
  BY DEF MediaTypes, AcceptOffer, Peers, ConnectionStates
<1>2. conns' \in [Sessions -> [Participants -> PeerIds \cup {Null}]]
  BY DEF MediaTypes, AcceptOffer
<1> QED BY <1>1, <1>2 DEF MediaTypes, AcceptOffer

\* A save of the record, applied or lost, leaves well-typed data.
LEMMA WriteRecordType ==
    ASSUME DataTypes, NEW room \in Rooms, NEW ok \in BOOLEAN, WriteRecord(room, ok)
    PROVE  records' \in [RoomIds -> Records \cup {Null}] /\ faults' \in Nat
<1>1. Record(room) \in Records /\ room.id \in RoomIds
  BY DEF Record, Records, Rooms
<1> QED BY <1>1 DEF WriteRecord, CallFails, DataTypes

\* A save of the live state, applied or lost, leaves well-typed data.
LEMMA WriteStateType ==
    ASSUME DataTypes, NEW room \in Rooms, NEW ok \in BOOLEAN, WriteState(room, ok)
    PROVE  states' \in [Sessions -> States \cup {Null}] /\ faults' \in Nat
<1>1. [view |-> Project(room), savedAt |-> clock] \in States /\ room.session \in Sessions
  BY DEF Project, States, Views, Rooms, DataTypes
<1> QED BY <1>1 DEF WriteState, CallFails, DataTypes

-----------------------------------------------------------------------------
(* Control: how a handler's step affects it and the other handlers.        *)

\* The runtime rooms of session s after the step.
NextRooms(s) == {r \in RoomIds : runtime'[r] # Null /\ runtime'[r].session = s}

InSection(t) == pc[t] \notin {"idle", "lock"}

RuntimeOK ==
    /\ OneRuntimeRoomPerSession
    /\ RuntimeOnlyActive
    /\ \A r \in RoomIds : runtime[r] # Null => runtime[r].id = r

\* The step adds no runtime room to any session but that of t.
SparesOthers(t) ==
    \A s \in Sessions : s # req[t].session => NextRooms(s) \subseteq RuntimeRooms(s)

\* A step that leaves a handler's own state and its lock alone, and gives its
\* session no room, leaves it in order.
LEMMA HandlerUndisturbed ==
    ASSUME ServiceInvariant, NEW u \in Threads,
           pc'[u] = pc[u], held'[u] = held[u], req'[u] = req[u],
           InSection(u) => lock'[req[u].session] = lock[req[u].session],
           InSection(u) => NextRooms(req[u].session) \subseteq RuntimeRooms(req[u].session)
    PROVE  HandlerOK(u)'
<1>1. HandlerOK(u)
  BY DEF ServiceInvariant
<1>2. CASE pc[u] \in {"idle", "lock"}
  BY <1>1, <1>2 DEF HandlerOK, InSection, HoldsRoom, WritesActive
<1>3. CASE pc[u] \notin {"idle", "lock"}
  BY <1>1, <1>3 DEF HandlerOK, InSection, HoldsRoom, WritesActive, RuntimeRooms, NextRooms
<1> QED BY <1>2, <1>3

\* Under the lock, a step of t disturbs no other handler.
LEMMA OthersUndisturbed ==
    ASSUME ServiceInvariant, NEW t \in Threads, InSection(t), NEW u \in Threads, u # t,
           pc'[u] = pc[u], held'[u] = held[u], req'[u] = req[u],
           \/ lock' = lock
           \/ lock' = [lock EXCEPT ![req[t].session] = Null],
           SparesOthers(t)
    PROVE  HandlerOK(u)'
<1>1. CASE ~InSection(u)
  BY <1>1, HandlerUndisturbed
<1>2. CASE InSection(u)
  <2>1. /\ lock[req[u].session] = u /\ lock[req[t].session] = t
        /\ req[u] # Null /\ req[u] \in Served
    BY <1>2 DEF ServiceInvariant, HandlerOK, InSection, TypeOK, ControlTypes
  <2>2. req[u].session # req[t].session /\ req[u].session \in Sessions
    BY <2>1, ServedType
  <2>3. lock'[req[u].session] = lock[req[u].session]
    BY <2>2 DEF ServiceInvariant, TypeOK, ControlTypes
  <2>4. NextRooms(req[u].session) \subseteq RuntimeRooms(req[u].session)
    BY <2>2 DEF SparesOthers, RuntimeRooms, NextRooms
  <2> QED BY <2>3, <2>4, HandlerUndisturbed
<1> QED BY <1>1, <1>2

\* What the next step of a handler relies on (RuntimeRooms as it is after the
\* step).
GotoOK(t, step, room) ==
    /\ step \in Steps \ {"lock"} /\ room \in Rooms \cup {Null}
    /\ step \in {"accept", "rejectPeer"} => req[t].kind = "join"
    /\ step = "closePeer" => req[t].kind = "leave"
    /\ step = "findRecord" => NextRooms(req[t].session) = {}
    /\ step \in HoldsRoom =>
          /\ room # Null /\ room.session = req[t].session
          /\ NextRooms(req[t].session) \subseteq {room.id}
    /\ step \in WritesActive => room.status = "active"

\* A handler that goes on as GotoOK demands keeps the invariant.
LEMMA GotoStep ==
    ASSUME ServiceInvariant, NEW t \in Threads, InSection(t), NEW step, NEW room,
           Goto(t, step, room), GotoOK(t, step, room), SparesOthers(t)
    PROVE  ControlTypes' /\ (\A u \in Threads : HandlerOK(u)') /\ JanitorOK'
<1> USE DEF Procs
<1>1. /\ pc' = [pc EXCEPT ![t] = step] /\ held' = [held EXCEPT ![t] = room]
      /\ UNCHANGED <<lock, req, todo, relays>> /\ ControlTypes /\ t # Janitor
  BY DEF Goto, ServiceInvariant, TypeOK
<1>2. ControlTypes'
  BY <1>1 DEF ControlTypes, GotoOK, Steps
<1>3. ASSUME NEW u \in Threads, u # t PROVE HandlerOK(u)'
  BY <1>1, <1>3, OthersUndisturbed DEF ControlTypes
<1>4. HandlerOK(t)'
  <2>1. pc'[t] = step /\ held'[t] = room /\ req'[t] = req[t] /\ lock' = lock
    BY <1>1 DEF ControlTypes
  <2>2. req[t] # Null /\ lock[req[t].session] = t
    BY DEF ServiceInvariant, HandlerOK, InSection
  <2> QED BY <2>1, <2>2 DEF HandlerOK, GotoOK, HoldsRoom, WritesActive, Steps, RuntimeRooms, NextRooms
<1>5. JanitorOK'
  <2>1. pc'[Janitor] = pc[Janitor] /\ held'[Janitor] = held[Janitor]
    BY <1>1 DEF ControlTypes
  <2> QED BY <2>1 DEF JanitorOK, ServiceInvariant
<1> QED BY <1>2, <1>3, <1>4, <1>5

\* A handler that returns releases its lock and keeps the invariant.
LEMMA ReturnStep ==
    ASSUME ServiceInvariant, NEW t \in Threads, InSection(t), Return(t), SparesOthers(t)
    PROVE  ControlTypes' /\ (\A u \in Threads : HandlerOK(u)') /\ JanitorOK'
<1> USE DEF Procs
<1>1. /\ pc' = [pc EXCEPT ![t] = "idle"] /\ held' = [held EXCEPT ![t] = Null]
      /\ req' = [req EXCEPT ![t] = Null]
      /\ lock' = [lock EXCEPT ![req[t].session] = Null] /\ UNCHANGED todo /\ ControlTypes /\ t # Janitor
  BY DEF Return, ServiceInvariant, TypeOK
<1>2. req[t] \in Served
  BY DEF ServiceInvariant, HandlerOK, InSection, TypeOK, ControlTypes
<1>3. relays' \subseteq [session : Sessions, part : Participants]
  <2>1. req[t].kind = "track" =>
          [session |-> req[t].session, part |-> req[t].part]
             \in [session : Sessions, part : Participants]
    BY <1>2, ServedType
  <2> QED BY <1>1, <2>1 DEF Return, ControlTypes
<1>4. ControlTypes'
  BY <1>1, <1>3 DEF ControlTypes
<1>5. ASSUME NEW u \in Threads, u # t PROVE HandlerOK(u)'
  BY <1>1, <1>5, OthersUndisturbed DEF ControlTypes
<1>6. HandlerOK(t)'
  <2>1. pc'[t] = "idle"
    BY <1>1 DEF ControlTypes
  <2> QED BY <2>1 DEF HandlerOK, HoldsRoom, WritesActive
<1>7. JanitorOK'
  <2>1. pc'[Janitor] = pc[Janitor] /\ held'[Janitor] = held[Janitor]
    BY <1>1 DEF ControlTypes
  <2> QED BY <2>1 DEF JanitorOK, ServiceInvariant
<1> QED BY <1>4, <1>5, <1>6, <1>7

-----------------------------------------------------------------------------
(* The runtime repository.                                                 *)

\* A step that leaves the runtime rooms alone spares every handler.
LEMMA RuntimeUnchanged ==
    ASSUME ServiceInvariant, UNCHANGED runtime
    PROVE  /\ RuntimeOK'
           /\ \A t \in Threads : SparesOthers(t)
           /\ \A s \in Sessions : NextRooms(s) = RuntimeRooms(s)
BY DEF ServiceInvariant, RuntimeOK, OneRuntimeRoomPerSession, RuntimeOnlyActive,
       SparesOthers, RuntimeRooms, NextRooms

\* Removing a room gives no session a room.
LEMMA RuntimeDelete ==
    ASSUME ServiceInvariant, NEW q \in RoomIds, runtime' = [runtime EXCEPT ![q] = Null]
    PROVE  /\ runtime' \in [RoomIds -> Rooms \cup {Null}]
           /\ RuntimeOK'
           /\ \A t \in Threads : SparesOthers(t)
           /\ \A s \in Sessions : NextRooms(s) \subseteq RuntimeRooms(s)
<1>1. \A r \in RoomIds : runtime'[r] # Null => runtime'[r] = runtime[r]
  BY DEF ServiceInvariant, TypeOK, DataTypes
<1>2. runtime' \in [RoomIds -> Rooms \cup {Null}]
  BY DEF ServiceInvariant, TypeOK, DataTypes
<1>3. \A s : NextRooms(s) \subseteq RuntimeRooms(s)
  BY <1>1 DEF RuntimeRooms, NextRooms
<1>4. RuntimeOK'
  BY <1>1 DEF ServiceInvariant, RuntimeOK, OneRuntimeRoomPerSession,
              RuntimeOnlyActive, RuntimeRooms, NextRooms
<1> QED BY <1>2, <1>3, <1>4 DEF SparesOthers

\* Writing the only room a session can have keeps it the only one.
LEMMA RuntimeSave ==
    ASSUME ServiceInvariant, NEW t \in Threads, NEW room \in Rooms,
           runtime' = [runtime EXCEPT ![room.id] = room], room # Null,
           room.status = "active", room.session = req[t].session,
           RuntimeRooms(room.session) \subseteq {room.id}
    PROVE  /\ runtime' \in [RoomIds -> Rooms \cup {Null}]
           /\ RuntimeOK'
           /\ SparesOthers(t)
           /\ NextRooms(room.session) \subseteq {room.id}
<1>1. room.id \in RoomIds
  BY DEF Rooms
<1>2. /\ runtime' \in [RoomIds -> Rooms \cup {Null}] /\ runtime'[room.id] = room
      /\ \A r \in RoomIds : r # room.id => runtime'[r] = runtime[r]
  BY <1>1 DEF ServiceInvariant, TypeOK, DataTypes
<1>3. \A s \in Sessions : s # room.session => NextRooms(s) \subseteq RuntimeRooms(s)
  BY <1>2 DEF RuntimeRooms, NextRooms
<1>4. NextRooms(room.session) \subseteq {room.id}
  BY <1>2 DEF RuntimeRooms, NextRooms
<1>5. OneRuntimeRoomPerSession'
  BY <1>3, <1>4 DEF OneRuntimeRoomPerSession, ServiceInvariant, RuntimeRooms, NextRooms
<1>6. RuntimeOnlyActive' /\ \A r \in RoomIds : runtime'[r] # Null => runtime'[r].id = r
  BY <1>2 DEF RuntimeOnlyActive, ServiceInvariant
<1> QED BY <1>2, <1>3, <1>4, <1>5, <1>6 DEF RuntimeOK, SparesOthers

\* What FindBySessionID of the runtime repository returns.
LEMMA FoundRoom ==
    ASSUME ServiceInvariant, NEW s \in Sessions, NEW r \in RuntimeRooms(s)
    PROVE  /\ r \in RoomIds /\ runtime[r] \in Rooms
           /\ runtime[r].id = r /\ runtime[r].session = s
           /\ runtime[r].status = "active"
           /\ RuntimeRooms(s) \subseteq {r}
BY DEF ServiceInvariant, TypeOK, DataTypes, OneRuntimeRoomPerSession,
       RuntimeOnlyActive, RuntimeRooms, NextRooms

-----------------------------------------------------------------------------
(* One lemma per action.                                                   *)

\* The invariant is the sum of what the lemmas below establish one by one.
LEMMA Assemble ==
    ASSUME DataTypes', ControlTypes', RuntimeOK',
           \A u \in Threads : HandlerOK(u)', JanitorOK'
    PROVE  ServiceInvariant'
BY DEF ServiceInvariant, TypeOK, RuntimeOK

\* What a handler knows when it runs.
LEMMA Serving ==
    ASSUME ServiceInvariant, NEW t \in Threads, InSection(t)
    PROVE  /\ req[t] \in Served /\ req[t].session \in Sessions /\ req[t].now \in Nat
           /\ pc[t] \in HoldsRoom =>
                 /\ held[t] \in Rooms /\ held[t].session = req[t].session
                 /\ held[t].id \in RoomIds
                 /\ RuntimeRooms(req[t].session) \subseteq {held[t].id}
           /\ pc[t] \in WritesActive => held[t].status = "active"
<1>1. req[t] \in Served
  BY DEF ServiceInvariant, HandlerOK, InSection, TypeOK, ControlTypes
<1>2. pc[t] \in HoldsRoom => held[t] \in Rooms
  BY DEF ServiceInvariant, HandlerOK, InSection, TypeOK, ControlTypes, Procs
<1> QED BY <1>1, <1>2, ServedType DEF ServiceInvariant, HandlerOK, Rooms

\* A step of a handler that leaves the runtime rooms alone: it goes on, or
\* returns.
LEMMA HandlerStep ==
    ASSUME ServiceInvariant, NEW t \in Threads, InSection(t), UNCHANGED runtime,
           DataTypes',
           \/ Return(t)
           \/ \E step, room : Goto(t, step, room) /\ GotoOK(t, step, room)
    PROVE  ServiceInvariant'
<1>1. RuntimeOK' /\ SparesOthers(t)
  BY RuntimeUnchanged
<1>2. CASE Return(t)
  BY <1>1, <1>2, ReturnStep, Assemble
<1>3. CASE \E step, room : Goto(t, step, room) /\ GotoOK(t, step, room)
  BY <1>1, <1>3, GotoStep, Assemble
<1> QED BY <1>2, <1>3

\* Looking the session up in the runtime repository and finding a room.
LEMMA GotoFound ==
    ASSUME ServiceInvariant, NEW t \in Threads, InSection(t), UNCHANGED runtime,
           NEW r \in RuntimeRooms(req[t].session), NEW room \in Rooms,
           room.id = r, room.session = req[t].session, NEW step \in HoldsRoom,
           step \in {"accept", "rejectPeer"} => req[t].kind = "join",
           step = "closePeer" => req[t].kind = "leave",
           step \in WritesActive => room.status = "active"
    PROVE  GotoOK(t, step, room)
<1>1. req[t].session \in Sessions
  BY Serving
<1>2. NextRooms(req[t].session) \subseteq {r}
  BY <1>1, FoundRoom, RuntimeUnchanged
<1>3. room # Null
  BY NullAssumption
<1> QED BY <1>2, <1>3 DEF GotoOK, HoldsRoom, Steps

\* A join that looks its session up in the runtime.
LEMMA JoinFindStep ==
    ASSUME ServiceInvariant, NEW t \in Threads, JoinFind(t)
    PROVE  ServiceInvariant'
<1>1. InSection(t) /\ UNCHANGED runtime /\ DataTypes'
  BY DEF JoinFind, InSection, ServiceInvariant, TypeOK, DataTypes, env, store, media
<1>2. CASE \E r \in RuntimeRooms(req[t].session) : JoinFound(t, runtime[r])
  <2>1. PICK r \in RuntimeRooms(req[t].session) : JoinFound(t, runtime[r])
    BY <1>2
  <2> DEFINE room == SetUserID(runtime[r], req[t].now)
  <2>2. /\ room \in Rooms /\ room.id = r /\ room.session = req[t].session
    BY <1>1, Serving, FoundRoom DEF SetUserID, Rooms
  <2>3. GotoOK(t, "accept", room)
    <3> HIDE DEF room
    <3> QED BY <1>1, <2>2, GotoFound DEF HoldsRoom, WritesActive, JoinFind
  <2> QED BY <1>1, <2>1, <2>3, HandlerStep DEF JoinFound
<1>3. CASE RuntimeRooms(req[t].session) = {} /\ Goto(t, "findRecord", Null)
  <2>1. NextRooms(req[t].session) = {}
    BY <1>1, <1>3, RuntimeUnchanged, Serving
  <2>2. GotoOK(t, "findRecord", Null)
    BY <2>1 DEF GotoOK, Steps, HoldsRoom, WritesActive
  <2> QED BY <1>1, <1>3, <2>2, HandlerStep
<1> QED BY <1>2, <1>3 DEF JoinFind

\* An end that looks its session up in the runtime.
LEMMA EndFindStep ==
    ASSUME ServiceInvariant, NEW t \in Threads, EndFind(t)
    PROVE  ServiceInvariant'
<1>1. InSection(t) /\ UNCHANGED runtime /\ DataTypes'
  BY DEF EndFind, InSection, ServiceInvariant, TypeOK, DataTypes, env, store, media
<1>2. ASSUME NEW r \in RuntimeRooms(req[t].session),
             Goto(t, "closeMedia", Close(runtime[r], req[t].now))
      PROVE  ServiceInvariant'
  <2> DEFINE room == Close(runtime[r], req[t].now)
  <2>1. room \in Rooms /\ room.id = r /\ room.session = req[t].session
    <3>1. /\ runtime[r] \in Rooms /\ req[t].now \in Nat
          /\ runtime[r].id = r /\ runtime[r].session = req[t].session
      BY <1>1, Serving, FoundRoom
    <3> QED BY <3>1, EndRoomType
  <2>2. GotoOK(t, "closeMedia", room)
    <3> HIDE DEF room
    <3> QED BY <1>1, <2>1, GotoFound DEF HoldsRoom, WritesActive
  <2> QED BY <1>1, <1>2, <2>2, HandlerStep
<1>3. CASE RuntimeRooms(req[t].session) = {} /\ Goto(t, "findRecord", Null)
  <2>1. NextRooms(req[t].session) = {}
    BY <1>1, <1>3, RuntimeUnchanged, Serving
  <2>2. GotoOK(t, "findRecord", Null)
    BY <2>1 DEF GotoOK, Steps, HoldsRoom, WritesActive
  <2> QED BY <1>1, <1>3, <2>2, HandlerStep
<1> QED BY <1>2, <1>3 DEF EndFind

\* A join or an end that rebuilds the room from a record.
LEMMA FindRecordStep ==
    ASSUME ServiceInvariant, NEW t \in Threads, FindRecord(t)
    PROVE  ServiceInvariant'
<1>1. InSection(t) /\ UNCHANGED runtime /\ DataTypes'
  BY DEF FindRecord, CallFails, InSection, ServiceInvariant, TypeOK, DataTypes,
         env, store, media
<1>2. NextRooms(req[t].session) = {} /\ req[t].session \in Sessions /\ req[t].now \in Nat
  BY <1>1, RuntimeUnchanged, Serving DEF FindRecord, ServiceInvariant, HandlerOK
<1>3. CASE Return(t)
  BY <1>1, <1>3, HandlerStep
<1>4. ASSUME NEW r \in RecordIds(req[t].session),
             NEW room \in Rooms, room.session = req[t].session, NEW step \in HoldsRoom,
             step \in {"accept", "closeMedia"}, step = "accept" => req[t].kind = "join",
             Goto(t, step, room)
      PROVE  ServiceInvariant'
  <2>1. GotoOK(t, step, room)
    BY <1>2, <1>4, NullAssumption DEF GotoOK, Steps, HoldsRoom, WritesActive
  <2> QED BY <1>1, <1>4, <2>1, HandlerStep
<1>5. ASSUME NEW r \in RecordIds(req[t].session), req[t].kind = "join",
             JoinFound(t, RuntimeRoom(r, req[t].now))
      PROVE  ServiceInvariant'
  <2> DEFINE room == SetUserID(RuntimeRoom(r, req[t].now), req[t].now)
  <2>0. RuntimeRoom(r, req[t].now) \in Rooms
        /\ RuntimeRoom(r, req[t].now).session = req[t].session
    BY <1>2, RuntimeRoomType DEF RecordIds, ServiceInvariant, TypeOK
  <2>1. room \in Rooms /\ room.session = req[t].session
    BY <1>2, <2>0 DEF SetUserID, Rooms
  <2>2. Return(t) \/ Goto(t, "accept", room)
    BY <1>5 DEF JoinFound
  <2> HIDE DEF room
  <2> QED BY <1>3, <1>4, <1>5, <2>1, <2>2 DEF HoldsRoom
<1>6. ASSUME NEW r \in RecordIds(req[t].session),
             Goto(t, "closeMedia", Close(RuntimeRoom(r, req[t].now), req[t].now))
      PROVE  ServiceInvariant'
  <2> DEFINE room == Close(RuntimeRoom(r, req[t].now), req[t].now)
  <2>1. room \in Rooms /\ room.session = req[t].session
    <3>1. /\ RuntimeRoom(r, req[t].now) \in Rooms
          /\ RuntimeRoom(r, req[t].now).session = req[t].session
      BY <1>2, RuntimeRoomType DEF RecordIds, ServiceInvariant, TypeOK
    <3> QED BY <1>2, <3>1, EndRoomType
  <2> HIDE DEF room
  <2> QED BY <1>4, <1>6, <2>1 DEF HoldsRoom, room
<1> QED BY <1>3, <1>5, <1>6 DEF FindRecord

\* Going on with the room at hand, while the runtime stays as it is.
LEMMA GotoHeld ==
    ASSUME ServiceInvariant, NEW t \in Threads, InSection(t), UNCHANGED runtime,
           pc[t] \in HoldsRoom, NEW room \in Rooms,
           room.id = held[t].id, room.session = held[t].session,
           NEW step \in HoldsRoom, step \notin {"accept", "closePeer"},
           step = "rejectPeer" => req[t].kind = "join",
           step \in WritesActive => room.status = "active"
    PROVE  GotoOK(t, step, room)
<1>1. NextRooms(req[t].session) \subseteq {held[t].id} /\ held[t].session = req[t].session
  BY Serving, RuntimeUnchanged
<1> QED BY <1>1, NullAssumption DEF GotoOK, HoldsRoom, Steps

\* A join that negotiates its connection: the room it goes on with is active.
LEMMA AcceptParticipantStep ==
    ASSUME ServiceInvariant, NEW t \in Threads, AcceptParticipant(t)
    PROVE  ServiceInvariant'
<1>1. /\ InSection(t) /\ UNCHANGED runtime /\ pc[t] = "accept"
      /\ req[t].kind = "join" /\ req[t] \in Served /\ held[t] \in Rooms
  BY Serving DEF AcceptParticipant, InSection, ServiceInvariant, HandlerOK, HoldsRoom
<1>2. /\ req[t].session \in Sessions /\ req[t].part \in Participants
      /\ req[t].publish \in BOOLEAN /\ req[t].now \in Nat
  BY <1>1, ServedType
<1>3. CASE Return(t) /\ FailOffer(req[t].session, req[t].part)
  <2>1. DataTypes'
    <3>1. MediaTypes'
      BY <1>2, <1>3 DEF FailOffer, MediaTypes, ServiceInvariant, TypeOK, DataTypes,
                        Callbacks, ConnectionStates
    <3> QED BY <3>1 DEF MediaTypes, AcceptParticipant, ServiceInvariant, TypeOK, DataTypes,
                        env, store
  <2> QED BY <1>1, <1>3, <2>1, HandlerStep
<1>4. ASSUME NEW i \in PeerIds,
             AcceptOffer(i, req[t].session, req[t].part, req[t].publish)
      PROVE  DataTypes'
  <2>1. MediaTypes'
    BY <1>2, <1>4, AcceptOfferType DEF MediaTypes, ServiceInvariant, TypeOK, DataTypes
  <2> QED BY <2>1 DEF MediaTypes, AcceptParticipant, ServiceInvariant, TypeOK, DataTypes,
                      env, store
<1>5. ASSUME DataTypes', CanAddParticipant(held[t], req[t].part),
             Goto(t, "saveRuntime", AddParticipant(held[t], req[t].part,
                      NewParticipant(req[t].publish), req[t].now))
      PROVE  ServiceInvariant'
  <2> DEFINE room == AddParticipant(held[t], req[t].part,
                                    NewParticipant(req[t].publish), req[t].now)
  <2>1. room \in Rooms
    BY <1>1, <1>2, RoomOpsType
  <2>2. room.id = held[t].id /\ room.session = held[t].session /\ room.status = "active"
    BY <1>1 DEF AddParticipant, Rooms
  <2>3. GotoOK(t, "saveRuntime", room)
    <3> HIDE DEF room
    <3> QED BY <1>1, <2>1, <2>2, GotoHeld DEF HoldsRoom
  <2> QED BY <1>1, <1>5, <2>3, HandlerStep
<1>6. ASSUME DataTypes', Goto(t, "rejectPeer", held[t])
      PROVE  ServiceInvariant'
  <2>1. GotoOK(t, "rejectPeer", held[t])
    BY <1>1, GotoHeld DEF HoldsRoom, WritesActive
  <2> QED BY <1>1, <1>6, <2>1, HandlerStep
<1> QED BY <1>3, <1>4, <1>5, <1>6 DEF AcceptParticipant

\* A join that is rejected after its connection was registered.
LEMMA RejectPeerStep ==
    ASSUME ServiceInvariant, NEW t \in Threads, RejectPeer(t)
    PROVE  ServiceInvariant'
<1>1. /\ InSection(t) /\ UNCHANGED runtime /\ req[t].kind = "join" /\ req[t] \in Served
  BY Serving DEF RejectPeer, InSection, ServiceInvariant, HandlerOK
<1>2. req[t].session \in Sessions /\ req[t].part \in Participants
  BY <1>1, ServedType
<1>3. MediaTypes'
  BY <1>2, CloseParticipantType DEF RejectPeer, MediaTypes, ServiceInvariant, TypeOK, DataTypes
<1>4. DataTypes'
  BY <1>3 DEF MediaTypes, RejectPeer, ServiceInvariant, TypeOK, DataTypes, env, store
<1> QED BY <1>1, <1>4, HandlerStep DEF RejectPeer

\* A leave that closes its connection.
LEMMA ClosePeerStep ==
    ASSUME ServiceInvariant, NEW t \in Threads, ClosePeer(t)
    PROVE  ServiceInvariant'
<1>1. /\ InSection(t) /\ UNCHANGED runtime /\ pc[t] = "closePeer"
      /\ req[t].kind = "leave" /\ req[t] \in Served
      /\ held[t] \in Rooms /\ held[t].status = "active"
  BY Serving DEF ClosePeer, InSection, ServiceInvariant, HandlerOK, HoldsRoom, WritesActive
<1>2. req[t].session \in Sessions /\ req[t].part \in Participants
  BY <1>1, ServedType
<1>3. MediaTypes'
  BY <1>2, CloseParticipantType DEF ClosePeer, MediaTypes, ServiceInvariant, TypeOK, DataTypes
<1>4. DataTypes'
  BY <1>3 DEF MediaTypes, ClosePeer, CallFails, ServiceInvariant, TypeOK, DataTypes, env, store
<1>5. GotoOK(t, "saveRuntime", held[t])
  BY <1>1, GotoHeld DEF HoldsRoom, WritesActive
<1> QED BY <1>1, <1>4, <1>5, HandlerStep DEF ClosePeer

\* A leave that looks its participant up.
LEMMA LeaveFindStep ==
    ASSUME ServiceInvariant, NEW t \in Threads, LeaveFind(t)
    PROVE  ServiceInvariant'
<1>1. InSection(t) /\ UNCHANGED runtime /\ DataTypes' /\ req[t].kind = "leave"
  BY DEF LeaveFind, InSection, ServiceInvariant, TypeOK, DataTypes, env, store, media
<1>2. /\ req[t].session \in Sessions /\ req[t].part \in Participants /\ req[t].now \in Nat
  BY <1>1, Serving, ServedType
<1>3. CASE Return(t)
  BY <1>1, <1>3, HandlerStep
<1>4. ASSUME NEW r \in RuntimeRooms(req[t].session),
             Goto(t, "closeMedia", Fail(runtime[r], req[t].now))
      PROVE  ServiceInvariant'
  <2> DEFINE room == Fail(runtime[r], req[t].now)
  <2>1. room \in Rooms /\ room.id = r /\ room.session = req[t].session
    <3>1. /\ runtime[r] \in Rooms
          /\ runtime[r].id = r /\ runtime[r].session = req[t].session
      BY <1>2, FoundRoom
    <3> QED BY <1>2, <3>1, EndRoomType
  <2>2. GotoOK(t, "closeMedia", room)
    <3> HIDE DEF room
    <3> QED BY <1>1, <2>1, GotoFound DEF HoldsRoom, WritesActive
  <2> QED BY <1>1, <1>4, <2>2, HandlerStep
<1>5. ASSUME NEW r \in RuntimeRooms(req[t].session),
             Goto(t, "closePeer", RemoveParticipant(runtime[r], req[t].part, req[t].now))
      PROVE  ServiceInvariant'
  <2> DEFINE room == RemoveParticipant(runtime[r], req[t].part, req[t].now)
  <2>1. /\ room \in Rooms /\ room.id = r /\ room.session = req[t].session
        /\ room.status = "active"
    <3>1. /\ runtime[r] \in Rooms /\ runtime[r].status = "active"
          /\ runtime[r].id = r /\ runtime[r].session = req[t].session
      BY <1>2, FoundRoom
    <3>2. room \in Rooms
      BY <1>2, <3>1, RoomOpsType
    <3> QED BY <3>1, <3>2 DEF RemoveParticipant, Rooms
  <2>2. GotoOK(t, "closePeer", room)
    <3> HIDE DEF room
    <3> QED BY <1>1, <2>1, GotoFound DEF HoldsRoom, WritesActive
  <2> QED BY <1>1, <1>5, <2>2, HandlerStep
<1> QED BY <1>3, <1>4, <1>5 DEF LeaveFind

\* The two callbacks work on the room they find in the same way.
LEMMA EventFound ==
    ASSUME ServiceInvariant, NEW t \in Threads, InSection(t), UNCHANGED runtime,
           DataTypes', NEW r \in RuntimeRooms(req[t].session), NEW room \in Rooms,
           room.id = r, room.session = req[t].session, room.status = "active",
           Goto(t, "saveRuntime", room)
    PROVE  ServiceInvariant'
<1>1. GotoOK(t, "saveRuntime", room)
  BY GotoFound DEF HoldsRoom, WritesActive
<1> QED BY <1>1, HandlerStep

\* A connection change that looks its participant up.
LEMMA ConnectionFindStep ==
    ASSUME ServiceInvariant, NEW t \in Threads, ConnectionFind(t)
    PROVE  ServiceInvariant'
<1>1. InSection(t) /\ UNCHANGED runtime /\ DataTypes' /\ req[t].kind = "connection"
  BY DEF ConnectionFind, InSection, ServiceInvariant, TypeOK, DataTypes, env, store, media
<1>2. /\ req[t].session \in Sessions /\ req[t].part \in Participants
      /\ req[t].state \in ConnectionStates /\ req[t].now \in Nat
  BY <1>1, Serving, ServedType
<1>3. CASE Return(t)
  BY <1>1, <1>3, HandlerStep
<1>4. ASSUME NEW r \in RuntimeRooms(req[t].session),
             Goto(t, "saveRuntime",
                  UpdateParticipantState(runtime[r], req[t].part, req[t].state, req[t].now))
      PROVE  ServiceInvariant'
  <2> DEFINE room == UpdateParticipantState(runtime[r], req[t].part, req[t].state, req[t].now)
  <2>1. /\ runtime[r] \in Rooms /\ runtime[r].status = "active"
        /\ runtime[r].id = r /\ runtime[r].session = req[t].session
    BY <1>2, FoundRoom
  <2>2. room \in Rooms
    BY <1>2, <2>1, RoomOpsType
  <2>3. room.id = r /\ room.session = req[t].session /\ room.status = "active"
    BY <2>1 DEF UpdateParticipantState, Rooms
  <2> HIDE DEF room
  <2> QED BY <1>1, <1>4, <2>2, <2>3, EventFound DEF room
<1> QED BY <1>3, <1>4 DEF ConnectionFind

\* A track change that looks its participant up.
LEMMA TrackFindStep ==
    ASSUME ServiceInvariant, NEW t \in Threads, TrackFind(t)
    PROVE  ServiceInvariant'
<1>1. InSection(t) /\ UNCHANGED runtime /\ DataTypes' /\ req[t].kind = "track"
  BY DEF TrackFind, InSection, ServiceInvariant, TypeOK, DataTypes, env, store, media
<1>2. /\ req[t].session \in Sessions /\ req[t].part \in Participants
      /\ req[t].state \in TrackStates /\ req[t].now \in Nat
  BY <1>1, Serving, ServedType
<1>3. CASE Return(t)
  BY <1>1, <1>3, HandlerStep
<1>4. ASSUME NEW r \in RuntimeRooms(req[t].session),
             Goto(t, "saveRuntime",
                  UpdateParticipantTrackState(runtime[r], req[t].part, req[t].state, req[t].now))
      PROVE  ServiceInvariant'
  <2> DEFINE room ==
        UpdateParticipantTrackState(runtime[r], req[t].part, req[t].state, req[t].now)
  <2>1. /\ runtime[r] \in Rooms /\ runtime[r].status = "active"
        /\ runtime[r].id = r /\ runtime[r].session = req[t].session
    BY <1>2, FoundRoom
  <2>2. room \in Rooms
    BY <1>2, <2>1, RoomOpsType
  <2>3. room.id = r /\ room.session = req[t].session /\ room.status = "active"
    BY <2>1 DEF UpdateParticipantTrackState, Rooms
  <2> HIDE DEF room
  <2> QED BY <1>1, <1>4, <2>2, <2>3, EventFound DEF room
<1> QED BY <1>3, <1>4 DEF TrackFind

\* The save into the runtime repository: the only write that adds a room.
LEMMA SaveRuntimeStep ==
    ASSUME ServiceInvariant, NEW t \in Threads, SaveRuntime(t)
    PROVE  ServiceInvariant'
<1> DEFINE room == held[t]
<1>1. /\ InSection(t) /\ runtime' = [runtime EXCEPT ![room.id] = room]
      /\ Goto(t, "saveRecord", room) /\ pc[t] = "saveRuntime"
  BY DEF SaveRuntime, InSection
<1>2. /\ room \in Rooms /\ room # Null /\ room.session = req[t].session
      /\ room.status = "active" /\ RuntimeRooms(room.session) \subseteq {room.id}
  BY <1>1, Serving, NullAssumption DEF HoldsRoom, WritesActive
<1> HIDE DEF room
<1>3. /\ runtime' \in [RoomIds -> Rooms \cup {Null}] /\ RuntimeOK' /\ SparesOthers(t)
      /\ NextRooms(room.session) \subseteq {room.id}
  BY <1>1, <1>2, RuntimeSave
<1>4. GotoOK(t, "saveRecord", room)
  BY <1>2, <1>3 DEF GotoOK, HoldsRoom, Steps
<1>5. DataTypes'
  BY <1>3 DEF SaveRuntime, ServiceInvariant, TypeOK, DataTypes, env, store, media
<1> QED BY <1>1, <1>3, <1>4, <1>5, GotoStep, Assemble

\* The two ends a save can come to when its call fails.
LEMMA PersistFailedStep ==
    ASSUME ServiceInvariant, NEW t \in Threads, InSection(t), UNCHANGED runtime,
           DataTypes', pc[t] \in {"saveRecord", "saveState"},
           PersistFailed(t) \/ Goto(t, "closeMedia", Fail(held[t], req[t].now))
    PROVE  ServiceInvariant'
<1> DEFINE room == Fail(held[t], req[t].now)
<1>1. held[t] \in Rooms /\ req[t].now \in Nat
  BY Serving DEF HoldsRoom
<1>2. room \in Rooms /\ room.id = held[t].id /\ room.session = held[t].session
  BY <1>1, EndRoomType
<1>3. Return(t) \/ Goto(t, "closeMedia", room)
  BY DEF PersistFailed
<1> HIDE DEF room
<1>4. GotoOK(t, "closeMedia", room)
  BY <1>2, GotoHeld DEF HoldsRoom, WritesActive
<1> QED BY <1>3, <1>4, HandlerStep

\* The save of the record, after which a critical failure ends the room.
LEMMA SaveRecordStep ==
    ASSUME ServiceInvariant, NEW t \in Threads, SaveRecord(t)
    PROVE  ServiceInvariant'
<1>1. InSection(t) /\ UNCHANGED runtime /\ pc[t] = "saveRecord"
  BY DEF SaveRecord, InSection
<1>2. held[t] \in Rooms /\ held[t].status = "active"
  BY <1>1, Serving DEF HoldsRoom, WritesActive
<1>3. records' \in [RoomIds -> Records \cup {Null}] /\ faults' \in Nat
  BY <1>2, WriteRecordType DEF SaveRecord, ServiceInvariant, TypeOK
<1>4. DataTypes'
  BY <1>3 DEF SaveRecord, ServiceInvariant, TypeOK, DataTypes, env, media
<1>5. GotoOK(t, "saveState", held[t])
  BY <1>1, <1>2, GotoHeld DEF HoldsRoom
<1>6. CASE Goto(t, "saveState", held[t])
  BY <1>1, <1>4, <1>5, <1>6, HandlerStep
<1> QED BY <1>1, <1>4, <1>6, PersistFailedStep DEF SaveRecord

\* The save of the live state ends the handler, unless it fails.
LEMMA SaveStateStep ==
    ASSUME ServiceInvariant, NEW t \in Threads, SaveState(t)
    PROVE  ServiceInvariant'
<1>1. InSection(t) /\ UNCHANGED runtime /\ pc[t] = "saveState"
  BY DEF SaveState, InSection
<1>2. held[t] \in Rooms
  BY <1>1, Serving DEF HoldsRoom
<1>3. states' \in [Sessions -> States \cup {Null}] /\ faults' \in Nat
  BY <1>2, WriteStateType DEF SaveState, ServiceInvariant, TypeOK
<1>4. DataTypes'
  BY <1>3 DEF SaveState, ServiceInvariant, TypeOK, DataTypes, env, media
<1> QED BY <1>1, <1>4, HandlerStep, PersistFailedStep DEF SaveState

\* The teardown closes the peers of the session,
LEMMA CloseMediaStep ==
    ASSUME ServiceInvariant, NEW t \in Threads, CloseMedia(t)
    PROVE  ServiceInvariant'
<1>1. InSection(t) /\ UNCHANGED runtime /\ pc[t] = "closeMedia"
  BY DEF CloseMedia, InSection
<1>2. held[t] \in Rooms /\ req[t].session \in Sessions
  BY <1>1, Serving DEF HoldsRoom
<1>3. MediaTypes'
  BY <1>2, CloseSessionType DEF CloseMedia, MediaTypes, ServiceInvariant, TypeOK, DataTypes
<1>4. DataTypes'
  BY <1>3 DEF MediaTypes, CloseMedia, ServiceInvariant, TypeOK, DataTypes, env, store
<1>5. GotoOK(t, "delete", held[t])
  BY <1>1, <1>2, GotoHeld DEF HoldsRoom, WritesActive
<1> QED BY <1>1, <1>4, <1>5, HandlerStep DEF CloseMedia

\* saves the closed record
LEMMA CloseRecordStep ==
    ASSUME ServiceInvariant, NEW t \in Threads, CloseRecord(t)
    PROVE  ServiceInvariant'
<1>1. /\ InSection(t) /\ UNCHANGED runtime /\ pc[t] = "closeRecord"
      /\ Goto(t, "closeState", held[t])
  BY ConstantsAssumption DEF CloseRecord, InSection, AbortOnError, Proceed, Goto
<1>2. held[t] \in Rooms
  BY <1>1, Serving DEF HoldsRoom
<1>3. records' \in [RoomIds -> Records \cup {Null}] /\ faults' \in Nat
  BY <1>2, WriteRecordType DEF CloseRecord, ServiceInvariant, TypeOK
<1>4. DataTypes'
  BY <1>3 DEF CloseRecord, ServiceInvariant, TypeOK, DataTypes, env, media
<1>5. GotoOK(t, "closeState", held[t])
  BY <1>1, <1>2, GotoHeld DEF HoldsRoom, WritesActive
<1> QED BY <1>1, <1>4, <1>5, HandlerStep

\* and the closed live state, whichever save fails,
LEMMA CloseStateStep ==
    ASSUME ServiceInvariant, NEW t \in Threads, CloseState(t)
    PROVE  ServiceInvariant'
<1>1. InSection(t) /\ UNCHANGED runtime /\ pc[t] = "closeState"
  BY DEF CloseState, InSection
<1>2. held[t] \in Rooms
  BY <1>1, Serving DEF HoldsRoom
<1>3. states' \in [Sessions -> States \cup {Null}] /\ faults' \in Nat
  BY <1>2, WriteStateType DEF CloseState, ServiceInvariant, TypeOK
<1>4. DataTypes'
  BY <1>3 DEF CloseState, ServiceInvariant, TypeOK, DataTypes, env, media
<1> QED BY <1>1, <1>4, HandlerStep DEF CloseState

\* and deletes the runtime room in between.
LEMMA DeleteRuntimeStep ==
    ASSUME ServiceInvariant, NEW t \in Threads, DeleteRuntime(t)
    PROVE  ServiceInvariant'
<1>1. /\ InSection(t) /\ pc[t] = "delete" /\ Goto(t, "closeRecord", held[t])
      /\ runtime' = [runtime EXCEPT ![held[t].id] = Null]
  BY DEF DeleteRuntime, InSection
<1>2. /\ held[t] \in Rooms /\ held[t].id \in RoomIds /\ held[t].session = req[t].session
      /\ req[t].session \in Sessions /\ RuntimeRooms(req[t].session) \subseteq {held[t].id}
  BY <1>1, Serving DEF HoldsRoom
<1>3. /\ runtime' \in [RoomIds -> Rooms \cup {Null}] /\ RuntimeOK' /\ SparesOthers(t)
      /\ NextRooms(req[t].session) \subseteq RuntimeRooms(req[t].session)
  BY <1>1, <1>2, RuntimeDelete
<1>4. GotoOK(t, "closeRecord", held[t])
  BY <1>2, <1>3, NullAssumption DEF GotoOK, HoldsRoom, WritesActive, Steps
<1>5. DataTypes'
  BY <1>3 DEF DeleteRuntime, ServiceInvariant, TypeOK, DataTypes, env, store, media
<1> QED BY <1>1, <1>3, <1>4, <1>5, GotoStep, Assemble

\* Whatever a handler does under the lock keeps the invariant.
LEMMA HandlePreserves ==
    ASSUME ServiceInvariant, NEW t \in Threads, Handle(t)
    PROVE  ServiceInvariant'
BY JoinFindStep, EndFindStep, LeaveFindStep, ConnectionFindStep, TrackFindStep,
   FindRecordStep, AcceptParticipantStep, RejectPeerStep, ClosePeerStep,
   SaveRuntimeStep, SaveRecordStep, SaveStateStep,
   CloseMediaStep, DeleteRuntimeStep, CloseRecordStep, CloseStateStep DEF Handle

\* A step that touches no thread and gives no session a room.
LEMMA AllUndisturbed ==
    ASSUME ServiceInvariant, UNCHANGED <<lock, req>>,
           \A u \in Threads : pc'[u] = pc[u] /\ held'[u] = held[u],
           \A s \in Sessions : NextRooms(s) \subseteq RuntimeRooms(s)
    PROVE  \A u \in Threads : HandlerOK(u)'
<1> SUFFICES ASSUME NEW u \in Threads PROVE HandlerOK(u)'
  OBVIOUS
<1>1. InSection(u) => req[u].session \in Sessions
  BY Serving
<1> QED BY <1>1, HandlerUndisturbed

\* A thread that takes up something new waits for the lock.
LEMMA BeginStep ==
    ASSUME ServiceInvariant, NEW t \in Threads, Begin(t)
    PROVE  ServiceInvariant'
<1> USE DEF Procs
<1>1. PICK x : /\ req' = [req EXCEPT ![t] = x] /\ pc' = [pc EXCEPT ![t] = "lock"]
               /\ x \in Served
  <2>1. ASSUME NEW kind \in {"join", "leave", "end"}, NEW s \in Sessions,
               NEW p \in Participants \cup {Null}, NEW b \in BOOLEAN,
               kind = "end" => p = Null, kind # "end" => p \in Participants
        PROVE  [kind |-> kind, session |-> s, part |-> p, publish |-> b,
                now |-> clock] \in Served
    BY <2>1 DEF Served, Requests, ServiceInvariant, TypeOK, DataTypes
  <2>2. CASE Request(t)
    BY <2>1, <2>2, ConstantsAssumption DEF Request, ReceiveRequest
  <2>3. ASSUME NEW c \in callbacks, ReceiveCallback(t, c)
        PROVE  [kind |-> c.kind, session |-> c.session, part |-> c.part,
                state |-> c.state, now |-> clock] \in Served
    BY DEF Served, Callbacks, ServiceInvariant, TypeOK, DataTypes
  <2> QED BY <2>2, <2>3 DEF Begin, ReceiveCallback
<1>2. /\ pc[t] = "idle" /\ UNCHANGED <<runtime, lock, held, todo, relays>> /\ DataTypes'
  BY DEF Begin, Request, ReceiveRequest, ReceiveCallback, ServiceInvariant, TypeOK,
         DataTypes, env, store, media
<1>3. ControlTypes /\ t # Janitor
  BY ConstantsAssumption DEF ServiceInvariant, TypeOK
<1>4. ControlTypes'
  BY <1>1, <1>2, <1>3 DEF ControlTypes, Steps
<1>5. RuntimeOK' /\ \A s \in Sessions : NextRooms(s) = RuntimeRooms(s)
  BY <1>2, RuntimeUnchanged
<1>6. ASSUME NEW u \in Threads, u # t PROVE HandlerOK(u)'
  <2>1. pc'[u] = pc[u] /\ held'[u] = held[u] /\ req'[u] = req[u]
    BY <1>1, <1>2, <1>3, <1>6 DEF ControlTypes
  <2>2. InSection(u) => req[u].session \in Sessions
    BY Serving
  <2> QED BY <1>2, <1>5, <2>1, <2>2, HandlerUndisturbed
<1>7. HandlerOK(t)'
  <2>1. pc'[t] = "lock" /\ req'[t] = x
    BY <1>1, <1>3 DEF ControlTypes
  <2>2. x # Null
    BY <1>1, NullAssumption
  <2> QED BY <2>1, <2>2 DEF HandlerOK, HoldsRoom, WritesActive
<1>8. JanitorOK'
  <2>1. pc'[Janitor] = pc[Janitor] /\ held'[Janitor] = held[Janitor]
    BY <1>1, <1>2, <1>3 DEF ControlTypes
  <2> QED BY <2>1 DEF JanitorOK, ServiceInvariant
<1> QED BY <1>2, <1>4, <1>5, <1>6, <1>7, <1>8, Assemble

\* Taking the free lock of a session.
LEMMA LockSessionStep ==
    ASSUME ServiceInvariant, NEW t \in Threads, LockSession(t)
    PROVE  ServiceInvariant'
<1> USE DEF Procs
<1>1. /\ pc[t] = "lock" /\ lock[req[t].session] = Null
      /\ lock' = [lock EXCEPT ![req[t].session] = t] /\ pc' = [pc EXCEPT ![t] = "find"]
      /\ UNCHANGED <<runtime, req, held, todo, relays>>
  BY DEF LockSession
<1>2. DataTypes' /\ ControlTypes /\ t # Janitor
  BY ConstantsAssumption
  DEF LockSession, ServiceInvariant, TypeOK, DataTypes, env, store, media
<1>3. req[t] \in Served /\ req[t].session \in Sessions
  BY <1>1, <1>2, ServedType DEF ServiceInvariant, HandlerOK, ControlTypes
<1>4. ControlTypes'
  BY <1>1, <1>2 DEF ControlTypes, Steps
<1>5. RuntimeOK' /\ \A s \in Sessions : NextRooms(s) = RuntimeRooms(s)
  BY <1>1, RuntimeUnchanged
<1>6. ASSUME NEW u \in Threads, u # t PROVE HandlerOK(u)'
  <2>1. pc'[u] = pc[u] /\ held'[u] = held[u] /\ req'[u] = req[u]
    BY <1>1, <1>2, <1>6 DEF ControlTypes
  <2>2. InSection(u) => /\ req[u].session \in Sessions
                        /\ lock[req[u].session] = u
    BY Serving DEF InSection, ServiceInvariant, HandlerOK
  <2>3. InSection(u) => lock'[req[u].session] = lock[req[u].session]
    BY <1>1, <1>2, <2>2, NullAssumption DEF ControlTypes
  <2> QED BY <1>5, <2>1, <2>2, <2>3, HandlerUndisturbed
<1>7. HandlerOK(t)'
  <2>1. pc'[t] = "find" /\ req'[t] = req[t] /\ lock'[req[t].session] = t /\ req[t] # Null
    BY <1>1, <1>2, <1>3, NullAssumption DEF ControlTypes, ServiceInvariant, HandlerOK
  <2> QED BY <2>1 DEF HandlerOK, HoldsRoom, WritesActive
<1>8. JanitorOK'
  <2>1. pc'[Janitor] = pc[Janitor] /\ held'[Janitor] = held[Janitor]
    BY <1>1, <1>2 DEF ControlTypes
  <2> QED BY <2>1 DEF JanitorOK, ServiceInvariant
<1> QED BY <1>2, <1>4, <1>5, <1>6, <1>7, <1>8, Assemble

\* Steps outside the handlers that leave the runtime rooms and all control
\* state but relays and todo alone.
LEMMA OutsideStep ==
    ASSUME ServiceInvariant, UNCHANGED <<runtime, lock, pc, req, held>>, DataTypes',
           relays' \subseteq [session : Sessions, part : Participants],
           todo' \subseteq Rooms
    PROVE  ServiceInvariant'
<1>1. RuntimeOK' /\ \A u \in Threads : HandlerOK(u)'
  BY RuntimeUnchanged, AllUndisturbed
<1>2. ControlTypes' /\ JanitorOK'
  BY DEF ServiceInvariant, TypeOK, ControlTypes, JanitorOK
<1> QED BY <1>1, <1>2, Assemble

-----------------------------------------------------------------------------
(* The janitor.                                                            *)

\* A step of the janitor that gives no session a room.
LEMMA JanitorKeeps ==
    ASSUME ServiceInvariant, NEW step, NEW room, Proceed(Janitor, step, room),
           step \in {"idle", "delete", "closeRecord", "closeState"},
           room \in Rooms \cup {Null}, step # "idle" => room # Null,
           todo' \subseteq Rooms, DataTypes', RuntimeOK',
           \A s \in Sessions : NextRooms(s) \subseteq RuntimeRooms(s)
    PROVE  ServiceInvariant'
<1> USE DEF Procs
<1>1. /\ pc' = [pc EXCEPT ![Janitor] = step] /\ held' = [held EXCEPT ![Janitor] = room]
      /\ UNCHANGED <<lock, req, relays>> /\ ControlTypes /\ Janitor \notin Threads
  BY ConstantsAssumption DEF Proceed, ServiceInvariant, TypeOK
<1>2. \A u \in Threads : pc'[u] = pc[u] /\ held'[u] = held[u]
  BY <1>1 DEF ControlTypes
<1>3. ControlTypes'
  BY <1>1 DEF ControlTypes, Steps
<1>4. JanitorOK'
  BY <1>1 DEF ControlTypes, JanitorOK
<1> QED BY <1>1, <1>2, <1>3, <1>4, AllUndisturbed, Assemble

\* The janitor holds a room while it tears one down.
LEMMA JanitorHeld ==
    ASSUME ServiceInvariant, pc[Janitor] # "idle"
    PROVE  held[Janitor] \in Rooms /\ held[Janitor].id \in RoomIds
BY DEF ServiceInvariant, JanitorOK, TypeOK, ControlTypes, Procs, Rooms

\* The janitor's list holds rooms.
LEMMA SnapshotType ==
    ASSUME ServiceInvariant, NEW due
    PROVE  Snapshot(due) \subseteq Rooms
<1> SUFFICES ASSUME NEW r \in RoomIds, runtime[r] # Null
             PROVE  Close(runtime[r], clock) \in Rooms
  BY DEF Snapshot
<1>1. runtime[r] \in Rooms /\ clock \in Nat
  BY DEF ServiceInvariant, TypeOK, DataTypes
<1> QED BY <1>1, EndRoomType

\* Listing the rooms to be closed.
LEMMA JanitorListStep ==
    ASSUME ServiceInvariant, CleanupIdleRooms \/ ShutdownActiveRooms
    PROVE  ServiceInvariant'
<1>1. todo' \subseteq Rooms
  BY SnapshotType DEF CleanupIdleRooms, ShutdownActiveRooms
<1>2. UNCHANGED <<runtime, lock, pc, req, held, relays>> /\ DataTypes'
  BY DEF CleanupIdleRooms, ShutdownActiveRooms, ServiceInvariant, TypeOK, DataTypes,
         env, store, media
<1> QED BY <1>1, <1>2, OutsideStep DEF ServiceInvariant, TypeOK, ControlTypes

\* The janitor closes the peers of a session without its lock,
LEMMA JanitorCloseMediaStep ==
    ASSUME ServiceInvariant, NEW room \in todo, JanitorCloseMedia(room)
    PROVE  ServiceInvariant'
<1>1. room \in Rooms /\ room.session \in Sessions /\ todo \subseteq Rooms
  BY DEF ServiceInvariant, TypeOK, ControlTypes, Rooms
<1>2. MediaTypes'
  BY <1>1, CloseSessionType
  DEF JanitorCloseMedia, MediaTypes, ServiceInvariant, TypeOK, DataTypes
<1>3. DataTypes'
  BY <1>2 DEF MediaTypes, JanitorCloseMedia, CallFails, ServiceInvariant, TypeOK,
              DataTypes, env, store
<1>4. todo' \subseteq Rooms /\ Proceed(Janitor, "delete", room) /\ UNCHANGED runtime
  BY <1>1 DEF JanitorCloseMedia
<1> QED BY <1>1, <1>3, <1>4, RuntimeUnchanged, JanitorKeeps, NullAssumption

\* deletes the runtime room under the feet of a handler
LEMMA JanitorDeleteStep ==
    ASSUME ServiceInvariant, DeleteRuntime(Janitor)
    PROVE  ServiceInvariant'
<1>1. /\ pc[Janitor] = "delete" /\ Proceed(Janitor, "closeRecord", held[Janitor])
      /\ runtime' = [runtime EXCEPT ![held[Janitor].id] = Null] /\ todo' = todo
  BY DEF DeleteRuntime, Goto, Proceed
<1>2. held[Janitor] \in Rooms /\ held[Janitor].id \in RoomIds
  BY <1>1, JanitorHeld
<1>3. /\ runtime' \in [RoomIds -> Rooms \cup {Null}] /\ RuntimeOK'
      /\ \A s \in Sessions : NextRooms(s) \subseteq RuntimeRooms(s)
  BY <1>1, <1>2, RuntimeDelete
<1>4. DataTypes'
  BY <1>3 DEF DeleteRuntime, ServiceInvariant, TypeOK, DataTypes, env, store, media
<1> QED BY <1>1, <1>2, <1>3, <1>4, JanitorKeeps, NullAssumption
        DEF ServiceInvariant, TypeOK, ControlTypes

\* saves the closed record
LEMMA JanitorCloseRecordStep ==
    ASSUME ServiceInvariant, CloseRecord(Janitor)
    PROVE  ServiceInvariant'
<1>1. pc[Janitor] = "closeRecord" /\ Proceed(Janitor, "closeState", held[Janitor])
  BY DEF CloseRecord
<1>2. held[Janitor] \in Rooms
  BY <1>1, JanitorHeld
<1>3. records' \in [RoomIds -> Records \cup {Null}] /\ faults' \in Nat
  BY <1>2, WriteRecordType DEF CloseRecord, ServiceInvariant, TypeOK
<1>4. DataTypes' /\ UNCHANGED runtime
  BY <1>3 DEF CloseRecord, ServiceInvariant, TypeOK, DataTypes, env, media
<1>5. todo' \subseteq Rooms
  BY DEF CloseRecord, AbortOnError, ServiceInvariant, TypeOK, ControlTypes
<1> QED BY <1>1, <1>2, <1>4, <1>5, RuntimeUnchanged, JanitorKeeps, NullAssumption

\* and the closed live state.
LEMMA JanitorCloseStateStep ==
    ASSUME ServiceInvariant, JanitorCloseState
    PROVE  ServiceInvariant'
<1>1. pc[Janitor] = "closeState" /\ Proceed(Janitor, "idle", Null)
  BY DEF JanitorCloseState
<1>2. held[Janitor] \in Rooms
  BY <1>1, JanitorHeld
<1>3. states' \in [Sessions -> States \cup {Null}] /\ faults' \in Nat
  BY <1>2, WriteStateType DEF JanitorCloseState, ServiceInvariant, TypeOK
<1>4. DataTypes' /\ UNCHANGED runtime
  BY <1>3 DEF JanitorCloseState, ServiceInvariant, TypeOK, DataTypes, env, media
<1>5. todo' \subseteq Rooms
  BY DEF JanitorCloseState, AbortOnError, ServiceInvariant, TypeOK, ControlTypes
<1> QED BY <1>1, <1>4, <1>5, RuntimeUnchanged, JanitorKeeps

\* Whatever the janitor does, with no lock, keeps the invariant.
LEMMA JanitorPreserves ==
    ASSUME ServiceInvariant, JanitorStep
    PROVE  ServiceInvariant'
BY JanitorListStep, JanitorCloseMediaStep, JanitorDeleteStep,
   JanitorCloseRecordStep, JanitorCloseStateStep DEF JanitorStep

-----------------------------------------------------------------------------
(* Everything else.                                                        *)

\* What peers and relays report keeps the invariant.
LEMMA MediaPreserves ==
    ASSUME ServiceInvariant, MediaStep
    PROVE  ServiceInvariant'
<1>1. ASSUME NEW i \in PeerIds, NEW st \in PeerStates, PeerChange(i, st)
      PROVE  ServiceInvariant'
  <2>1. peers[i] \in Peers /\ st \in ConnectionStates
    BY <1>1, ConstantsAssumption DEF PeerChange, ServiceInvariant, TypeOK, DataTypes
  <2>2. /\ [peers[i] EXCEPT !.state = st] \in Peers
        /\ [kind |-> "connection", session |-> peers[i].session,
            part |-> peers[i].part, state |-> st] \in Callbacks
    BY <2>1 DEF Peers, Callbacks
  <2>3. peers' = [peers EXCEPT ![i] = [peers[i] EXCEPT !.state = st]]
    BY <1>1 DEF PeerChange
  <2>4. DataTypes'
    BY <1>1, <2>2, <2>3 DEF PeerChange, ServiceInvariant, TypeOK, DataTypes, env, store
  <2> QED BY <1>1, <2>4, OutsideStep
          DEF PeerChange, ctl, ServiceInvariant, TypeOK, ControlTypes
<1>2. ASSUME NEW i \in PeerIds, TrackStart(i)
      PROVE  ServiceInvariant'
  <2>1. peers[i] \in Peers
    BY <1>2 DEF TrackStart, ServiceInvariant, TypeOK, DataTypes
  <2>2. /\ [peers[i] EXCEPT !.track = "started"] \in Peers
        /\ [kind |-> "track", session |-> peers[i].session,
            part |-> peers[i].part, state |-> "active"] \in Callbacks
    BY <2>1 DEF Peers, Callbacks, TrackStates
  <2>3. peers' = [peers EXCEPT ![i] = [peers[i] EXCEPT !.track = "started"]]
    BY <1>2 DEF TrackStart
  <2>4. DataTypes'
    BY <1>2, <2>2, <2>3 DEF TrackStart, ServiceInvariant, TypeOK, DataTypes, env, store
  <2> QED BY <1>2, <2>4, OutsideStep
          DEF TrackStart, ctl, ServiceInvariant, TypeOK, ControlTypes
<1>3. ASSUME NEW r \in relays, NEW st \in TrackStates, RelayEnd(r, st)
      PROVE  ServiceInvariant'
  <2>1. [kind |-> "track", session |-> r.session, part |-> r.part, state |-> st]
           \in Callbacks
    BY DEF Callbacks, ServiceInvariant, TypeOK, ControlTypes
  <2>2. DataTypes'
    BY <1>3, <2>1 DEF RelayEnd, ServiceInvariant, TypeOK, DataTypes, env, store
  <2> QED BY <1>3, <2>2, OutsideStep DEF RelayEnd, ServiceInvariant, TypeOK, ControlTypes
<1> QED BY <1>1, <1>2, <1>3 DEF MediaStep

\* A new session record touches no handler.
LEMMA CreateSessionStep ==
    ASSUME ServiceInvariant, NEW r \in RoomIds, NEW s \in Sessions, CreateSession(r, s)
    PROVE  ServiceInvariant'
<1>1. NewRoom(r, s, clock) \in Rooms
  <2>1. [p \in Participants |-> Absent] \in [Participants -> ParticipantStates]
    BY DEF Absent, ParticipantStates
  <2> QED BY <2>1 DEF NewRoom, Rooms, RoomStatuses, ServiceInvariant, TypeOK, DataTypes
<1>2. records' \in [RoomIds -> Records \cup {Null}] /\ faults' \in Nat
  BY <1>1, WriteRecordType DEF CreateSession, ServiceInvariant, TypeOK
<1>3. DataTypes'
  BY <1>2 DEF CreateSession, ServiceInvariant, TypeOK, DataTypes, env, media
<1> QED BY <1>3, OutsideStep DEF CreateSession, ctl, ServiceInvariant, TypeOK, ControlTypes

\* Stop and restart, with or without a crash, keep the invariant.
LEMMA LifecyclePreserves ==
    ASSUME ServiceInvariant, Lifecycle
    PROVE  ServiceInvariant'
<1>1. CASE BeginStop \/ FinishStop
  <2>1. DataTypes'
    BY <1>1 DEF BeginStop, FinishStop, ServiceInvariant, TypeOK, DataTypes, store, media
  <2> QED BY <1>1, <2>1, OutsideStep
          DEF BeginStop, FinishStop, ctl, ServiceInvariant, TypeOK, ControlTypes
<1>2. CASE Restart
  <2> USE DEF Procs
  <2>1. DataTypes'
    BY <1>2 DEF Restart, ServiceInvariant, TypeOK, DataTypes, store
  <2>2. ControlTypes'
    BY <1>2 DEF Restart, ServiceInvariant, TypeOK, ControlTypes
  <2>3. RuntimeOK'
    BY <1>2 DEF Restart, RuntimeOK, OneRuntimeRoomPerSession, RuntimeOnlyActive, RuntimeRooms
  <2>4. (\A u \in Threads : HandlerOK(u)') /\ JanitorOK'
    BY <1>2 DEF Restart, HandlerOK, JanitorOK, HoldsRoom, WritesActive
  <2> QED BY <2>1, <2>2, <2>3, <2>4, Assemble
<1> QED BY <1>1, <1>2 DEF Lifecycle

\* Time and the expiry of live state keep the invariant.
LEMMA TimePreserves ==
    ASSUME ServiceInvariant, Tick \/ \E s \in Sessions : ExpireState(s)
    PROVE  ServiceInvariant'
<1>1. DataTypes'
  BY DEF Tick, ExpireState, ServiceInvariant, TypeOK, DataTypes, store, media, env
<1> QED BY <1>1, OutsideStep
        DEF Tick, ExpireState, ctl, ServiceInvariant, TypeOK, ControlTypes

\* A stuttering step keeps the invariant.
LEMMA StutterPreserves ==
    ASSUME ServiceInvariant, UNCHANGED vars
    PROVE  ServiceInvariant'
<1>1. DataTypes'
  BY DEF vars, env, store, media, ServiceInvariant, TypeOK, DataTypes
<1> QED BY <1>1, OutsideStep DEF vars, ctl, ServiceInvariant, TypeOK, ControlTypes

-----------------------------------------------------------------------------
(* Locks.                                                                  *)

\* A step that touches no lock, no request and no thread leaves every lock
\* with its holder at work.
LEMMA LocksUndisturbed ==
    ASSUME ServiceInvariant, LocksAreReleased, UNCHANGED <<lock, req>>,
           \A u \in Threads : pc'[u] = pc[u]
    PROVE  LocksAreReleased'
BY DEF ServiceInvariant, TypeOK, ControlTypes, LocksAreReleased

\* Whatever a handler does, it goes on under its lock or returns.
LEMMA HandleGoesOn ==
    ASSUME NEW t \in Threads, Handle(t)
    PROVE  /\ InSection(t)
           /\ \/ Return(t)
              \/ \E step \in Steps \ {"lock"} :
                    pc' = [pc EXCEPT ![t] = step] /\ UNCHANGED <<lock, req>>
<1> DEFINE GoesOn == \E step \in Steps \ {"lock"} :
                        pc' = [pc EXCEPT ![t] = step] /\ UNCHANGED <<lock, req>>
<1> USE DEF InSection
<1>1. ASSUME NEW step \in Steps \ {"lock"}, NEW room, Goto(t, step, room)
      PROVE  GoesOn
  BY <1>1 DEF Goto
<1>2. ASSUME NEW step \in Steps \ {"lock"}, NEW room, Proceed(t, step, room)
      PROVE  GoesOn
  BY <1>2 DEF Proceed
<1> HIDE DEF GoesOn
<1> USE DEF Steps
<1>3. ASSUME NEW room, JoinFound(t, room)
      PROVE  Return(t) \/ GoesOn
  BY <1>1, <1>3 DEF JoinFound
<1>4. ASSUME PersistFailed(t)
      PROVE  Return(t) \/ GoesOn
  BY <1>1, <1>4 DEF PersistFailed
<1>5. CASE JoinFind(t) \/ EndFind(t) \/ FindRecord(t)
  BY <1>1, <1>3, <1>5 DEF JoinFind, EndFind, FindRecord, GoesOn
<1>6. CASE LeaveFind(t) \/ ConnectionFind(t) \/ TrackFind(t)
  BY <1>1, <1>6 DEF LeaveFind, ConnectionFind, TrackFind, GoesOn
<1>7. CASE AcceptParticipant(t) \/ RejectPeer(t) \/ ClosePeer(t)
  BY <1>1, <1>7 DEF AcceptParticipant, RejectPeer, ClosePeer, GoesOn
<1>8. CASE SaveRuntime(t) \/ SaveRecord(t) \/ SaveState(t)
  BY <1>1, <1>4, <1>8 DEF SaveRuntime, SaveRecord, SaveState, GoesOn
<1>9. CASE CloseMedia(t) \/ DeleteRuntime(t) \/ CloseRecord(t) \/ CloseState(t)
  BY <1>1, <1>2, <1>9 DEF CloseMedia, DeleteRuntime, CloseRecord, CloseState, GoesOn
<1> QED BY <1>5, <1>6, <1>7, <1>8, <1>9 DEF Handle, GoesOn

\* So a handler's step leaves no lock behind.
LEMMA HandleLocks ==
    ASSUME ServiceInvariant, LocksAreReleased, NEW t \in Threads, Handle(t)
    PROVE  LocksAreReleased'
<1>1. InSection(t) /\ ControlTypes /\ t \in Procs
  BY HandleGoesOn DEF ServiceInvariant, TypeOK, Procs
<1>2. req[t].session \in Sessions /\ lock[req[t].session] = t
  BY <1>1, Serving DEF ServiceInvariant, HandlerOK, InSection
<1>3. CASE Return(t)
  <2>1. \A s \in Sessions : lock'[s] # Null =>
           lock'[s] = lock[s] /\ lock[s] # t /\ lock[s] \in Threads
    BY <1>1, <1>2, <1>3 DEF Return, ControlTypes, LocksAreReleased
  <2>2. \A u \in Threads \ {t} : pc'[u] = pc[u] /\ req'[u] = req[u]
    BY <1>1, <1>3 DEF Return, ControlTypes, Procs
  <2> QED BY <2>1, <2>2 DEF LocksAreReleased
<1>4. ASSUME NEW step \in Steps \ {"lock"},
             pc' = [pc EXCEPT ![t] = step], UNCHANGED <<lock, req>>
      PROVE  LocksAreReleased'
  BY <1>1, <1>4 DEF ControlTypes, LocksAreReleased, Procs, Steps
<1> QED BY <1>3, <1>4, HandleGoesOn

\* A thread that takes up something new holds no lock.
LEMMA BeginLocks ==
    ASSUME ServiceInvariant, LocksAreReleased, NEW t \in Threads, Begin(t)
    PROVE  LocksAreReleased'
<1>1. PICK x : /\ req' = [req EXCEPT ![t] = x] /\ pc' = [pc EXCEPT ![t] = "lock"]
               /\ pc[t] = "idle" /\ lock' = lock
  BY DEF Begin, Request, ReceiveRequest, ReceiveCallback
<1> QED BY <1>1 DEF ServiceInvariant, TypeOK, ControlTypes, LocksAreReleased, Procs

\* A thread that takes a lock serves the session it locks.
LEMMA LockSessionLocks ==
    ASSUME ServiceInvariant, LocksAreReleased, NEW t \in Threads, LockSession(t)
    PROVE  LocksAreReleased'
<1>1. /\ lock' = [lock EXCEPT ![req[t].session] = t] /\ pc' = [pc EXCEPT ![t] = "find"]
      /\ pc[t] = "lock" /\ req' = req /\ ControlTypes /\ t \in Procs
  BY DEF LockSession, ServiceInvariant, TypeOK, Procs
<1>2. req[t] # Null
  BY <1>1 DEF ServiceInvariant, HandlerOK
<1>3. \A s \in Sessions : lock'[s] = IF s = req[t].session THEN t ELSE lock[s]
  BY <1>1 DEF ControlTypes
<1>4. \A s \in Sessions : lock[s] # Null => lock[s] # t
  BY <1>1 DEF LocksAreReleased
<1>5. pc'[t] = "find" /\ \A u \in Threads \ {t} : pc'[u] = pc[u]
  BY <1>1 DEF ControlTypes, Procs
<1> QED BY <1>1, <1>2, <1>3, <1>4, <1>5 DEF LocksAreReleased, ControlTypes

\* No step leaves a session locked with nobody at work on it.
LEMMA NextLocks ==
    ServiceInvariant /\ LocksAreReleased /\ [Next]_vars => LocksAreReleased'
<1> SUFFICES ASSUME ServiceInvariant, LocksAreReleased, [Next]_vars
             PROVE  LocksAreReleased'
  OBVIOUS
<1>1. ASSUME NEW t \in Threads, Begin(t) \/ LockSession(t) \/ Handle(t)
      PROVE  LocksAreReleased'
  BY <1>1, BeginLocks, LockSessionLocks, HandleLocks
<1>2. CASE JanitorStep
  <2>1. UNCHANGED <<lock, req>>
    BY <1>2 DEF JanitorStep, CleanupIdleRooms, ShutdownActiveRooms, JanitorCloseMedia,
                DeleteRuntime, CloseRecord, JanitorCloseState, Proceed, Goto
  <2>2. pc' = pc \/ \E step : pc' = [pc EXCEPT ![Janitor] = step]
    BY <1>2 DEF JanitorStep, CleanupIdleRooms, ShutdownActiveRooms, JanitorCloseMedia,
                DeleteRuntime, CloseRecord, JanitorCloseState, Proceed, Goto
  <2>3. \A u \in Threads : pc'[u] = pc[u]
    BY <2>2 DEF ServiceInvariant, TypeOK, ControlTypes, Procs
  <2> QED BY <2>1, <2>3, LocksUndisturbed
<1>3. CASE Restart
  BY <1>3 DEF Restart, LocksAreReleased
<1>4. CASE \/ \E r \in RoomIds, s \in Sessions : CreateSession(r, s)
           \/ MediaStep \/ BeginStop \/ FinishStop \/ Tick \/ UNCHANGED vars
           \/ \E s \in Sessions : ExpireState(s)
  <2>1. UNCHANGED <<lock, req, pc>>
    BY <1>4 DEF CreateSession, MediaStep, PeerChange, TrackStart, RelayEnd, BeginStop,
                FinishStop, Tick, ExpireState, vars, ctl
  <2> QED BY <2>1, LocksUndisturbed
<1> QED BY <1>1, <1>2, <1>3, <1>4 DEF Next, Lifecycle

-----------------------------------------------------------------------------
(* The theorems.                                                           *)

\* An empty service satisfies the invariant.
LEMMA InitEstablishes == Init => ServiceInvariant
<1> SUFFICES ASSUME Init PROVE ServiceInvariant
  OBVIOUS
<1> USE DEF Init, Procs
<1>1. DataTypes
  BY DEF DataTypes
<1>2. ControlTypes
  BY DEF ControlTypes
<1>3. \A s \in Sessions : RuntimeRooms(s) = {}
  BY DEF RuntimeRooms
<1>4. OneRuntimeRoomPerSession /\ RuntimeOnlyActive
  BY <1>3 DEF OneRuntimeRoomPerSession, RuntimeOnlyActive
<1>5. (\A t \in Threads : HandlerOK(t)) /\ JanitorOK
  BY DEF HandlerOK, JanitorOK, HoldsRoom, WritesActive
<1> QED BY <1>1, <1>2, <1>4, <1>5 DEF ServiceInvariant, TypeOK

\* The invariant is inductive.
LEMMA NextPreserves == ServiceInvariant /\ [Next]_vars => ServiceInvariant'
BY CreateSessionStep, BeginStep, LockSessionStep, HandlePreserves, JanitorPreserves,
   MediaPreserves, LifecyclePreserves, TimePreserves, StutterPreserves DEF Next

\* The invariant that the handlers and the janitor keep, with the type of every
\* variable, for any number of sessions, rooms, participants and goroutines.
THEOREM ServiceInvariantHolds == Spec => []ServiceInvariant
BY InitEstablishes, NextPreserves, PTL DEF Spec

\* Every variable keeps its type.
THEOREM TypeCorrect == Spec => []TypeOK
<1>1. ServiceInvariant => TypeOK
  BY DEF ServiceInvariant
<1> QED BY <1>1, ServiceInvariantHolds, PTL

\* A session never has two runtime rooms, whatever requests, callbacks,
\* cleanups, failing saves and crashes do, and however many records it has:
\* runtime.FindBySessionID never has to choose.
THEOREM OneRuntimeRoomTheorem == Spec => []OneRuntimeRoomPerSession
<1>1. ServiceInvariant => OneRuntimeRoomPerSession
  BY DEF ServiceInvariant
<1> QED BY <1>1, ServiceInvariantHolds, PTL

\* The runtime repository never holds a room that is not active.
THEOREM RuntimeOnlyActiveTheorem == Spec => []RuntimeOnlyActive
<1>1. ServiceInvariant => RuntimeOnlyActive
  BY DEF ServiceInvariant
<1> QED BY <1>1, ServiceInvariantHolds, PTL

\* No handler returns, after whatever error, with its session locked: a lock
\* that is held is held by a goroutine at work on that very session.
THEOREM LocksTheorem == Spec => []LocksAreReleased
<1>1. Init => LocksAreReleased
  BY DEF Init, LocksAreReleased
<1> QED BY <1>1, NextLocks, ServiceInvariantHolds, PTL DEF Spec
=============================================================================
