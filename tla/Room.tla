-------------------------------- MODULE Room --------------------------------
(***************************************************************************)
(* The Room entity (internal/core/domain/entity): one media room of a      *)
(* session, its lifecycle status and its participants, each with a         *)
(* connection state and at most one audio track.  The operators are pure:  *)
(* a handler works on a copy of the room and writes it back.               *)
(*                                                                         *)
(* Opaque data (user id, conversation id, event type, creation time) is    *)
(* left out.  A participant's role is a function of its id: Agents are the *)
(* critical ones, the others are users.                                    *)
(***************************************************************************)
EXTENDS Naturals

CONSTANTS RoomIds, Sessions, Participants, Agents

ASSUME AgentsAssumption == Agents \subseteq Participants

RoomStatuses == {"created", "active", "closed", "failed"}
ConnectionStates ==
    {"new", "connecting", "connected", "disconnected", "failed", "closed"}
TrackStates == {"pending", "active", "ended", "failed"}

\* track = "none": the participant does not publish audio and has no track.
ParticipantStates ==
    [state : ConnectionStates \cup {"absent"}, track : TrackStates \cup {"none"}]
Absent == [state |-> "absent", track |-> "none"]

Rooms == [id : RoomIds, session : Sessions, status : RoomStatuses,
          parts : [Participants -> ParticipantStates], updatedAt : Nat]

Terminal(status) == status \in {"closed", "failed"}
Members(room) == {p \in Participants : room.parts[p] # Absent}

IsCritical(p) == p \in Agents

-----------------------------------------------------------------------------

NewRoom(r, s, now) ==
    [id |-> r, session |-> s, status |-> "created",
     parts |-> [p \in Participants |-> Absent], updatedAt |-> now]

\* Mutant: a terminal room accepts joins.
AlwaysJoinable(room) == TRUE

CanJoinParticipants(room) == room.status \in {"created", "active"}

SetUserID(room, now) == [room EXCEPT !.updatedAt = now]

NewTrack == "pending"

NewParticipant(publishAudio) ==
    [state |-> "connecting", track |-> IF publishAudio THEN NewTrack ELSE "none"]

CanAddParticipant(room, p) == CanJoinParticipants(room) /\ p \notin Members(room)

\* Mutant: the first join leaves the room in status created.
AddWithoutActivation(room, p, participant, now) ==
    [room EXCEPT !.parts[p] = participant, !.updatedAt = now]

\* CanAddParticipant is the guard; Created -> Active on the first join.
AddParticipant(room, p, participant, now) ==
    [room EXCEPT !.parts[p] = participant, !.updatedAt = now, !.status = "active"]

RemoveParticipant(room, p, now) ==
    [room EXCEPT !.parts[p] = Absent, !.updatedAt = now]

CanUpdateParticipant(room, p) == p \in Members(room)

UpdateParticipantState(room, p, state, now) ==
    [room EXCEPT !.parts[p].state = state, !.updatedAt = now]

CanUpdateTrack(room, p) == p \in Members(room) /\ room.parts[p].track # "none"

UpdateParticipantTrackState(room, p, state, now) ==
    [room EXCEPT !.parts[p].track = state, !.updatedAt = now]

\* Every member takes the given connection and track state.
WithAll(room, state, track) ==
    [p \in Participants |->
        IF p \notin Members(room) THEN Absent
        ELSE [state |-> state,
              track |-> IF room.parts[p].track = "none" THEN "none" ELSE track]]

\* Mutant: the connection and the track state are swapped.
CloseSwapped(room, now) ==
    [room EXCEPT !.status = "closed", !.updatedAt = now,
                 !.parts = WithAll(room, "ended", "closed")]

Close(room, now) ==
    [room EXCEPT !.status = "closed", !.updatedAt = now,
                 !.parts = WithAll(room, "closed", "ended")]

Fail(room, now) ==
    [room EXCEPT !.status = "failed", !.updatedAt = now,
                 !.parts = WithAll(room, "failed", "failed")]
=============================================================================
