----------------------------- MODULE Projection ------------------------------
(***************************************************************************)
(* The projections of a room (media_session_projector.go): the connection  *)
(* state and the media state that the live state and the runtime stats     *)
(* show for the room as a whole.                                           *)
(*                                                                         *)
(* Both functions range over a Go map of participants, in whatever order   *)
(* the runtime picks, and may return from inside the loop.  One behaviour  *)
(* is one evaluation of one of them on one room: Visit takes any of the    *)
(* participants that are left.                                             *)
(***************************************************************************)
EXTENDS Room

CONSTANTS Null

ASSUME NullIsNoState == Null \notin ConnectionStates \cup TrackStates

VARIABLES
    room,    \* the argument
    which,   \* "connection" or "media": the function under evaluation
    left,    \* participants the loop has still to visit
    has,     \* the flags hasConnected, hasPending, ... that are set
    result   \* what the function returned, Null while it runs

vars == <<room, which, left, has, result>>

Flags == {"connected", "connecting", "disconnected", "pending", "failed", "ended"}

Init ==
    /\ room \in [id : RoomIds, session : Sessions, status : RoomStatuses,
                 parts : [Participants -> ParticipantStates], updatedAt : {0}]
    /\ \A p \in Participants :
         (room.parts[p].state = "absent") => room.parts[p] = Absent
    /\ which \in {"connection", "media"}
    /\ left = Members(room) /\ has = {} /\ result = Null

-----------------------------------------------------------------------------
(* roomConnectionState.                                                    *)

\* Mutant: a failed user counts like a failed agent.
ConnectionVerdictOfAny(p) == room.parts[p].state = "failed"

\* A participant whose state alone decides.
ConnectionVerdict(p) == room.parts[p].state = "failed" /\ IsCritical(p)

\* The flag a participant sets; closed goes with connecting.
ConnectionFlag(p) ==
    CASE room.parts[p].state \in {"failed", "disconnected"} -> "disconnected"
      [] room.parts[p].state = "connected" -> "connected"
      [] OTHER -> "connecting"

ConnectionDefault ==
    IF "connected" \in has THEN "connected"
    ELSE IF "connecting" \in has THEN "connecting"
    ELSE IF "disconnected" \in has THEN "disconnected" ELSE "new"

(* roomMediaState.                                                         *)

\* Mutant: a failed agent track only sets a flag.
MediaVerdictOfActive(p) == room.parts[p].track = "active"

MediaVerdict(p) ==
    \/ room.parts[p].track = "failed" /\ IsCritical(p)
    \/ room.parts[p].track = "active"

MediaFlag(p) == room.parts[p].track

\* Mutant: an ended track hides a pending one.
MediaDefaultEndedFirst ==
    IF "ended" \in has THEN "ended"
    ELSE IF has = {} \/ "pending" \in has THEN "pending"
    ELSE IF "failed" \in has THEN "failed" ELSE "pending"

MediaDefault ==
    IF has = {} \/ "pending" \in has THEN "pending"
    ELSE IF "failed" \in has THEN "failed"
    ELSE IF "ended" \in has THEN "ended" ELSE "pending"

-----------------------------------------------------------------------------

\* The returns before the loops.
EarlyReturn ==
    /\ result = Null /\ left = Members(room) /\ has = {}
    /\ \/ /\ Terminal(room.status)
          /\ result' = IF which = "connection" \/ room.status = "failed"
                       THEN room.status ELSE "ended"
       \/ /\ ~Terminal(room.status) /\ which = "connection" /\ left = {}
          /\ result' = "new"
    /\ UNCHANGED <<room, which, left, has>>

VisitConnection(p) ==
    /\ which = "connection"
    /\ IF ConnectionVerdict(p)
       THEN result' = "failed" /\ UNCHANGED has
       ELSE has' = has \cup {ConnectionFlag(p)} /\ UNCHANGED result

VisitMedia(p) ==
    /\ which = "media"
    /\ IF room.parts[p].track = "none" THEN UNCHANGED <<has, result>>
       ELSE IF MediaVerdict(p)
       THEN result' = room.parts[p].track /\ UNCHANGED has
       ELSE has' = has \cup {MediaFlag(p)} /\ UNCHANGED result

Visit(p) ==
    /\ result = Null /\ ~Terminal(room.status) /\ p \in left
    /\ VisitConnection(p) \/ VisitMedia(p)
    /\ left' = left \ {p}
    /\ UNCHANGED <<room, which>>

LoopEnds ==
    /\ result = Null /\ ~Terminal(room.status) /\ left = {}
    /\ which = "connection" => Members(room) # {}
    /\ result' = IF which = "connection" THEN ConnectionDefault ELSE MediaDefault
    /\ UNCHANGED <<room, which, left, has>>

Next == EarlyReturn \/ (\E p \in left : Visit(p)) \/ LoopEnds

Spec == Init /\ [][Next]_vars

-----------------------------------------------------------------------------

States == {room.parts[p].state : p \in Members(room)}
Tracks == {room.parts[p].track : p \in Members(room)} \ {"none"}
Returned(f) == which = f /\ result # Null

\* The connection state a room shows depends on no iteration order: a failed
\* agent wins, then one connected participant suffices, then any that is on
\* its way (or closed); only when all are gone is the room disconnected.
ConnectionStateIsDetermined ==
    Returned("connection") =>
        result = IF room.status = "failed" THEN "failed"
            ELSE IF room.status = "closed" THEN "closed"
            ELSE IF \E p \in Members(room) :
                        IsCritical(p) /\ room.parts[p].state = "failed" THEN "failed"
            ELSE IF "connected" \in States THEN "connected"
            ELSE IF States \cap {"new", "connecting", "closed"} # {} THEN "connecting"
            ELSE IF States # {} THEN "disconnected" ELSE "new"

\* The rooms the handlers leave behind when no call fails
\* (CriticalFailureEndsRoom of SessionRoomProofs).
NoCriticalTrackFailure ==
    Terminal(room.status)
    \/ \A p \in Members(room) : IsCritical(p) => room.parts[p].track # "failed"

\* In a room that runs without a failed agent track the media state depends
\* on no iteration order either: one active track suffices, then a pending
\* one, or none at all, keeps the room pending.
MediaStateIsDetermined ==
    Returned("media") /\ NoCriticalTrackFailure =>
        result = IF room.status = "failed" THEN "failed"
            ELSE IF room.status = "closed" THEN "ended"
            ELSE IF "active" \in Tracks THEN "active"
            ELSE IF Tracks = {} \/ "pending" \in Tracks THEN "pending"
            ELSE IF "failed" \in Tracks THEN "failed" ELSE "ended"

\* A failed agent track leaves two answers at most, of which an active track
\* of somebody else may win.
FailedAgentTrackShows ==
    Returned("media") /\ ~NoCriticalTrackFailure =>
        result = "failed" \/ (result = "active" /\ "active" \in Tracks)
=============================================================================
