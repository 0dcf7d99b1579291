--------------------------- MODULE SessionContract ---------------------------
(***************************************************************************)
(* What the session service promises its callers, without locks, stores,   *)
(* copies and goroutines: a session has no room or is one open room with a *)
(* set of members, and each step changes one member or the room as a whole.*)
(*                                                                         *)
(* SessionService implements it (ImplementsContract): the members that the *)
(* runtime repository shows never lose a join or bring back a leave that a *)
(* handler working on an older copy did not know of.                       *)
(***************************************************************************)
CONSTANTS Sessions, RoomIds, Participants, Agents, Null

VARIABLES
    open,      \* the room of a session, or Null
    members    \* who is in it

vars == <<open, members>>

Init ==
    /\ open = [s \in Sessions |-> Null]
    /\ members = [s \in Sessions |-> {}]

\* The first join makes the room of a record an open one, with one member.
Open(s, r, p) ==
    /\ open[s] = Null
    /\ open' = [open EXCEPT ![s] = r]
    /\ members' = [members EXCEPT ![s] = {p}]

\* A participant joins once.
Join(s, p) ==
    /\ open[s] # Null /\ p \notin members[s]
    /\ members' = [members EXCEPT ![s] = @ \cup {p}]
    /\ UNCHANGED open

\* Only a participant that is not critical leaves an open room behind.
Leave(s, p) ==
    /\ open[s] # Null /\ p \in members[s] /\ p \notin Agents
    /\ members' = [members EXCEPT ![s] = @ \ {p}]
    /\ UNCHANGED open

\* End, failure, and the leave of a critical participant.
Finish(s) ==
    /\ open[s] # Null
    /\ open' = [open EXCEPT ![s] = Null]
    /\ members' = [members EXCEPT ![s] = {}]

\* A crash: the rooms are in memory only.
Lose == open' = [s \in Sessions |-> Null] /\ members' = [s \in Sessions |-> {}]

Next ==
    \/ \E s \in Sessions :
         \/ \E r \in RoomIds, p \in Participants : Open(s, r, p)
         \/ \E p \in Participants : Join(s, p) \/ Leave(s, p)
         \/ Finish(s)
    \/ Lose

Spec == Init /\ [][Next]_vars
=============================================================================
