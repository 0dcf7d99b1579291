-------------------------- MODULE MCSessionReports --------------------------
(***************************************************************************)
(* SessionReports on every room of an agent and two users, next to a room  *)
(* of another session.                                                     *)
(***************************************************************************)
EXTENDS SessionReports

CONSTANTS r1, s1, s2, a, u, v

OneRoom == {r1}
OneSession == {s1}
Three == {a, u, v}
OneAgent == {a}

\* The agent's id is between those of the users.
AgentInTheMiddle == [p \in Three |-> CASE p = u -> 1 [] p = a -> 2 [] OTHER -> 3]

\* A user who is connected and publishes, and an agent who has left.
OtherRoom ==
    {[id |-> r1, session |-> s2, status |-> "active", updatedAt |-> 0,
      parts |-> [p \in Three |->
          IF p = u THEN [state |-> "connected", track |-> "active"] ELSE Absent]]}
=============================================================================
