-------------------------- MODULE MCSessionService --------------------------
(***************************************************************************)
(* Instances of SessionService for TLC: one session, two participants of   *)
(* which a is the agent and u a user.                                      *)
(***************************************************************************)
EXTENDS SessionService, TLC

CONSTANTS r1, r2, i1, i2, t1, t2, a, u, s1

OneRoom == {r1}
TwoRooms == {r1, r2}
OnePeer == {i1}
TwoPeers == {i1, i2}
OneThread == {t1}
TwoThreads == {t1, t2}
Both == {a, u}
Agent == {a}
User == {u}
NoAgent == {}
OneSession == {s1}
Listen == {FALSE}
Publish == {TRUE}

FailedOnly == {"failed"}
NoStates == {}

Symmetric == Permutations(TwoPeers) \cup Permutations(TwoThreads) \cup Permutations(TwoRooms)
PeerSymmetric == Permutations(TwoPeers)
=============================================================================
