---------------------------- MODULE MCMediaEngine ----------------------------
(***************************************************************************)
(* Instances of MediaEngine for TLC: an agent and two users of one session.*)
(***************************************************************************)
EXTENDS MediaEngine, TLC

CONSTANTS a, u, v, i1, i2, i3, b1, b2

Two == {a, u}
Three == {a, u, v}
OneAgent == {a}
OneUser == {u}
TwoPeers == {i1, i2}
ThreePeers == {i1, i2, i3}
TwoBridges == {b1, b2}

Symmetric ==
    Permutations(ThreePeers) \cup Permutations(TwoBridges) \cup Permutations({u, v})
=============================================================================
