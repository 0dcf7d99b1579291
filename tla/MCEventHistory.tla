--------------------------- MODULE MCEventHistory ---------------------------
(***************************************************************************)
(* Instances of EventHistory for TLC: a handler, two data channels and the *)
(* janitor.                                                                *)
(***************************************************************************)
EXTENDS EventHistory, TLC

CONSTANTS t1, d1, d2

OneThread == {t1}
TwoChannels == {d1, d2}
Symmetric == Permutations(TwoChannels)
=============================================================================
