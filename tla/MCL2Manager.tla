---------------------------- MODULE MCL2Manager ----------------------------
(* Instances of L2Manager for TLC. *)
EXTENDS L2Manager, TLC

CONSTANTS s1, i1, i2, shallow, deep

OneSymbol == {s1}
OneDepth  == {shallow}
TwoDepths == {shallow, deep}
OneId     == {i1}
TwoIds    == {i1, i2}
TwoRecordings == {i1, i2}
Ones      == {}

(* Ids and depths are only compared: two recordings may be swapped for one *)
(* another, and so may the depths.                                         *)
Symmetry == Permutations(TwoIds) \cup Permutations(TwoDepths)
=============================================================================
