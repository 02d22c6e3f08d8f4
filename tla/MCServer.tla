------------------------------ MODULE MCServer ------------------------------
(* Instances of Server for TLC. *)
EXTENDS Server, TLC

(* Ids are only compared, so streams may be swapped for one another. *)
Symmetry == Permutations(Ids)
=============================================================================
