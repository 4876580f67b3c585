--------------------------- MODULE MCActionRunner ---------------------------
(***************************************************************************)
(* Instances of ActionRunner for TLC.                                      *)
(***************************************************************************)
EXTENDS ActionRunner, TLC

ActionSymmetry == Permutations(Actions)
=============================================================================
