------------------------------ MODULE MCEstop -------------------------------
(***************************************************************************)
(* Instances of Estop for TLC.  Clients are interchangeable: the runs that *)
(* check no liveness use the symmetry set.                                 *)
(***************************************************************************)
EXTENDS Estop, TLC

Symmetry == Permutations(Clients)
=============================================================================
