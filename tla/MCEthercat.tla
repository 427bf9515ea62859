----------------------------- MODULE MCEthercat -----------------------------
(***************************************************************************)
(* Instances of EthercatCycle for TLC.  The poses are interchangeable: the *)
(* runs that check no liveness use the symmetry set.                       *)
(***************************************************************************)
EXTENDS EthercatCycle, TLC

Symmetry == Permutations(Poses)
=============================================================================
