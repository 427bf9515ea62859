------------------------------- MODULE MCMode -------------------------------
(***************************************************************************)
(* Instances of ModeSwitcher for TLC.                                      *)
(***************************************************************************)
EXTENDS ModeSwitcher
=============================================================================
