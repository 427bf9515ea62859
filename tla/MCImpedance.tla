---------------------------- MODULE MCImpedance ----------------------------
(***************************************************************************)
(* The Cartesian impedance controller with a ramp of two ticks: a torque   *)
(* can be none, partial and full.                                          *)
(***************************************************************************)
EXTENDS ImpedanceController

MCRampTime == 2
=============================================================================
