----------------------------- MODULE MCBringup ------------------------------
(***************************************************************************)
(* An instance of Bringup for TLC: every launch file with every argument   *)
(* that changes what it starts.                                            *)
(***************************************************************************)
EXTENDS Bringup

With(programs, starts, extras) ==
  [program : programs, real : BOOLEAN, start : starts, extras : SUBSET extras]

MCLaunches ==
  With({"arm"}, {"force"}, {"rviz", "gripper", "safety", "tcp"})
    \cup With({"unified"}, StartModes, {"servo"})
    \cup With({"free_drive", "impedance"}, {"force"}, {})
=============================================================================
