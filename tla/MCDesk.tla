------------------------------- MODULE MCDesk -------------------------------
(***************************************************************************)
(* Instance of Desk for TLC.                                               *)
(***************************************************************************)
EXTENDS Desk

MCReach   == -1..2
MCRoom    == 0..1
MCOffsets == {0, 1}

MCSessions == {{"force", "tuning"}, {"jog"}, {"joints"}}
=============================================================================
