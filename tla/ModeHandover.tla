---------------------------- MODULE ModeHandover ----------------------------
(***************************************************************************)
(* What the mode switcher promises, seen from the arm: at every moment one *)
(* of the two controllers is active, and the drives obey torques only      *)
(* while the impedance controller carries the arm.                         *)
(*                                                                         *)
(* Towards force mode one controller takes the place of the other while    *)
(* the drives still hold the position, and they obey torques only after.   *)
(* Back, the trajectory controller joins the other first, the drives       *)
(* return to positions, and only then is the impedance controller released *)
(* (mode_switcher.py, lines 195-210 and 229-242).                          *)
(***************************************************************************)
VARIABLES position, \* the trajectory controller is active
          force,    \* the impedance controller is active
          carries,  \* its torques hold the arm
          torques   \* the drives obey torques

handover == <<position, force, carries, torques>>

Init == position = ~force /\ force \in BOOLEAN /\ carries = FALSE /\ torques = FALSE

Take ==
  /\ position /\ ~force /\ ~torques
  /\ position' = FALSE /\ force' = TRUE /\ carries' \in BOOLEAN
  /\ UNCHANGED torques

Prepare ==
  /\ force /\ ~torques
  /\ carries' \in BOOLEAN
  /\ UNCHANGED <<position, force, torques>>

Obey ==
  /\ force /\ carries /\ ~torques
  /\ torques' = TRUE
  /\ UNCHANGED <<position, force, carries>>

Join ==
  /\ force /\ ~position
  /\ position' = TRUE
  /\ UNCHANGED <<force, carries, torques>>

Return ==
  /\ position /\ force /\ torques
  /\ torques' = FALSE
  /\ UNCHANGED <<position, force, carries>>

Release ==
  /\ position /\ force /\ ~torques
  /\ force' = FALSE /\ carries' = FALSE
  /\ UNCHANGED <<position, torques>>

Next == Take \/ Prepare \/ Obey \/ Join \/ Return \/ Release

Spec == Init /\ [][Next]_handover
=============================================================================
