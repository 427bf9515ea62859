--------------------------- MODULE LiveController ---------------------------
(***************************************************************************)
(* What the two operator panels act on: the live interface of the          *)
(* impedance controller (parameter, enable and target), the published      *)
(* mode, and the arm.  A callback is one step here; ImpedanceController    *)
(* and ModeSwitcher have its steps.                                        *)
(*                                                                         *)
(* Each of the three channels keeps its order; there is no order between   *)
(* them.  The six axes are alike: a place is one coordinate, and the       *)
(* stiffness is zero or not.                                               *)
(***************************************************************************)
EXTENDS Integers, Sequences

CONSTANTS Reach, \* the places a target can be: an interval
          Room,  \* the places the arm can be
          NoPose,\* no transform yet
          Depth  \* bound on the messages under way in a channel

ASSUME LiveAssumption ==
  /\ Reach \subseteq Int /\ Room \subseteq Reach /\ NoPose \notin Reach
  /\ Depth \in Nat \ {0}

VARIABLES ready,      \* the services are there
          stiff,      \* the stiffness is not zero
          enabled,    \* enabled_
          target,     \* the target of the spring
          arm,        \* where the arm is
          stiffnesses,\* set_parameters under way
          enables,    \* ~/enable calls under way
          targets,    \* ~/target_pose messages under way
          mode,       \* the published mode
          change      \* the change of mode under way

channels == <<stiffnesses, enables, targets>>
live     == <<ready, stiff, enabled, target, arm, channels, mode, change>>

\* impedance.yaml: the stiffness is not zero.
LiveInit ==
  /\ ready \in BOOLEAN
  /\ stiff = TRUE /\ enabled = FALSE
  /\ arm \in Room /\ target = arm
  /\ stiffnesses = <<>> /\ enables = <<>> /\ targets = <<>>
  /\ mode \in {"position", "force"}
  /\ change = "none"

-----------------------------------------------------------------------------
Put(queue, m) == Len(queue) < Depth /\ queue' = Append(queue, m)

\* A request to a service that is not there is dropped by the panel.
Request(queue, m) == IF ready THEN Put(queue, m) ELSE UNCHANGED queue

ComeUp ==
  /\ ~ready
  /\ ready' = TRUE
  /\ UNCHANGED <<stiff, enabled, target, arm, channels, mode, change>>

TakeStiffness ==
  /\ stiffnesses # <<>>
  /\ stiff' = Head(stiffnesses)
  /\ stiffnesses' = Tail(stiffnesses)
  /\ UNCHANGED <<ready, enabled, target, arm, enables, targets, mode, change>>

\* Enabling starts from where the arm is.
TakeEnable ==
  /\ enables # <<>>
  /\ enabled' = Head(enables)
  /\ target' = IF enabled' /\ ~enabled THEN arm ELSE target
  /\ enables' = Tail(enables)
  /\ UNCHANGED <<ready, stiff, arm, stiffnesses, targets, mode, change>>

TakeTarget ==
  /\ targets # <<>>
  /\ target' = Head(targets)
  /\ targets' = Tail(targets)
  /\ UNCHANGED <<ready, stiff, enabled, arm, stiffnesses, enables, mode, change>>

\* By hand, by the spring, by a trajectory or by Servo.
Move(place) ==
  /\ place # arm
  /\ arm' = place
  /\ UNCHANGED <<ready, stiff, enabled, target, channels, mode, change>>

(***************************************************************************)
(* The mode switcher.  A change to the mode it is in is refused: the       *)
(* STRICT switch finds its controller active already.                      *)
(***************************************************************************)
CanChange(m) == ready /\ change = "none" /\ mode # m
Ask(m)       == IF CanChange(m) THEN change' = m ELSE UNCHANGED change

\* to_force: the stiffness is set to zero, then the controller is enabled.
Soften ==
  /\ change = "force"
  /\ stiff' = FALSE /\ change' = "ramp"
  /\ enabled' = TRUE
  /\ target' = IF enabled THEN target ELSE arm
  /\ UNCHANGED <<ready, arm, channels, mode>>

\* to_position disables it and leaves the stiffness.
Disable ==
  /\ change = "position"
  /\ enabled' = FALSE /\ change' = "settle"
  /\ UNCHANGED <<ready, stiff, target, arm, channels, mode>>

Announce(m) ==
  /\ change = IF m = "force" THEN "ramp" ELSE "settle"
  /\ mode' = m /\ change' = "none"
  /\ UNCHANGED <<ready, stiff, enabled, target, arm, channels>>

Quiet == stiffnesses = <<>> /\ enables = <<>> /\ targets = <<>> /\ change = "none"

LiveTypeOK ==
  /\ {ready, stiff, enabled} \subseteq BOOLEAN
  /\ arm \in Room /\ target \in Reach
  /\ stiffnesses \in Seq(BOOLEAN) /\ enables \in Seq(BOOLEAN) /\ targets \in Seq(Reach)
  /\ Len(stiffnesses) <= Depth /\ Len(enables) <= Depth /\ Len(targets) <= Depth
  /\ mode \in {"position", "force"}
  /\ change \in {"none", "force", "ramp", "position", "settle"}

=============================================================================
