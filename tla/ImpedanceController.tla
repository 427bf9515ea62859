------------------------- MODULE ImpedanceController ------------------------
(***************************************************************************)
(* Engaging the Cartesian impedance controller:                            *)
(* armv7_impedance_moveit/cartesian_impedance_controller.cpp.              *)
(*                                                                         *)
(* Two threads share its atomics and the target.  The real-time thread     *)
(* activates, deactivates and updates the controller; an update reads the  *)
(* atomics one after the other, here "ramp", "aim", "output" and "tare".   *)
(* A service thread runs the callbacks, one at a time; ~/enable stores the *)
(* atomics one after the other, and may be held up between two of them.    *)
(*                                                                         *)
(* Of the target all that matters is whether it was set since the          *)
(* controller was last engaged: before that it is wherever the arm was     *)
(* once, and the arm sags and is moved.  Of the torque it is how much of   *)
(* the ramp it is scaled by.                                               *)
(***************************************************************************)
EXTENDS Integers

CONSTANT RampTime  \* ramp_in_time, in ticks; times are counted up to it

ASSUME RampTimeAssumption == RampTime \in Nat \ {0}

VARIABLES active,     \* the controller is active
          enabled,    \* enabled_
          reseed,     \* reseed_on_next_update_
          restart,    \* restart_ramp_
          tareNow,    \* tare_on_next_update_
          tareAfter,  \* tare_after_ramp_
          target,     \* target_pose_
          ramp,       \* ticks since activate_time_
          effort,     \* the torque commands
          svc,        \* where the enable callback is
          rt,         \* where the update is
          aim,        \* the update's copy of the target
          since,      \* ticks since the controller was engaged
          tared,      \* the wrench estimate was tared since then
          cut,        \* it was activated while enabled, and not enabled since
          overlap     \* an enable callback ran during this update

atomics == <<enabled, reseed, restart, tareNow, tareAfter>>
history == <<since, tared, cut>>
vars    == <<active, atomics, target, ramp, effort, svc, rt, aim, history, overlap>>

Storing == {"reseed", "restart", "tareAfter"}

\* on_configure, which takes enabled_ from the parameter enable_at_start.
Init ==
  /\ active = FALSE
  /\ enabled \in BOOLEAN
  /\ reseed = FALSE /\ restart = FALSE
  /\ tareNow = FALSE /\ tareAfter = FALSE
  /\ target = "stale" /\ aim = "stale"
  /\ ramp = 0 /\ since = 0
  /\ effort = 0
  /\ svc = "idle" /\ rt = "idle"
  /\ tared = FALSE /\ cut = FALSE /\ overlap = FALSE

-----------------------------------------------------------------------------
(***************************************************************************)
(* The real-time thread.                                                   *)
(***************************************************************************)
\* on_activate: the target is the pose of the arm, nothing is to be tared.
Activate ==
  /\ rt = "idle" /\ ~active
  /\ active' = TRUE
  /\ tareNow' = FALSE /\ tareAfter' = FALSE
  /\ target' = "held"
  /\ ramp' = 0 /\ effort' = 0
  /\ since' = 0 /\ tared' = FALSE /\ cut' = enabled
  /\ UNCHANGED <<enabled, reseed, restart, svc, rt, aim, overlap>>

Deactivate ==
  /\ rt = "idle" /\ active
  /\ active' = FALSE
  /\ effort' = 0
  /\ UNCHANGED <<atomics, target, ramp, svc, rt, aim, history, overlap>>

\* An update whose inputs are NaN or have no kinematics: the early returns.
UpdateFails ==
  /\ rt = "idle" /\ active
  /\ effort' = 0
  /\ UNCHANGED <<active, atomics, target, ramp, svc, rt, aim, history, overlap>>

BeginUpdate ==
  /\ rt = "idle" /\ active
  /\ reseed' = FALSE
  /\ target' = IF reseed THEN "held" ELSE target
  /\ overlap' = (svc # "idle")
  /\ rt' = "ramp"
  /\ UNCHANGED <<active, enabled, restart, tareNow, tareAfter, ramp, effort, svc, aim, history>>

RestartRamp ==
  /\ rt = "ramp"
  /\ restart' = FALSE
  /\ ramp' = IF restart THEN 0 ELSE ramp
  /\ rt' = "aim"
  /\ UNCHANGED <<active, enabled, reseed, tareNow, tareAfter, target, effort, svc, aim, history,
                 overlap>>

TakeAim ==
  /\ rt = "aim"
  /\ aim' = target
  /\ rt' = "output"
  /\ UNCHANGED <<active, atomics, target, ramp, effort, svc, history, overlap>>

\* The torque is cut off while a joint moves faster than velocity_limit.
Output ==
  /\ rt = "output"
  /\ effort' \in IF enabled THEN {0, ramp} ELSE {0}
  /\ rt' = "tare"
  /\ UNCHANGED <<active, atomics, target, ramp, svc, aim, history, overlap>>

\* Mutant: the automatic tare does not wait for the ramp.
Tare_AtOnce ==
  /\ rt = "tare"
  /\ tareNow' = FALSE
  /\ tareAfter' = FALSE
  /\ tared' = (tared \/ tareNow \/ tareAfter)
  /\ rt' = "idle"
  /\ UNCHANGED <<active, enabled, reseed, restart, target, ramp, effort, svc, aim, since, cut,
                 overlap>>

RampDone == ramp = RampTime

Tare ==
  /\ rt = "tare"
  /\ tareNow' = FALSE
  /\ tareAfter' = (tareAfter /\ ~RampDone)
  /\ tared' = (tared \/ tareNow \/ (tareAfter /\ RampDone))
  /\ rt' = "idle"
  /\ UNCHANGED <<active, enabled, reseed, restart, target, ramp, effort, svc, aim, since, cut,
                 overlap>>

Update == BeginUpdate \/ RestartRamp \/ TakeAim \/ Output \/ Tare

-----------------------------------------------------------------------------
(***************************************************************************)
(* The service thread.  Its callbacks share a group: one at a time.        *)
(***************************************************************************)
\* ~/enable: the exchange, which finds the controller disabled.
Enable ==
  /\ svc = "idle"
  /\ ~enabled
  /\ enabled' = TRUE
  /\ svc' = "reseed"
  /\ overlap' = TRUE
  /\ target' = "stale"
  /\ since' = 0 /\ tared' = FALSE /\ cut' = FALSE
  /\ UNCHANGED <<active, reseed, restart, tareNow, tareAfter, ramp, effort, rt, aim>>

\* Mutant: the target is not seeded again.
StoreReseed_Skipped ==
  /\ svc = "reseed"
  /\ svc' = "restart"
  /\ overlap' = TRUE
  /\ UNCHANGED <<active, atomics, target, ramp, effort, rt, aim, history>>

StoreReseed ==
  /\ svc = "reseed"
  /\ reseed' = TRUE
  /\ svc' = "restart"
  /\ overlap' = TRUE
  /\ UNCHANGED <<active, enabled, restart, tareNow, tareAfter, target, ramp, effort, rt, aim,
                 history>>

\* Mutant: the ramp goes on from the activation.
StoreRestart_Skipped ==
  /\ svc = "restart"
  /\ svc' = "tareAfter"
  /\ overlap' = TRUE
  /\ UNCHANGED <<active, atomics, target, ramp, effort, rt, aim, history>>

StoreRestart ==
  /\ svc = "restart"
  /\ restart' = TRUE
  /\ svc' = "tareAfter"
  /\ overlap' = TRUE
  /\ UNCHANGED <<active, enabled, reseed, tareNow, tareAfter, target, ramp, effort, rt, aim,
                 history>>

\* Mutant: the automatic tare is forgotten.
StoreTareAfter_Skipped ==
  /\ svc = "tareAfter"
  /\ svc' = "idle"
  /\ overlap' = TRUE
  /\ UNCHANGED <<active, atomics, target, ramp, effort, rt, aim, history>>

StoreTareAfter ==
  /\ svc = "tareAfter"
  /\ tareAfter' = TRUE
  /\ svc' = "idle"
  /\ overlap' = TRUE
  /\ UNCHANGED <<active, enabled, reseed, restart, tareNow, target, ramp, effort, rt, aim, history>>

Disable ==
  /\ svc = "idle"
  /\ enabled' = FALSE
  /\ UNCHANGED <<active, reseed, restart, tareNow, tareAfter, target, ramp, effort, svc, rt, aim,
                 history, overlap>>

\* ~/tare_external_wrench.
RequestTare ==
  /\ svc = "idle"
  /\ tareNow' = TRUE
  /\ UNCHANGED <<active, enabled, reseed, restart, tareAfter, target, ramp, effort, svc, rt, aim,
                 history, overlap>>

\* on_target_pose, accepted in every state of the controller.
TargetPose ==
  /\ svc = "idle"
  /\ target' = "commanded"
  /\ UNCHANGED <<active, atomics, ramp, effort, svc, rt, aim, history, overlap>>

Callback == \/ StoreReseed \/ StoreRestart \/ StoreTareAfter
            \/ Enable \/ Disable \/ RequestTare \/ TargetPose

-----------------------------------------------------------------------------
\* Mutant: the ramp is not clamped.
Count_Unclamped(t) == t + 1

Count(t) == IF t < RampTime THEN t + 1 ELSE t

\* An update is shorter than a tick.
Tick ==
  /\ rt = "idle"
  /\ ramp' = Count(ramp)
  /\ since' = Count(since)
  /\ UNCHANGED <<active, atomics, target, effort, svc, rt, aim, tared, cut, overlap>>

Next == Activate \/ Deactivate \/ UpdateFails \/ Update \/ Callback \/ Tick

Spec == Init /\ [][Next]_vars

-----------------------------------------------------------------------------
TypeOK ==
  /\ active \in BOOLEAN /\ enabled \in BOOLEAN
  /\ reseed \in BOOLEAN /\ restart \in BOOLEAN
  /\ tareNow \in BOOLEAN /\ tareAfter \in BOOLEAN
  /\ target \in {"stale", "held", "commanded"}
  /\ aim \in {"stale", "held", "commanded"}
  /\ ramp \in 0..RampTime /\ since \in 0..RampTime
  /\ effort \in 0..RampTime
  /\ svc \in Storing \cup {"idle"}
  /\ rt \in {"idle", "ramp", "aim", "output", "tare"}
  /\ tared \in BOOLEAN /\ cut \in BOOLEAN /\ overlap \in BOOLEAN

(***************************************************************************)
(* Engaging does not jerk the arm (lines 194-198): in every update but one *)
(* that an enable callback overlaps, a torque comes from a target set      *)
(* since the controller was engaged, and from a ramp begun since then.     *)
(***************************************************************************)
EngagesGently ==
  [][rt = "output" /\ rt' = "tare" /\ effort' > 0 /\ ~overlap =>
       aim # "stale" /\ effort' <= since]_vars

(***************************************************************************)
(* The automatic tare waits for the ramp of the engagement it is for       *)
(* (lines 202-206): before that the measured torque is partial.            *)
(***************************************************************************)
TareWaits ==
  [][rt = "tare" /\ tareAfter /\ ~tareAfter' /\ ~overlap => since = RampTime]_vars

(***************************************************************************)
(* Every enable is followed by a tare once the ramp is complete (README,   *)
(* "Tare automatically on every enable, after the ramp-in completes"),     *)
(* unless on_activate came between them and dropped the request.           *)
(***************************************************************************)
TaredAfterRamp ==
  [][rt = "tare" /\ rt' = "idle" /\ enabled /\ RampDone /\ ~overlap /\ ~cut => tared']_vars

(***************************************************************************)
(* Why, as an inductive invariant: what the engagement lacks, the enable   *)
(* callback has still to store or an update has still to consume; and an   *)
(* update that no callback overlaps has consumed all that was stored.      *)
(***************************************************************************)
Seeded == active /\ target = "stale" => svc = "reseed" \/ reseed

Restarted == ramp > since => svc \in {"reseed", "restart"} \/ restart

TarePending == active /\ enabled /\ ~cut /\ ~tared => svc # "idle" \/ tareAfter

Consumed ==
  rt # "idle" =>
    /\ active
    /\ ~overlap =>
         /\ svc = "idle"
         /\ target # "stale"
         /\ rt # "ramp" => ramp <= since /\ ~restart
         /\ rt \in {"output", "tare"} => aim # "stale"

EngageInv == Seeded /\ Restarted /\ TarePending /\ Consumed
=============================================================================
