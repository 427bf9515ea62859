----------------------------- MODULE Dashboard ------------------------------
(***************************************************************************)
(* The tuning dashboard, armv7_impedance_moveit/scripts/tuning_dashboard.py*)
(* over LiveController: a GUI thread, and a side thread that spins the     *)
(* node.                                                                   *)
(*                                                                         *)
(* A call from the GUI thread spins the node itself until the answer is    *)
(* there (rclpy.spin_until_future_complete, external), which takes the     *)
(* node out of the executor of the side thread: from then on transforms    *)
(* and readouts arrive during calls only.                                  *)
(***************************************************************************)
EXTENDS LiveController

CONSTANT Slides \* where the offset sliders can be

ASSUME DashboardAssumption == Slides \subseteq Int /\ 0 \in Slides

VARIABLES served,    \* the side thread still spins the node
          buffered,  \* the latest transform in the buffer
          labelled,  \* self.enabled, what the button says
          seedTf,    \* seed_tf
          slide,     \* the offset sliders
          retrying,  \* a retry of _reseed is scheduled
          inStep     \* history: every toggle found the service, nobody else acted

dashboard == <<served, buffered, labelled, seedTf, slide, retrying, inStep>>

\* The first _reseed is scheduled, 0.5 s after the start.
DashboardInit ==
  /\ served = TRUE
  /\ buffered = NoPose
  /\ labelled = FALSE
  /\ seedTf = NoPose /\ slide = 0
  /\ retrying = TRUE
  /\ inStep = ~enabled

-----------------------------------------------------------------------------
BufferTransform ==
  /\ served /\ buffered # arm
  /\ buffered' = arm
  /\ UNCHANGED <<served, labelled, seedTf, slide, retrying, inStep, live>>

\* spin_until_future_complete, if the service was there to be called.
Spin ==
  /\ served' = (served /\ ~ready)
  /\ IF ready THEN buffered' \in {buffered, arm} ELSE UNCHANGED buffered

CallEnable(on) == Request(enables, on) /\ Spin

\* _toggle_enable: the button changes whatever the answer.
Toggle ==
  /\ labelled' = ~labelled
  /\ CallEnable(~labelled)
  /\ inStep' = (inStep /\ ready)
  /\ UNCHANGED <<seedTf, slide, retrying,
                 ready, stiff, enabled, target, arm, stiffnesses, targets, mode, change>>

Tare ==
  /\ Spin
  /\ UNCHANGED <<labelled, seedTf, slide, retrying, inStep, live>>

SlideStiffness(on) ==
  /\ Request(stiffnesses, on)
  /\ Spin
  /\ UNCHANGED <<labelled, seedTf, slide, retrying, inStep,
                 ready, stiff, enabled, target, arm, enables, targets, mode, change>>

\* The presets; damping, deadband and friction set nothing anybody reads here.
Preset == SlideStiffness(TRUE)

PublishSlide(from, by) ==
  IF from = NoPose THEN UNCHANGED targets
                   ELSE from + by \in Reach /\ Put(targets, from + by)

\* An offset slider; by = 0 is also _reset_offsets.
SlideOffset(by) ==
  /\ slide' = by
  /\ PublishSlide(seedTf, by)
  /\ UNCHANGED <<served, buffered, labelled, seedTf, retrying, inStep,
                 ready, stiff, enabled, target, arm, stiffnesses, enables, mode, change>>

\* _reseed, by the button or by the timer, which it sets again without a transform.
SeedFromBuffer ==
  /\ IF buffered = NoPose
       THEN UNCHANGED <<seedTf, slide, targets>>
       ELSE /\ seedTf' = buffered /\ slide' = 0
            /\ PublishSlide(buffered, 0)
  /\ UNCHANGED <<served, buffered, labelled, inStep,
                 ready, stiff, enabled, target, arm, stiffnesses, enables, mode, change>>

PressReseed ==
  /\ SeedFromBuffer
  /\ retrying' = (retrying \/ buffered = NoPose)

Retry ==
  /\ retrying
  /\ SeedFromBuffer
  /\ retrying' = (buffered = NoPose)

DashboardStep ==
  \/ BufferTransform \/ Toggle \/ Tare \/ Preset \/ PressReseed \/ Retry
  \/ \E on \in BOOLEAN : SlideStiffness(on)
  \/ \E by \in Slides : SlideOffset(by)

=============================================================================
