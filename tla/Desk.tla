-------------------------------- MODULE Desk --------------------------------
(***************************************************************************)
(* An operator at one of the two panels, and a running cell: the live      *)
(* controller, the mode switcher, an arm that moves, and another client    *)
(* that may change the mode.                                               *)
(***************************************************************************)
EXTENDS Panel, Dashboard

VARIABLE open \* the window that is open: "panel", "dashboard" or "none"

desk == <<live, panel, dashboard, open>>

Init == LiveInit /\ PanelInit /\ DashboardInit /\ open \in {"panel", "dashboard"}

\* A change the operator did not ask for ends what the displays promise.
OthersChange(m) ==
  /\ CanChange(m) /\ change' = m
  /\ told' = FALSE /\ rest' = FALSE /\ inStep' = FALSE
  /\ UNCHANGED <<tabs, tf, heard, news, display, anchor, jogging, pulses, reset,
                 served, buffered, labelled, seedTf, slide, retrying, open,
                 ready, stiff, enabled, target, arm, channels, mode>>

ArmMoves(place) ==
  /\ Move(place)
  /\ rest' = FALSE
  /\ UNCHANGED <<tabs, tf, heard, news, display, anchor, jogging, pulses, reset, told, dashboard, open>>

AnnounceMode(m) ==
  /\ Announce(m)
  /\ news' = m
  /\ UNCHANGED <<tabs, tf, heard, display, anchor, jogging, pulses, reset, told, rest, dashboard, open>>

ControllerStep ==
  \/ /\ ComeUp \/ TakeStiffness \/ TakeEnable \/ TakeTarget \/ Soften \/ Disable
     /\ UNCHANGED <<panel, dashboard, open>>
  \/ \E m \in {"position", "force"} : AnnounceMode(m) \/ OthersChange(m)
  \/ \E place \in Room : ArmMoves(place)

\* shutdown: the timers stop, Servo too; a pulse is not ended any more.
ClosePanel ==
  /\ open = "panel"
  /\ open' = "none"
  /\ jog' = 0 /\ servo' = FALSE /\ pulses' = 0
  /\ UNCHANGED <<tabs, tf, heard, news, display, anchor, fjog, twist, flipped, reset, told, rest,
                 live, dashboard>>

Next ==
  \/ ControllerStep
  \/ open = "panel" /\ PanelStep /\ UNCHANGED <<dashboard, open>>
  \/ open = "dashboard" /\ DashboardStep /\ UNCHANGED <<panel, open>>
  \/ ClosePanel

Spec == Init /\ [][Next]_desk

-----------------------------------------------------------------------------
TypeOK ==
  /\ LiveTypeOK
  /\ tabs \in Sessions /\ tf \in Room \cup {NoPose}
  /\ heard \in {"unknown", "position", "force"} /\ news \in {"none", "position", "force"}
  /\ {box, button, servo, told, flipped, rest} \subseteq BOOLEAN
  /\ seed \in Room \cup {NoPose} /\ offset \in Offsets
  /\ jog \in -1..1 /\ twist \in -1..1
  /\ fjog \in Reach \cup {NoPose}
  /\ pulses \in 0..Pulses /\ reset \subseteq Joints
  /\ {served, labelled, retrying, inStep} \subseteq BOOLEAN
  /\ buffered \in Room \cup {NoPose} /\ seedTf \in Room \cup {NoPose}
  /\ slide \in Slides
  /\ open \in {"panel", "dashboard", "none"}

(***************************************************************************)
(* What the window shows is what the controller does, once nothing is      *)
(* under way: in force mode the spring box is checked if and only if there *)
(* is a stiffness, and the enable button says whether it is enabled.  The  *)
(* panel's displays start with the first accepted change to force and are  *)
(* right until a request is lost or crosses a change of mode, or another   *)
(* client changes it; the dashboard's button until a call finds nobody.    *)
(***************************************************************************)
ShownTrue ==
  Quiet =>
    /\ open = "panel" /\ told /\ mode = "force" => box = stiff /\ button = enabled
    /\ open = "dashboard" /\ inStep => labelled = enabled

(***************************************************************************)
(* "Re-seed target to current pose (so the spring starts at rest, no       *)
(* jerk)", armv7_widget.py lines 614-615: when the stiffness leaves zero,  *)
(* the target is where the arm is.  The transform must have been fresh,    *)
(* nothing may have moved since, and the target, which is a topic, must    *)
(* have overtaken the parameter, which is a service.                       *)
(***************************************************************************)
SpringAtRest ==
  [][open = "panel" /\ ~stiff /\ stiff' /\ rest /\ targets = <<>> => target = arm]_desk

(***************************************************************************)
(* Hold to move, release to stop: with no button held and no timer         *)
(* pending, the last twist a started Servo got is zero, unless the mode    *)
(* changed under the finger, and no joint is left with its reset command   *)
(* up, which would swallow the next rising edge.                           *)
(***************************************************************************)
HandsOff ==
  /\ open = "panel" /\ jog = 0 /\ servo /\ ~flipped => twist = 0
  /\ open = "panel" /\ pulses = 0 => reset = {}

=============================================================================
