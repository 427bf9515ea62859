------------------------------- MODULE Panel --------------------------------
(***************************************************************************)
(* The operator panel, armv7_rqt/armv7_widget.py, over LiveController.     *)
(*                                                                         *)
(* Every handler of the GUI thread is one action; callbacks only store     *)
(* what they are told.  Damping, friction, null space and joint jogs set   *)
(* nothing another handler reads and are left out; a joint jog is a Move.  *)
(***************************************************************************)
EXTENDS LiveController

CONSTANTS Offsets,   \* what the offset boxes can be set to
          Joints,    \* the joints whose faults can be reset
          Pulses,    \* bound on the pulses under way
          Sessions   \* the sets of tabs an operator may use in one session

ASSUME PanelAssumption ==
  /\ Offsets \subseteq Int /\ 0 \in Offsets /\ Pulses \in Nat \ {0}
  /\ Sessions \subseteq SUBSET {"force", "jog", "tuning", "joints"}

VARIABLES tabs,        \* the tabs of this session
          tf,          \* the latest transform
          heard,       \* _mode
          news,        \* current_mode on its way
          box, button, \* what the spring and the enable button show
          seed, offset,\* _seed_tf and the offset box
          servo,       \* _servo_started
          jog,         \* the sign of _jog_axis, or 0
          fjog,        \* _fjog
          twist,       \* the last twist sent
          pulses,      \* single-shot timers that will end a pulse
          reset,       \* joints whose last reset command is 1
          told,        \* history: the displays were right and nothing was lost since
          flipped,     \* history: the mode changed since the last twist
          rest         \* history: nothing moved since the spring was switched on

display == <<box, button>>
anchor  == <<seed, offset>>
jogging == <<servo, jog, fjog, twist, flipped>>
panel   == <<tabs, tf, heard, news, display, anchor, jogging, pulses, reset, told, rest>>

\* current_mode is latched, but the panel's subscription is not.
PanelInit ==
  /\ tabs \in Sessions
  /\ tf = NoPose
  /\ heard = "unknown" /\ news \in {"none", mode}
  /\ box = FALSE /\ button = FALSE
  /\ seed = NoPose /\ offset = 0
  /\ servo = FALSE /\ jog = 0 /\ fjog = NoPose /\ twist = 0
  /\ pulses = 0 /\ reset = {}
  /\ told = FALSE /\ flipped = FALSE /\ rest = FALSE

-----------------------------------------------------------------------------
\* What the handlers share.
PublishTarget(place) == place \in Reach /\ Put(targets, place)

SetStiffness(on) == Request(stiffnesses, on)

\* The displays follow the controller only if the request gets there undisturbed.
Follows == told' = (told /\ ready /\ change = "none")

\* _reseed_target; without a transform nothing happens.
ReseedTarget ==
  IF tf = NoPose
    THEN UNCHANGED <<anchor, targets>>
    ELSE /\ seed' = tf /\ offset' = 0
         /\ PublishTarget(tf)

\* Mutant: what was seeded before is good enough.
OnSpring_SeedOnce(on) ==
  /\ IF on THEN IF seed = NoPose THEN ReseedTarget
                ELSE PublishTarget(seed) /\ UNCHANGED anchor
           ELSE UNCHANGED <<anchor, targets>>
  /\ SetStiffness(on)
  /\ rest' = (on /\ tf = arm /\ ready)

\* _on_spring_toggle.
OnSpring(on) ==
  /\ IF on THEN ReseedTarget ELSE UNCHANGED <<anchor, targets>>
  /\ SetStiffness(on)
  /\ rest' = (on /\ tf = arm /\ ready)

-----------------------------------------------------------------------------
HearTransform ==
  /\ tf # arm
  /\ tf' = arm
  /\ UNCHANGED <<tabs, heard, news, display, anchor, jogging, pulses, reset, told, rest, live>>

\* Mutant: what is there is taken, a message or not.
HearMode_Empty ==
  /\ heard' = news /\ news' = "none"
  /\ flipped' = (flipped \/ (jog # 0 /\ heard' # heard))
  /\ UNCHANGED <<tabs, tf, display, anchor, servo, jog, fjog, twist, pulses, reset, told, rest, live>>

HearMode ==
  /\ news # "none"
  /\ heard' = news /\ news' = "none"
  /\ flipped' = (flipped \/ (jog # 0 /\ heard' # heard))
  /\ UNCHANGED <<tabs, tf, display, anchor, servo, jog, fjog, twist, pulses, reset, told, rest, live>>

\* The two buttons above the tabs.  The displays change whatever the answer.
SwitchToForce ==
  /\ jog = 0
  /\ Ask("force")
  /\ servo' = FALSE
  /\ button' = TRUE /\ box' = FALSE
  /\ told' = (CanChange("force") /\ stiffnesses = <<>> /\ enables = <<>>)
  /\ rest' = FALSE
  /\ UNCHANGED <<tabs, tf, heard, news, anchor, jog, fjog, twist, flipped, pulses, reset,
                 ready, stiff, enabled, target, arm, channels, mode>>

SwitchToPosition ==
  /\ jog = 0
  /\ Ask("position")
  /\ button' = FALSE /\ box' = FALSE
  /\ told' = FALSE
  /\ rest' = FALSE
  /\ UNCHANGED <<tabs, tf, heard, news, anchor, jogging, pulses, reset,
                 ready, stiff, enabled, target, arm, channels, mode>>

-----------------------------------------------------------------------------
\* The tab of the force mode, and that of tuning.
ToggleSpring ==
  /\ jog = 0 /\ "force" \in tabs
  /\ box' = ~box
  /\ OnSpring(~box)
  /\ Follows
  /\ UNCHANGED <<tabs, tf, heard, news, button, jogging, pulses, reset,
                 ready, stiff, enabled, target, arm, enables, mode, change>>

ToggleEnable ==
  /\ jog = 0 /\ "force" \in tabs
  /\ button' = ~button
  /\ Request(enables, ~button)
  /\ Follows
  /\ UNCHANGED <<tabs, tf, heard, news, box, anchor, jogging, pulses, reset, rest,
                 ready, stiff, enabled, target, arm, stiffnesses, targets, mode, change>>

\* _publish_target; before the first seed nothing is sent.
ChangeOffset(d) ==
  /\ jog = 0 /\ "force" \in tabs /\ d # offset
  /\ offset' = d
  /\ IF seed = NoPose THEN UNCHANGED targets ELSE PublishTarget(seed + d)
  /\ rest' = FALSE
  /\ UNCHANGED <<tabs, tf, heard, news, display, seed, jogging, pulses, reset, told,
                 ready, stiff, enabled, target, arm, stiffnesses, enables, mode, change>>

Reseed ==
  /\ jog = 0 /\ "force" \in tabs
  /\ ReseedTarget
  /\ rest' = FALSE
  /\ UNCHANGED <<tabs, tf, heard, news, display, jogging, pulses, reset, told,
                 ready, stiff, enabled, target, arm, stiffnesses, enables, mode, change>>

\* Mutant: the box is not looked at.
ChangeStiffness_Always ==
  /\ jog = 0 /\ "tuning" \in tabs
  /\ SetStiffness(TRUE) /\ Follows
  /\ UNCHANGED <<tabs, tf, heard, news, display, anchor, jogging, pulses, reset, rest,
                 ready, stiff, enabled, target, arm, enables, targets, mode, change>>

\* _apply_stiffness.
ChangeStiffness ==
  /\ jog = 0 /\ "tuning" \in tabs /\ box
  /\ SetStiffness(TRUE) /\ Follows
  /\ UNCHANGED <<tabs, tf, heard, news, display, anchor, jogging, pulses, reset, rest,
                 ready, stiff, enabled, target, arm, enables, targets, mode, change>>

\* _apply_preset: switches the spring on if it is off.
ApplyPreset ==
  /\ jog = 0 /\ "tuning" \in tabs
  /\ box' = TRUE
  /\ IF box THEN SetStiffness(TRUE) /\ UNCHANGED <<anchor, targets, rest>> ELSE OnSpring(TRUE)
  /\ Follows
  /\ UNCHANGED <<tabs, tf, heard, news, button, jogging, pulses, reset,
                 ready, stiff, enabled, target, arm, enables, mode, change>>

-----------------------------------------------------------------------------
\* Cartesian jog: a button is held.
Press(sign) ==
  /\ jog = 0 /\ "jog" \in tabs /\ heard # "unknown"
  /\ jog' = sign
  /\ IF heard = "position" THEN servo' = (servo \/ ready) /\ UNCHANGED fjog
                           ELSE fjog' = tf /\ UNCHANGED servo
  /\ UNCHANGED <<tabs, tf, heard, news, display, anchor, twist, flipped, pulses, reset,
                 told, rest, live>>

\* _jog_tick.  In position mode a twist; in force mode the target walks on.
Tick ==
  /\ jog # 0
  /\ IF heard = "position"
       THEN twist' = jog /\ UNCHANGED <<fjog, targets, rest>>
       ELSE /\ fjog # NoPose
            /\ fjog' = fjog + jog
            /\ PublishTarget(fjog')
            /\ rest' = FALSE
            /\ UNCHANGED twist
  /\ UNCHANGED <<tabs, tf, heard, news, display, anchor, servo, jog, flipped, pulses, reset, told,
                 ready, stiff, enabled, target, arm, stiffnesses, enables, mode, change>>

\* Mutant: the stream just ends.
Release_NoZero ==
  /\ jog # 0
  /\ jog' = 0
  /\ UNCHANGED <<tabs, tf, heard, news, display, anchor, servo, fjog, twist, flipped, pulses,
                 reset, told, rest, live>>

\* _jog_release: the zero twist is sent in position mode only.
Release ==
  /\ jog # 0
  /\ jog' = 0
  /\ twist' = IF heard = "position" THEN 0 ELSE twist
  /\ flipped' = (flipped /\ heard # "position")
  /\ UNCHANGED <<tabs, tf, heard, news, display, anchor, servo, fjog, pulses, reset, told, rest, live>>

StopServo ==
  /\ jog = 0 /\ "jog" \in tabs
  /\ servo' = FALSE
  /\ UNCHANGED <<tabs, tf, heard, news, display, anchor, jog, fjog, twist, flipped, pulses,
                 reset, told, rest, live>>

-----------------------------------------------------------------------------
\* Fault reset: the command goes up, and a timer brings it down.
ResetFaults(J) ==
  /\ jog = 0 /\ "joints" \in tabs /\ pulses < Pulses
  /\ reset' = J /\ pulses' = pulses + 1
  /\ UNCHANGED <<tabs, tf, heard, news, display, anchor, jogging, told, rest, live>>

EndPulse ==
  /\ pulses > 0
  /\ reset' = {} /\ pulses' = pulses - 1
  /\ UNCHANGED <<tabs, tf, heard, news, display, anchor, jogging, told, rest, live>>

PanelStep ==
  \/ HearTransform \/ HearMode \/ SwitchToForce \/ SwitchToPosition
  \/ ToggleSpring \/ ToggleEnable \/ Reseed \/ ChangeStiffness \/ ApplyPreset
  \/ Tick \/ Release \/ StopServo \/ EndPulse
  \/ \E d \in Offsets : ChangeOffset(d)
  \/ \E sign \in {-1, 1} : Press(sign)
  \/ \E j \in Joints : ResetFaults({j})
  \/ ResetFaults(Joints)

=============================================================================
