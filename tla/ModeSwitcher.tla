--------------------------- MODULE ModeSwitcher -----------------------------
(***************************************************************************)
(* Switching the arm between position and force mode while it is powered:  *)
(* armv7_mode_manager/mode_switcher.py, with the parts of the system whose *)
(* order it is responsible for: which controllers are active, whether the  *)
(* impedance controller is enabled and how far its ramp is, what mode the  *)
(* drives are in, and whether the position command is the pose of the arm. *)
(*                                                                         *)
(* Each member of Clients is one caller of ~/to_position or ~/to_force.    *)
(* The node serves them on a MultiThreadedExecutor with a reentrant group  *)
(* and takes no lock, so the handlers of two callers interleave.  Remote   *)
(* calls take effect at one moment; a tick of the clock is the unit of the *)
(* sleeps, of the ramp and of the latency of a drive.                      *)
(***************************************************************************)
EXTENDS Integers

CONSTANTS Clients,      \* callers of the two services
          RampTime,     \* ramp_in_time of the impedance controller
          EngageDelay,  \* force_engage_delay
          SwitchDelay,  \* mode_switch_delay
          ModeLatency,  \* how long a drive takes to follow a mode command
          ManageDrive,  \* manage_drive_mode
          AutoEnable,   \* auto_enable_force
          Faults        \* the remote calls that may fail

ASSUME ModeAssumption ==
  /\ Clients # {}
  /\ {RampTime, EngageDelay, SwitchDelay, ModeLatency} \subseteq Nat
  /\ RampTime <= EngageDelay
  /\ ModeLatency < SwitchDelay
  /\ {ManageDrive, AutoEnable} \subseteq BOOLEAN
  /\ Faults \subseteq {"switch", "stiffness", "enable"}

VARIABLES jtc,       \* the trajectory controller is active
          imp,       \* the impedance controller is active
          enabled,   \* enabled_ of the impedance controller
          ramp,      \* ticks since its ramp was restarted, up to RampTime
          soft,      \* its stiffness is zero
          drive,     \* mode of operation of the drives
          pending,   \* the mode written to them that they do not follow yet
          age,       \* ticks since it was written
          fresh,     \* the trajectory controller has not run since its activation
          seeded,    \* the position command is the pose of the arm
          mode,      \* _mode, latched on ~/current_mode
          pc,        \* where each handler is
          timer,     \* ticks its sleep still lasts
          failed     \* the remote calls of which one has failed so far (history)

controllers == <<jtc, imp, fresh>>
impedance   == <<enabled, ramp, soft>>
drives      == <<drive, pending, age>>
vars        == <<controllers, impedance, drives, seeded, mode, pc, timer, failed>>

ToPosition == {"activate", "seeding", "settling", "deactivate", "disable", "announcePosition"}
ToForce    == {"swap", "soften", "enable", "ramping", "announceForce"}

Idle == \A c \in Clients : pc[c] = "idle"

\* unified.launch.py: one of the two controllers is spawned active.
Init ==
  /\ mode \in {"position", "force"}
  /\ jtc = (mode = "position")
  /\ imp = (mode = "force")
  /\ fresh = FALSE
  /\ enabled = FALSE
  /\ ramp = 0
  /\ soft \in BOOLEAN
  /\ drive = "CSP" /\ pending = "none" /\ age = 0
  /\ seeded = TRUE
  /\ pc = [c \in Clients |-> "idle"]
  /\ timer = [c \in Clients |-> 0]
  /\ failed = {}

-----------------------------------------------------------------------------
(***************************************************************************)
(* A remote call: carried out and answered; refused or lost; or carried    *)
(* out with the answer lost.  The node does not tell the last two apart.   *)
(***************************************************************************)
Fine    == [done |-> TRUE, ok |-> TRUE]
Refused == [done |-> FALSE, ok |-> FALSE]
Unheard == [done |-> TRUE, ok |-> FALSE]

Outcomes(call) == IF call \in Faults THEN {Fine, Refused, Unheard} ELSE {Fine}

\* STRICT: a switch of a controller that is in the requested state is refused.
SwitchOutcomes(legal) == IF legal THEN Outcomes("switch") ELSE {Refused}

\* History: a call that was legal and that went wrong.
Note(call, legal, o) == failed' = IF legal /\ o # Fine THEN failed \cup {call} ELSE failed

Goto(c, label) ==
  /\ pc' = [pc EXCEPT ![c] = label]
  /\ UNCHANGED timer

Sleep(c, label, ticks) ==
  /\ pc' = [pc EXCEPT ![c] = label]
  /\ timer' = [timer EXCEPT ![c] = ticks]

\* _write_drive_mode, on a topic of which the drives keep the last message.
WriteDriveMode(m) == pending' = m /\ age' = 0 /\ UNCHANGED drive

Call(c, first) ==
  /\ pc[c] = "idle"
  /\ Goto(c, first)
  /\ UNCHANGED <<failed, controllers, impedance, drives, seeded, mode>>

-----------------------------------------------------------------------------
(***************************************************************************)
(* _on_to_position.                                                        *)
(***************************************************************************)
\* Mutant: the mode is commanded before the controller has run.
ActivateJtc_NoWait(c) ==
  /\ pc[c] = "activate"
  /\ \E o \in SwitchOutcomes(~jtc) :
       /\ Note("switch", ~jtc, o)
       /\ jtc' = (jtc \/ o.done)
       /\ fresh' = (fresh \/ o.done)
       /\ IF o.ok THEN Sleep(c, "seeding", 0) ELSE Goto(c, "idle")
  /\ UNCHANGED <<imp, impedance, drives, seeded, mode>>

\* The trajectory controller is activated beside the impedance controller.
ActivateJtc(c) ==
  /\ pc[c] = "activate"
  /\ \E o \in SwitchOutcomes(~jtc) :
       /\ Note("switch", ~jtc, o)
       /\ jtc' = (jtc \/ o.done)
       /\ fresh' = (fresh \/ o.done)
       /\ IF o.ok THEN Sleep(c, "seeding", SwitchDelay) ELSE Goto(c, "idle")
  /\ UNCHANGED <<imp, impedance, drives, seeded, mode>>

\* Mutant: the impedance controller is deactivated at once.
CommandCsp_NotSettled(c) ==
  /\ pc[c] = "seeding" /\ timer[c] = 0
  /\ IF ManageDrive THEN WriteDriveMode("CSP") ELSE UNCHANGED drives
  /\ Goto(c, "deactivate")
  /\ UNCHANGED <<failed, controllers, impedance, seeded, mode>>

CommandCsp(c) ==
  /\ pc[c] = "seeding" /\ timer[c] = 0
  /\ IF ManageDrive
       THEN WriteDriveMode("CSP") /\ Sleep(c, "settling", SwitchDelay)
       ELSE UNCHANGED drives /\ Goto(c, "deactivate")
  /\ UNCHANGED <<failed, controllers, impedance, seeded, mode>>

Settled(c) ==
  /\ pc[c] = "settling" /\ timer[c] = 0
  /\ Goto(c, "deactivate")
  /\ UNCHANGED <<failed, controllers, impedance, drives, seeded, mode>>

\* The result of this switch is ignored.
DeactivateImpedance(c) ==
  /\ pc[c] = "deactivate"
  /\ \E o \in SwitchOutcomes(imp) : imp' = (imp /\ ~o.done) /\ Note("switch", imp, o)
  /\ Goto(c, IF AutoEnable THEN "disable" ELSE "announcePosition")
  /\ UNCHANGED <<jtc, fresh, impedance, drives, seeded, mode>>

\* So is the result of this call.
DisableImpedance(c) ==
  /\ pc[c] = "disable"
  /\ \E o \in Outcomes("enable") : enabled' = (enabled /\ ~o.done) /\ Note("enable", TRUE, o)
  /\ Goto(c, "announcePosition")
  /\ UNCHANGED <<controllers, ramp, soft, drives, seeded, mode>>

AnnouncePosition(c) ==
  /\ pc[c] = "announcePosition"
  /\ mode' = "position"
  /\ Goto(c, "idle")
  /\ UNCHANGED <<failed, controllers, impedance, drives, seeded>>

-----------------------------------------------------------------------------
(***************************************************************************)
(* _on_to_force.                                                           *)
(***************************************************************************)
\* Mutant: the trajectory controller is not deactivated.
SwapControllers_OnlyActivates(c) ==
  /\ pc[c] = "swap"
  /\ \E o \in SwitchOutcomes(~imp) :
       /\ Note("switch", ~imp, o)
       /\ imp' = (imp \/ o.done)
       /\ ramp' = IF o.done THEN 0 ELSE ramp
       /\ Goto(c, IF o.ok THEN "soften" ELSE "idle")
  /\ UNCHANGED <<jtc, fresh, enabled, soft, drives, seeded, mode>>

\* One switch; the activation restarts the ramp of the impedance controller.
SwapControllers(c) ==
  /\ pc[c] = "swap"
  /\ \E o \in SwitchOutcomes(jtc /\ ~imp) :
       /\ Note("switch", jtc /\ ~imp, o)
       /\ jtc' = (jtc /\ ~o.done)
       /\ imp' = (imp \/ o.done)
       /\ fresh' = (fresh /\ ~o.done)
       /\ ramp' = IF o.done THEN 0 ELSE ramp
       /\ Goto(c, IF o.ok THEN "soften" ELSE "idle")
  /\ UNCHANGED <<enabled, soft, drives, seeded, mode>>

\* Mutant: the stiffness is left as it is.
Soften_Skipped(c) ==
  /\ pc[c] = "soften"
  /\ IF AutoEnable THEN Goto(c, "enable")
     ELSE IF ManageDrive THEN Sleep(c, "ramping", SwitchDelay)
     ELSE Goto(c, "announceForce")
  /\ UNCHANGED <<failed, controllers, impedance, drives, seeded, mode>>

\* _set_stiffness(0); its result is ignored.
Soften(c) ==
  /\ pc[c] = "soften"
  /\ \E o \in Outcomes("stiffness") : soft' = (soft \/ o.done) /\ Note("stiffness", TRUE, o)
  /\ IF AutoEnable THEN Goto(c, "enable")
     ELSE IF ManageDrive THEN Sleep(c, "ramping", SwitchDelay)
     ELSE Goto(c, "announceForce")
  /\ UNCHANGED <<controllers, enabled, ramp, drives, seeded, mode>>

\* Mutant: waits for the drive, not for the ramp.
EnableImpedance_ShortWait(c) ==
  /\ pc[c] = "enable"
  /\ \E o \in Outcomes("enable") :
       /\ Note("enable", TRUE, o)
       /\ enabled' = (enabled \/ o.done)
       /\ ramp' = IF o.done /\ ~enabled THEN 0 ELSE ramp
  /\ IF ManageDrive THEN Sleep(c, "ramping", SwitchDelay) ELSE Goto(c, "announceForce")
  /\ UNCHANGED <<controllers, soft, drives, seeded, mode>>

\* A failure is only logged.  Enabling restarts the ramp, unless it was enabled.
EnableImpedance(c) ==
  /\ pc[c] = "enable"
  /\ \E o \in Outcomes("enable") :
       /\ Note("enable", TRUE, o)
       /\ enabled' = (enabled \/ o.done)
       /\ ramp' = IF o.done /\ ~enabled THEN 0 ELSE ramp
  /\ IF ManageDrive THEN Sleep(c, "ramping", EngageDelay) ELSE Goto(c, "announceForce")
  /\ UNCHANGED <<controllers, soft, drives, seeded, mode>>

\* Mutant: the mode is not written.
CommandCst_NotWritten(c) ==
  /\ pc[c] = "ramping" /\ timer[c] = 0
  /\ Goto(c, "announceForce")
  /\ UNCHANGED <<failed, controllers, impedance, drives, seeded, mode>>

CommandCst(c) ==
  /\ pc[c] = "ramping" /\ timer[c] = 0
  /\ WriteDriveMode("CST")
  /\ Goto(c, "announceForce")
  /\ UNCHANGED <<failed, controllers, impedance, seeded, mode>>

AnnounceForce(c) ==
  /\ pc[c] = "announceForce"
  /\ mode' = "force"
  /\ Goto(c, "idle")
  /\ UNCHANGED <<failed, controllers, impedance, drives, seeded>>

-----------------------------------------------------------------------------
(***************************************************************************)
(* The drives, the controllers' cycle, the operator, and time.  Sleeps may *)
(* last longer than asked for; a drive follows within ModeLatency, and the *)
(* trajectory controller runs at once.                                     *)
(***************************************************************************)
Follow ==
  /\ pending # "none"
  /\ drive' = pending
  /\ pending' = "none" /\ age' = 0
  /\ UNCHANGED <<failed, controllers, impedance, seeded, mode, pc, timer>>

\* Its first update commands the pose it finds.
Seed ==
  /\ fresh
  /\ fresh' = FALSE
  /\ seeded' = TRUE
  /\ UNCHANGED <<failed, jtc, imp, impedance, drives, mode, pc, timer>>

\* The arm is guided by hand in CST, while no mode change is under way.
FreeDrive ==
  /\ drive = "CST" /\ Idle
  /\ seeded' = FALSE
  /\ UNCHANGED <<failed, controllers, impedance, drives, mode, pc, timer>>

\* The panel's spring, offered in force mode.  An operator is slower than a drive.
Stiffen ==
  /\ mode = "force" /\ Idle /\ pending = "none"
  /\ soft' = FALSE
  /\ UNCHANGED <<failed, controllers, enabled, ramp, drives, seeded, mode, pc, timer>>

\* Mutant: the ramp is not clamped.
Tick_Unclamped ==
  /\ ~fresh
  /\ pending = "none" \/ age < ModeLatency
  /\ ramp' = IF imp THEN ramp + 1 ELSE ramp
  /\ age' = IF pending = "none" THEN 0 ELSE age + 1
  /\ timer' = [c \in Clients |-> IF timer[c] > 0 THEN timer[c] - 1 ELSE 0]
  /\ UNCHANGED <<failed, controllers, enabled, soft, drive, pending, seeded, mode, pc>>

Tick ==
  /\ ~fresh
  /\ pending = "none" \/ age < ModeLatency
  /\ ramp' = IF imp /\ ramp < RampTime THEN ramp + 1 ELSE ramp
  /\ age' = IF pending = "none" THEN 0 ELSE age + 1
  /\ timer' = [c \in Clients |-> IF timer[c] > 0 THEN timer[c] - 1 ELSE 0]
  /\ UNCHANGED <<failed, controllers, enabled, soft, drive, pending, seeded, mode, pc>>

-----------------------------------------------------------------------------
PositionStep(c) ==
  \/ ActivateJtc(c) \/ CommandCsp(c) \/ Settled(c)
  \/ DeactivateImpedance(c) \/ DisableImpedance(c) \/ AnnouncePosition(c)

ForceStep(c) ==
  \/ SwapControllers(c) \/ Soften(c) \/ EnableImpedance(c)
  \/ CommandCst(c) \/ AnnounceForce(c)

Next ==
  \/ \E c \in Clients : Call(c, "activate") \/ Call(c, "swap")
  \/ \E c \in Clients : PositionStep(c) \/ ForceStep(c)
  \/ Follow \/ Seed \/ FreeDrive \/ Stiffen \/ Tick

Spec == Init /\ [][Next]_vars

\* Time passes, what is due happens, and a handler goes on once its sleep is over.
FairSpec ==
  /\ Spec
  /\ WF_vars(Tick) /\ WF_vars(Follow) /\ WF_vars(Seed)
  /\ \A c \in Clients : WF_vars(PositionStep(c) \/ ForceStep(c))

-----------------------------------------------------------------------------
TypeOK ==
  /\ {jtc, imp, enabled, soft, fresh, seeded} \subseteq BOOLEAN
  /\ ramp \in 0..RampTime
  /\ drive \in {"CSP", "CST"} /\ pending \in {"CSP", "CST", "none"}
  /\ age \in 0..ModeLatency
  /\ mode \in {"position", "force"}
  /\ pc \in [Clients -> ToPosition \cup ToForce \cup {"idle"}]
  /\ timer \in [Clients -> Nat]
  /\ failed \subseteq Faults

(***************************************************************************)
(* The arm never hangs on nothing: when the drives obey torques, the       *)
(* impedance controller is active, enabled and fully ramped (lines 67-71,  *)
(* "the arm never sees a 0-torque window").                                *)
(***************************************************************************)
Carries == imp /\ enabled /\ ramp = RampTime

NoDrop == drive = "CST" => Carries

(***************************************************************************)
(* When the drives come back to positions, the command they find is the    *)
(* pose of the arm, not the one it had before it was guided by hand.       *)
(***************************************************************************)
NoJerk == [][drive = "CST" /\ drive' = "CSP" => seeded]_vars

(***************************************************************************)
(* Force mode is engaged with zero stiffness, however the panel left it    *)
(* (lines 79-82); only the loss of the call that asks for it, which the    *)
(* node does not look at, can break this.                                  *)
(***************************************************************************)
EngagesWeightless ==
  [][drive = "CSP" /\ drive' = "CST" => soft \/ "stiffness" \in failed]_vars

(***************************************************************************)
(* Why the arm is always held, as an inductive invariant for one caller:   *)
(* a torque mode is commanded once the ramp, started before the sleep, is  *)
(* at its end, and the impedance controller is given up once the command   *)
(* of CSP, older than a drive's latency, has been followed.  The command   *)
(* that is followed then was written before any tick since.                *)
(***************************************************************************)
InCsp == drive = "CSP" /\ pending = "none"

CallInv(c) ==
  /\ pc[c] \in {"soften", "enable"} => imp
  /\ pc[c] = "ramping" => ManageDrive /\ imp /\ enabled /\ ramp + timer[c] >= RampTime
  /\ pc[c] = "seeding" => (fresh /\ timer[c] = SwitchDelay) \/ seeded
  /\ pc[c] = "settling" => InCsp \/ (pending = "CSP" /\ age + timer[c] >= SwitchDelay)
  /\ pc[c] \in {"deactivate", "disable", "announcePosition"} => InCsp

HoldInv ==
  /\ drive = "CST" \/ pending = "CST" => Carries
  /\ ~ManageDrive => InCsp
  /\ pending = "CSP" => seeded /\ \E c \in Clients : pc[c] = "settling"
  /\ \A c \in Clients : CallInv(c)

(***************************************************************************)
(* A change that was accepted is completed, whatever fails on the way: the *)
(* drives follow, the right controller holds the arm, and the mode says    *)
(* so.  Only the impedance controller may stay active beside the other.    *)
(***************************************************************************)
ChangesComplete ==
  \A c \in Clients :
    /\ pc[c] = "soften" ~> drive = "CST" /\ Carries /\ mode = "force"
    /\ pc[c] = "seeding" ~> /\ drive = "CSP" /\ jtc /\ mode = "position"
                            /\ ~imp \/ "switch" \in failed

(***************************************************************************)
(* When no change is under way, the published mode says which controller   *)
(* is active, exactly one of the two (lines 10-13), until a switch fails   *)
(* that the STRICT manager should have carried out.                        *)
(***************************************************************************)
ModeMeansControllers ==
  Idle /\ "switch" \notin failed => jtc = (mode = "position") /\ imp = (mode = "force")

(***************************************************************************)
(* Why, as inductive invariants.  Nothing stiffens the impedance           *)
(* controller between the reset of its stiffness and the moment the drives *)
(* obey torques; and each phase of a change has made its switch or not.    *)
(***************************************************************************)
SoftInv ==
  (pending = "CST" \/ \E c \in Clients : pc[c] \in {"enable", "ramping"})
     => soft \/ "stiffness" \in failed

Means(c) ==
  /\ pc[c] \in {"idle", "activate", "swap"}
       => jtc = (mode = "position") /\ imp = (mode = "force")
  /\ pc[c] \in ToPosition \ {"activate"} => jtc
  /\ pc[c] \in {"disable", "announcePosition"} => ~imp
  /\ pc[c] \in ToForce \ {"swap"} => imp /\ ~jtc

MeansInv == "switch" \notin failed => \A c \in Clients : Means(c)

(***************************************************************************)
(* The promise of ModeHandover: from one controller to the other and back  *)
(* without a moment in which neither is active or nothing carries the arm, *)
(* whatever switches fail or go unanswered.                                *)
(***************************************************************************)
Handover == INSTANCE ModeHandover
              WITH position <- jtc, force <- imp, carries <- Carries, torques <- (drive = "CST")

HandsOver == Handover!Spec

\* Its inductive invariant, beside HoldInv.
PhaseInv ==
  /\ jtc \/ imp
  /\ \A c \in Clients : pc[c] \in ToPosition \ {"activate"} => jtc
=============================================================================
