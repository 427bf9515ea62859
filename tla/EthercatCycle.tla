--------------------------- MODULE EthercatCycle ----------------------------
(***************************************************************************)
(* The EtherCAT path of one joint: the hardware component                  *)
(* (ethercat_driver.cpp) and the master (ec_master.cpp) that run the       *)
(* plugin of CiA402Drive, and outside of them the bus, the servo drive and *)
(* the controllers of ros2_control.                                        *)
(*                                                                         *)
(* A cycle of ros2_control is read (receive, one pass over the channels),  *)
(* control (the controllers write the command interfaces), write (another  *)
(* pass, send) and bus: the frame reaches the drive, which acts on the     *)
(* outputs and puts into the frame the inputs that the next cycle reads.   *)
(***************************************************************************)
EXTENDS CiA402Drive

CONSTANTS CheckPeriod,      \* check_state_frequency_: the code uses 10
          MaxUpsets,        \* bound: faults, quick stops and bus losses of a run
          FramesGetLost,    \* frames may be lost on either way
          HardFaults,       \* a fault may outlast its report, and hit a drive not yet powered
          ManualResets      \* the operator uses reset_fault

ASSUME CycleAssumption ==
  /\ CheckPeriod \in Nat \ {0} /\ MaxUpsets \in Nat
  /\ {FramesGetLost, HardFaults, ManualResets} \subseteq BOOLEAN

VARIABLES driver,     \* on_activate: inactive, activating; activated_: active
          phase,      \* where the cycle is
          counter,    \* update_counter_ % CheckPeriod
          al,         \* the slave is in the EtherCAT state OP
          wire,       \* the inputs in the frame on its way back
          dstate,     \* the drive's own CiA 402 state
          dmode,      \* the mode it works in
          pose,       \* where the joint is
          resetSeen,  \* bit 7 of the control word before
          cause,      \* the cause of the fault is present
          upsets,     \* faults, quick stops and losses so far
          answered,   \* the drive has answered a frame of this launch (history)
          zeroTaken   \* a controller took the zero of the blank image for the
                      \* position (history)

master == <<driver, phase, counter>>
servo  == <<al, wire, dstate, dmode, pose, resetSeen, cause, upsets>>
history == <<answered, zeroTaken>>
vars   == <<image, plugin, commands, master, servo, history>>

-----------------------------------------------------------------------------
(***************************************************************************)
(* EcMaster.  readData and update receive the frame, unless it is lost,    *)
(* look at the slave's state every CheckPeriod-th time, and run the pass.  *)
(***************************************************************************)
Receive ==
  /\ \E in \in IF FramesGetLost THEN {wire, input} ELSE {wire} :
       Pass(in, IF counter = 0 THEN al ELSE operational)
  /\ counter' = (counter + 1) % CheckPeriod

(***************************************************************************)
(* EthercatDriver.  While on_activate holds the mutex, read and write find *)
(* it taken and do nothing.                                                *)
(***************************************************************************)
BeginActivate ==
  /\ driver = "inactive"
  /\ driver' = "activating"
  /\ UNCHANGED <<image, plugin, commands, phase, counter, servo, history>>

\* The loop of on_activate: one update, which sends at once.
ActivateUpdate ==
  /\ driver = "activating"
  /\ phase = "read"
  /\ Receive
  /\ phase' = "bus"
  /\ UNCHANGED <<commands, driver, servo, history>>

\* Its condition.  It calls EcSlave::initialized, which the plugin does not
\* override (it is not const there): the base class answers TRUE.
SlaveInitialized == TRUE

\* read and write find the mutex free from now on, wherever the cycle is.
EndActivate ==
  /\ driver = "activating"
  /\ phase = "sent"
  /\ SlaveInitialized
  /\ driver' = "active"
  /\ phase' \in {"read", "write"}
  /\ UNCHANGED <<image, plugin, commands, counter, servo, history>>

Read ==
  /\ driver = "active"
  /\ phase = "read"
  /\ Receive
  /\ phase' = "control"
  /\ UNCHANGED <<commands, driver, servo, history>>

\* writeData: a second pass over the inputs of this cycle, then send.
Write ==
  /\ driver = "active"
  /\ phase = "write"
  /\ Pass(input, operational)
  /\ phase' = "bus"
  /\ UNCHANGED <<commands, driver, counter, servo, history>>

-----------------------------------------------------------------------------
(***************************************************************************)
(* The controllers: the trajectory controller takes the position it reads  *)
(* as its first command and then commands poses; the mode and the reset    *)
(* are written by the GPIO controllers.  No launch file makes a controller *)
(* wait for the drive: arm.launch.py spawns it when its timers are over.   *)
(***************************************************************************)
CommandPosition ==
  \/ /\ cmd = NaN
     /\ cmd' = lastPosition
  \/ cmd # NaN /\ cmd' \in Poses

\* The mode switcher lets the drive follow before it changes the mode again.
CommandMode ==
  /\ display = mode
  /\ modeCmd' \in {"CSP", "CST"}

CommandReset ==
  /\ ManualResets
  /\ resetCmd' \in {0, 1}

Control ==
  /\ phase = "control"
  /\ phase' = "write"
  /\ \/ UNCHANGED commands
     \/ CommandPosition /\ UNCHANGED <<modeCmd, resetCmd>>
     \/ CommandMode /\ UNCHANGED <<cmd, resetCmd>>
     \/ CommandReset /\ UNCHANGED <<cmd, modeCmd>>
  /\ zeroTaken' = (zeroTaken \/ cmd' = Origin)
  /\ UNCHANGED <<image, plugin, driver, counter, servo, answered>>

-----------------------------------------------------------------------------
(***************************************************************************)
(* The drive, as CiA 402 has it.  Every command needs bit 7 down; a fault  *)
(* is reset by its rising edge, once the cause is gone.                    *)
(***************************************************************************)
Commanded ==
  IF 7 \in cw                       THEN "none"
  ELSE IF 1 \notin cw               THEN "disable voltage"
  ELSE IF 2 \notin cw               THEN "quick stop"
  ELSE IF 0 \notin cw               THEN "shutdown"
  ELSE IF 3 \notin cw               THEN "switch on"
  ELSE "enable operation"

Obeyed ==
  CASE dstate = "NOT_READY_TO_SWITCH_ON"                           -> "SWITCH_ON_DISABLED"
    [] dstate = "FAULT_REACTION_ACTIVE"                            -> "FAULT"
    [] dstate = "FAULT" /\ 7 \in cw /\ ~resetSeen /\ ~cause        -> "SWITCH_ON_DISABLED"
    [] dstate = "SWITCH_ON_DISABLED" /\ Commanded = "shutdown"     -> "READY_TO_SWITCH_ON"
    [] dstate = "READY_TO_SWITCH_ON"
       /\ Commanded \in {"switch on", "enable operation"}          -> "SWITCH_ON"
    [] dstate \in {"SWITCH_ON", "QUICK_STOP_ACTIVE"}
       /\ Commanded = "enable operation"                           -> "OPERATION_ENABLED"
    [] dstate = "OPERATION_ENABLED" /\ Commanded = "switch on"     -> "SWITCH_ON"
    [] dstate = "OPERATION_ENABLED" /\ Commanded = "quick stop"    -> "QUICK_STOP_ACTIVE"
    [] dstate \in {"SWITCH_ON", "OPERATION_ENABLED"}
       /\ Commanded = "shutdown"                                   -> "READY_TO_SWITCH_ON"
    [] dstate \in {"READY_TO_SWITCH_ON", "SWITCH_ON", "OPERATION_ENABLED", "QUICK_STOP_ACTIVE"}
       /\ Commanded = "disable voltage"                            -> "SWITCH_ON_DISABLED"
    [] OTHER                                                       -> dstate

\* The status word of a state: bit 5 is free where deviceState masks it away.
StatusWords(s) ==
  CASE s = "NOT_READY_TO_SWITCH_ON" -> {{}, {5}}
    [] s = "SWITCH_ON_DISABLED"     -> {{6}, {5, 6}}
    [] s = "READY_TO_SWITCH_ON"     -> {{0, 5}}
    [] s = "SWITCH_ON"              -> {{0, 1, 5}}
    [] s = "OPERATION_ENABLED"      -> {{0, 1, 2, 5}}
    [] s = "QUICK_STOP_ACTIVE"      -> {{0, 1, 2}}
    [] s = "FAULT_REACTION_ACTIVE"  -> {{0, 1, 2, 3}}
    [] s = "FAULT"                  -> {{3}, {3, 5}}

Follows == dstate = "OPERATION_ENABLED" /\ dmode = "CSP"

\* These servos report a mode only once they are enabled.
Sample ==
  [status : StatusWords(dstate), position : {pose},
   display : {IF dstate = "OPERATION_ENABLED" THEN dmode ELSE "NoMode"}]

AfterBus == IF driver = "activating" THEN "sent" ELSE "read"

\* An enabled drive in CSP goes to its target; else gravity or a hand moves the
\* joint or, in the frame that disables it, one cycle of motion to the target.
Exchange ==
  /\ phase = "bus"
  /\ al
  /\ wire' \in Sample
  /\ dstate' = Obeyed
  /\ dmode' = mode
  /\ resetSeen' = (7 \in cw)
  /\ IF Follows' THEN pose' = target ELSE pose' \in Poses
  /\ phase' = AfterBus
  /\ answered' = TRUE
  /\ UNCHANGED <<image, plugin, commands, driver, counter, al, cause, upsets, zeroTaken>>

\* The slave is not in OP, or the frame is lost on its way out.
NoExchange ==
  /\ phase = "bus"
  /\ ~al \/ FramesGetLost
  /\ dstate' = IF dstate \in {"NOT_READY_TO_SWITCH_ON", "FAULT_REACTION_ACTIVE"}
                 THEN Obeyed ELSE dstate
  /\ phase' = AfterBus
  /\ UNCHANGED <<image, plugin, commands, driver, counter, al, wire, dmode, pose,
                 resetSeen, cause, upsets, history>>

SlaveToOp ==
  /\ ~al
  /\ driver # "inactive"
  /\ al' = TRUE
  /\ UNCHANGED <<image, plugin, commands, master, wire, dstate, dmode, pose,
                 resetSeen, cause, upsets, history>>

Powered == {"READY_TO_SWITCH_ON", "SWITCH_ON", "OPERATION_ENABLED", "QUICK_STOP_ACTIVE"}

Upset ==
  /\ upsets < MaxUpsets
  /\ phase = "bus"
  /\ upsets' = upsets + 1

Fault ==
  /\ Upset
  /\ \/ dstate \in Powered
     \/ HardFaults /\ dstate # "NOT_READY_TO_SWITCH_ON"
  /\ dstate' = "FAULT_REACTION_ACTIVE"
  /\ cause' = HardFaults
  /\ UNCHANGED <<image, plugin, commands, master, al, wire, dmode, pose, resetSeen,
                 history>>

ClearCause ==
  /\ cause
  /\ cause' = FALSE
  /\ UNCHANGED <<image, plugin, commands, master, al, wire, dstate, dmode, pose,
                 resetSeen, upsets, history>>

QuickStop ==
  /\ Upset
  /\ dstate = "OPERATION_ENABLED"
  /\ dstate' = "QUICK_STOP_ACTIVE"
  /\ UNCHANGED <<image, plugin, commands, master, al, wire, dmode, pose, resetSeen,
                 cause, history>>

\* The slave leaves OP, and the drive restarts.
PowerCycle ==
  /\ Upset
  /\ al
  /\ al' = FALSE
  /\ dstate' = "NOT_READY_TO_SWITCH_ON"
  /\ cause' = FALSE
  /\ resetSeen' = FALSE
  /\ UNCHANGED <<image, plugin, commands, master, wire, dmode, pose, history>>

-----------------------------------------------------------------------------
(***************************************************************************)
(* A launch.  It finds the drive as power-on left it or, after a relaunch  *)
(* without a power cycle, as the launch before did: on_deactivate does not *)
(* disable it, so it may still be enabled in any mode, or in a fault.      *)
(***************************************************************************)
Init ==
  /\ DriveInit
  /\ driver = "inactive" /\ phase = "read" /\ counter = 0
  /\ al = FALSE
  /\ wire = input
  /\ dstate \in States \ {"START", "UNDEFINED"}
  /\ dmode \in Modes
  /\ pose \in Poses
  /\ resetSeen \in BOOLEAN
  /\ cause \in BOOLEAN /\ (cause => HardFaults /\ dstate \in {"FAULT_REACTION_ACTIVE", "FAULT"})
  /\ upsets = 0
  /\ answered = FALSE /\ zeroTaken = FALSE

Activate == BeginActivate \/ ActivateUpdate \/ EndActivate
Cycle    == Read \/ Control \/ Write \/ Exchange
Bus      == NoExchange \/ SlaveToOp
Drive    == Fault \/ ClearCause \/ QuickStop \/ PowerCycle

Next == Activate \/ Cycle \/ Bus \/ Drive

Spec == Init /\ [][Next]_vars

(***************************************************************************)
(* The cycle runs, the slave is brought to OP, a cause is removed, and an  *)
(* operator who may use reset_fault goes on pressing and releasing it.     *)
(***************************************************************************)
Toggle == Control /\ resetCmd' = IF resetCmd = 1 THEN 0 ELSE 1

FairSpec ==
  /\ Spec
  /\ WF_vars(Activate)
  /\ WF_vars(Cycle) /\ WF_vars(NoExchange)
  /\ WF_vars(SlaveToOp) /\ WF_vars(ClearCause)
  /\ SF_vars(Toggle)

-----------------------------------------------------------------------------
TypeOK ==
  /\ DriveTypeOK
  /\ driver \in {"inactive", "activating", "active"}
  /\ phase \in {"read", "control", "write", "bus", "sent"}
  /\ counter \in 0..(CheckPeriod - 1)
  /\ wire \in [status : SUBSET (0..6), position : Positions, display : Modes]
  /\ dstate \in States \ {"START", "UNDEFINED"}
  /\ dmode \in Modes
  /\ pose \in Positions
  /\ {al, resetSeen, cause} \subseteq BOOLEAN
  /\ upsets \in 0..MaxUpsets
  /\ {answered, zeroTaken} \subseteq BOOLEAN

(***************************************************************************)
(* The joint never snaps to the origin, the value 0x607a has at power-on   *)
(* (docs/troubleshooting.md, "snap to the 0 position").                    *)
(***************************************************************************)
NoSnap == pose # Origin

(***************************************************************************)
(* What the plugin does guarantee, however the launch found the drive: it  *)
(* hands the zero of power-on to an enabled drive in one frame at most,    *)
(* the first that the drive answers, to a drive the launch before left     *)
(* enabled, and that frame disables it ("a single ~10 ms cycle",           *)
(* docs/troubleshooting.md, "warm restart").  Otherwise it hands on a zero *)
(* only if a controller took it for the position.                          *)
(***************************************************************************)
NoZeroTarget ==
  [][Exchange /\ (Follows \/ Follows') /\ target = Origin
       => zeroTaken \/ (~answered /\ ~Follows')]_vars

(***************************************************************************)
(* Why, as an inductive invariant: until the plugin has read a real        *)
(* position it sends an empty control word, which disables a drive that    *)
(* was left powered and lets no other leave SWITCH_ON_DISABLED; from then  *)
(* on each pass writes a real target before it closes, and feedback never  *)
(* turns back into the zero of power-on.                                   *)
(***************************************************************************)
RealOrBlank(in) == in.position \in Poses \/ (in.position = Origin /\ in.status = {})

SeenReal == lastPosition \in Poses /\ input.position \in Poses /\ wire.position \in Poses

SeenNothing == /\ lastPosition \in {Origin, NaN} /\ input.position = Origin
               /\ state \in {"START", "NOT_READY_TO_SWITCH_ON"}
               /\ cw = {}

Seeded ==
  /\ pose \in Poses
  /\ cmd \in Poses \cup {NaN}
  /\ RealOrBlank(wire) /\ RealOrBlank(input)
  /\ SeenReal \/ SeenNothing
  /\ cw # {} => target \in Poses
  /\ dstate \in Powered => cw # {} \/ ~answered
  /\ answered <=> wire.position \in Poses

SeededInv == zeroTaken \/ Seeded

(***************************************************************************)
(* Whenever the drive begins to follow positions, because it is enabled or *)
(* because it comes back from CST, the target it is given is the position  *)
(* it last reported, not what a controller left in the command interface.  *)
(***************************************************************************)
EnabledInPlace ==
  [][(dstate = "SWITCH_ON" \/ dmode = "CST") /\ ~Follows /\ Follows'
       => pose' = input.position]_vars

(***************************************************************************)
(* An enabled drive is disabled by a fault, a quick stop or a restart,     *)
(* never by a control word the plugin sends with a state one cycle old;    *)
(* but for the first frame of a launch that finds it enabled.              *)
(***************************************************************************)
NoDropOut ==
  [][dstate = "OPERATION_ENABLED" /\ dstate' # "OPERATION_ENABLED"
       => upsets' = upsets + 1 \/ ~answered]_vars

(***************************************************************************)
(* The drive ends up enabled, after power-on and after every upset.        *)
(***************************************************************************)
Recovers == (driver = "active") ~> (dstate = "OPERATION_ENABLED")

=============================================================================
