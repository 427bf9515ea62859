---------------------------- MODULE CiA402Drive -----------------------------
(***************************************************************************)
(* The CiA 402 plugin of ethercat_driver_ros2: generic_ec_cia402_drive.cpp *)
(* with the PDO channels it updates (ec_pdo_channel_manager.hpp).          *)
(*                                                                         *)
(* One call of EcMaster::readData, writeData or update runs processData    *)
(* over all channels of the drive, in the order of the drive's config      *)
(* (EUPH11_unified_config.yaml): control word, target position, mode of    *)
(* operation, then the status word, position and mode display, and a last  *)
(* channel that closes the pass.  A pass is one step here.  The outputs    *)
(* precede the inputs, so they are computed from the inputs of the pass    *)
(* before.                                                                 *)
(*                                                                         *)
(* Words are sets of bit numbers.  Positions are members of a small set;   *)
(* Origin is the zero that the process image holds at power-on.            *)
(***************************************************************************)
EXTENDS Integers

CONSTANTS Poses,           \* the poses the joint can be brought to
          Origin,          \* position 0
          NaN,             \* the value of an interface nobody wrote
          AutoFaultResets  \* what auto_fault_reset may be in the drive's config

Modes == {"NoMode", "CSP", "CST"}

ASSUME DriveAssumption ==
  /\ Origin \notin Poses
  /\ NaN \notin Poses \cup {Origin} /\ NaN \notin Modes /\ NaN \notin {0, 1}
  /\ AutoFaultResets \subseteq BOOLEAN

VARIABLES cw,            \* 0x6040 in the output image
          target,        \* 0x607a in the output image
          input,         \* 0x6041, 0x6064 and 0x6061 in the input image
          state,         \* state_
          initialized,   \* initialized_
          display,       \* mode_of_operation_display_
          mode,          \* mode_of_operation_, copied to 0x6060 by every pass
          lastPosition,  \* last_position_, and the position state interface
          operational,   \* is_operational_
          faultReset,    \* fault_reset_
          lastReset,     \* last_fault_reset_command_
          autoReset,     \* auto_fault_reset_, set once by setup_from_config
          cmd,           \* command interface: position
          modeCmd,       \* command interface: mode_of_operation
          resetCmd       \* command interface: reset_fault

image    == <<cw, target, input>>
plugin   == <<state, initialized, display, mode, lastPosition, operational,
              faultReset, lastReset, autoReset>>
commands == <<cmd, modeCmd, resetCmd>>

Positions == Poses \cup {Origin}

States == {"START", "NOT_READY_TO_SWITCH_ON", "SWITCH_ON_DISABLED", "READY_TO_SWITCH_ON",
           "SWITCH_ON", "OPERATION_ENABLED", "QUICK_STOP_ACTIVE",
           "FAULT_REACTION_ACTIVE", "FAULT", "UNDEFINED"}

-----------------------------------------------------------------------------
(***************************************************************************)
(* deviceState: two masks of the status word, 0b01001111 and 0b01101111.   *)
(***************************************************************************)
DeviceState(word) ==
  LET short == word \cap {0, 1, 2, 3, 6}
      long  == word \cap {0, 1, 2, 3, 5, 6}
  IN CASE short = {}           -> "NOT_READY_TO_SWITCH_ON"
       [] short = {6}          -> "SWITCH_ON_DISABLED"
       [] long = {0, 5}        -> "READY_TO_SWITCH_ON"
       [] long = {0, 1, 5}     -> "SWITCH_ON"
       [] long = {0, 1, 2, 5}  -> "OPERATION_ENABLED"
       [] long = {0, 1, 2}     -> "QUICK_STOP_ACTIVE"
       [] short = {0, 1, 2, 3} -> "FAULT_REACTION_ACTIVE"
       [] short = {3}          -> "FAULT"
       [] OTHER                -> "UNDEFINED"

(***************************************************************************)
(* transition: the control word that takes the drive one state further.    *)
(* Bits above 7 are masked away and nothing sets one.                      *)
(***************************************************************************)
\* Mutant: the enabled drive is sent the "switch on" word again.
Transition_DropsOut(s, word, reset) ==
  CASE s = "SWITCH_ON_DISABLED"                 -> (word \ {0, 7}) \cup {1, 2}
    [] s = "READY_TO_SWITCH_ON"                 -> (word \ {3, 7}) \cup {0, 1, 2}
    [] s \in {"SWITCH_ON", "QUICK_STOP_ACTIVE"} -> (word \ {7}) \cup {0, 1, 2, 3}
    [] s = "OPERATION_ENABLED"                  -> (word \ {3, 7}) \cup {0, 1, 2}
    [] s = "FAULT" /\ reset                     -> word \cup {7}
    [] OTHER                                    -> word

\* Mutant: the reset is written one bit too high.
Transition_WrongBit(s, word, reset) ==
  CASE s = "SWITCH_ON_DISABLED"                 -> (word \ {0, 7}) \cup {1, 2}
    [] s = "READY_TO_SWITCH_ON"                 -> (word \ {3, 7}) \cup {0, 1, 2}
    [] s \in {"SWITCH_ON", "QUICK_STOP_ACTIVE"} -> (word \ {7}) \cup {0, 1, 2, 3}
    [] s = "FAULT" /\ reset                     -> word \cup {8}
    [] OTHER                                    -> word

Transition(s, word, reset) ==
  CASE s = "SWITCH_ON_DISABLED"                 -> (word \ {0, 7}) \cup {1, 2}
    [] s = "READY_TO_SWITCH_ON"                 -> (word \ {3, 7}) \cup {0, 1, 2}
    [] s \in {"SWITCH_ON", "QUICK_STOP_ACTIVE"} -> (word \ {7}) \cup {0, 1, 2, 3}
    [] s = "FAULT" /\ reset                     -> word \cup {7}
    [] OTHER                                    -> word

(***************************************************************************)
(* ec_update of an output: the command interface, unless it is overridden  *)
(* or nobody wrote it; else the default, unless there is none.             *)
(***************************************************************************)
Update(command, override, default, old) ==
  IF command # NaN /\ ~override THEN command
  ELSE IF default # NaN THEN default ELSE old

-----------------------------------------------------------------------------
(***************************************************************************)
(* The control word.  A rising edge of reset_fault is latched whatever the *)
(* state of the drive; the latch is used up in FAULT.  The drive is not    *)
(* taken further before a position was read.                               *)
(***************************************************************************)
Rising(op)   == op /\ ~lastReset /\ resetCmd = 1
Latched(op)  == faultReset \/ Rising(op)
Stepping(op) == op /\ lastPosition # NaN
Resets(op)   == autoReset \/ Latched(op)

\* Mutant: the latch of the edge is not re-armed when the command falls.
ControlWord_NotRearmed(op) ==
  /\ cw' = IF Stepping(op) THEN Transition(state, cw, Resets(op)) ELSE cw
  /\ faultReset' = (Latched(op) /\ ~(Stepping(op) /\ state = "FAULT"))
  /\ lastReset' = (lastReset \/ Rising(op))

\* Mutant: the state machine is stepped before a position was read.
ControlWord_Blind(op) ==
  /\ cw' = IF op THEN Transition("SWITCH_ON_DISABLED", cw, Resets(op)) ELSE cw
  /\ faultReset' = (Latched(op) /\ ~(Stepping(op) /\ state = "FAULT"))
  /\ lastReset' = IF op /\ resetCmd # NaN THEN resetCmd = 1 ELSE lastReset

ControlWord(op) ==
  /\ cw' = IF Stepping(op) THEN Transition(state, cw, Resets(op)) ELSE cw
  /\ faultReset' = (Latched(op) /\ ~(Stepping(op) /\ state = "FAULT"))
  /\ lastReset' = IF op /\ resetCmd # NaN THEN resetCmd = 1 ELSE lastReset

\* Mutant: upstream's guard, the default is seeded once the drive reports a mode.
TargetPosition_SeededByMode ==
  target' = Update(cmd, display # "CSP",
                   IF display # "NoMode" THEN lastPosition ELSE NaN, target)

\* Mutant: the command interface is not overridden outside CSP.
TargetPosition_NoOverride ==
  target' = Update(cmd, FALSE, lastPosition, target)

TargetPosition ==
  target' = Update(cmd, display # "CSP", lastPosition, target)

\* 0x6060: a valid command is kept, NaN or out of range holds the last mode.
ModeOfOperation ==
  mode' = IF modeCmd \in Modes THEN modeCmd ELSE mode

\* The inputs and the last channel.  state_ is the decoding of the last status word.
Feedback(in) ==
  /\ input' = in
  /\ state' = DeviceState(in.status)
  /\ initialized' = (state' = "OPERATION_ENABLED" /\ state = "OPERATION_ENABLED")
  /\ lastPosition' = in.position
  /\ display' = in.display

\* processData over all channels, with in in the input image and the slave
\* operational or not.
Pass(in, op) ==
  /\ operational' = op
  /\ UNCHANGED autoReset
  /\ ControlWord(op)
  /\ TargetPosition
  /\ ModeOfOperation
  /\ Feedback(in)

-----------------------------------------------------------------------------
DriveInit ==
  /\ cw = {}
  /\ target = Origin
  /\ input = [status |-> {}, position |-> Origin, display |-> "NoMode"]
  /\ state = "START"
  /\ initialized = FALSE
  /\ display = "NoMode"
  /\ mode = "CSP"
  /\ lastPosition = NaN
  /\ operational = FALSE
  /\ faultReset = FALSE
  /\ lastReset = FALSE
  /\ autoReset \in AutoFaultResets
  /\ cmd = NaN
  /\ modeCmd = NaN
  /\ resetCmd = NaN

DriveTypeOK ==
  /\ cw \in SUBSET {0, 1, 2, 3, 7}
  /\ target \in Positions
  /\ input \in [status : SUBSET (0..6), position : Positions, display : Modes]
  /\ state \in States
  /\ display \in Modes /\ mode \in Modes
  /\ lastPosition \in Positions \cup {NaN}
  /\ {initialized, operational, faultReset, lastReset, autoReset} \subseteq BOOLEAN
  /\ cmd \in Positions \cup {NaN}
  /\ modeCmd \in Modes \cup {NaN}
  /\ resetCmd \in {0, 1, NaN}
=============================================================================
