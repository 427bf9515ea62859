------------------------ MODULE EthercatCycle_proofs ------------------------
(***************************************************************************)
(* Proofs about EthercatCycle, for every set of poses and whatever becomes *)
(* of frames, faults and restarts, and however the launch found the drive: *)
(* type correctness; the plugin never hands the zero of power-on to an     *)
(* enabled drive, but for the first frame after a warm restart; nor does   *)
(* it disable one; and it enables it with its target at the position it    *)
(* reports.                                                                *)
(***************************************************************************)
EXTENDS EthercatCycle, TLAPS

(***************************************************************************)
(* What transition does to an empty control word before the drive reports  *)
(* a state, and that it never empties one.                                 *)
(***************************************************************************)
LEMMA TransitionEmpty ==
  ASSUME NEW s \in {"START", "NOT_READY_TO_SWITCH_ON"}, NEW r
  PROVE  Transition(s, {}, r) = {}
BY DEF Transition

LEMMA TransitionKeeps ==
  ASSUME NEW s, NEW w, NEW r, w # {}, s # "SWITCH_ON_DISABLED", s # "READY_TO_SWITCH_ON",
         s # "SWITCH_ON", s # "QUICK_STOP_ACTIVE"
  PROVE  Transition(s, w, r) # {}
BY DEF Transition

(***************************************************************************)
(* A blank status word is decoded as NOT_READY_TO_SWITCH_ON.               *)
(***************************************************************************)
LEMMA BlankStatus == DeviceState({}) = "NOT_READY_TO_SWITCH_ON"
BY DEF DeviceState

(***************************************************************************)
(* The drive is powered after a frame only if that frame commands it: an   *)
(* empty word disables it.                                                 *)
(***************************************************************************)
LEMMA PoweredOnCommand ==
  ASSUME Obeyed \in Powered
  PROVE  cw # {}
<1>1. cw = {} => Commanded = "disable voltage"
  BY DEF Commanded
<1> QED BY <1>1 DEF Obeyed, Powered

(***************************************************************************)
(* The inductive invariant holds initially.                                *)
(***************************************************************************)
LEMMA SeededInit == Init => Seeded
BY DriveAssumption
   DEF Init, DriveInit, Seeded, RealOrBlank, SeenReal, SeenNothing, Powered

(***************************************************************************)
(* A pass preserves it.  While nothing real was seen the control word      *)
(* stays empty; once it was, the target is written in the pass that may    *)
(* fill the control word.                                                  *)
(***************************************************************************)
LEMMA PassSeeded ==
  ASSUME Seeded, NEW in \in {wire, input}, NEW op, Pass(in, op),
         UNCHANGED <<cmd, wire, dstate, pose, answered>>
  PROVE  Seeded'
<1>1. /\ input' = in
      /\ lastPosition' = in.position
      /\ state' = DeviceState(in.status)
  BY DEF Pass, Feedback
<1>2. RealOrBlank(wire') /\ RealOrBlank(input')
  BY <1>1 DEF Seeded, RealOrBlank
<1>3. CASE SeenReal
  <2>1. SeenReal'
    BY <1>1, <1>3 DEF SeenReal
  <2>2. target' \in Poses
    <3>1. target' = Update(cmd, display # "CSP", lastPosition, target)
      BY DEF Pass, TargetPosition
    <3>2. lastPosition \in Poses /\ lastPosition # NaN /\ cmd \in Poses \cup {NaN}
      BY <1>3, DriveAssumption DEF SeenReal, Seeded
    <3>3. QED BY <3>1, <3>2 DEF Update
  <2>3. cw # {} => cw' # {}
    <3> SUFFICES ASSUME cw # {} PROVE cw' # {}
      OBVIOUS
    <3>1. cw' = cw \/ cw' = Transition(state, cw, Resets(op))
      BY DEF Pass, ControlWord
    <3>2. Transition(state, cw, Resets(op)) # {}
      <4>1. CASE state = "SWITCH_ON_DISABLED"
        BY <4>1 DEF Transition
      <4>2. CASE state = "READY_TO_SWITCH_ON"
        BY <4>2 DEF Transition
      <4>3. CASE state = "SWITCH_ON" \/ state = "QUICK_STOP_ACTIVE"
        BY <4>3 DEF Transition
      <4>4. QED BY <4>1, <4>2, <4>3, TransitionKeeps
    <3>3. QED BY <3>1, <3>2
  <2>4. QED BY <1>2, <2>1, <2>2, <2>3 DEF Seeded
<1>4. CASE SeenNothing
  <2>1. cw' = {}
    <3>1. cw' = cw \/ cw' = Transition(state, cw, Resets(op))
      BY DEF Pass, ControlWord
    <3>2. QED BY <3>1, <1>4, TransitionEmpty DEF SeenNothing
  <2>2. dstate' \in Powered => ~answered'
    BY <1>4 DEF Seeded, SeenNothing
  <2>3. SeenReal' \/ SeenNothing'
    <3>1. CASE in.position \in Poses
      <4>1. in = wire
        BY <3>1, <1>4, DriveAssumption DEF SeenNothing
      <4>2. QED BY <4>1, <1>1, <3>1 DEF SeenReal
    <3>2. CASE in.position = Origin /\ in.status = {}
      BY <3>2, <1>1, <2>1, BlankStatus DEF SeenNothing
    <3>3. QED BY <3>1, <3>2 DEF Seeded, RealOrBlank
  <2>4. QED BY <1>2, <2>1, <2>2, <2>3 DEF Seeded
<1>5. QED BY <1>3, <1>4 DEF Seeded

(***************************************************************************)
(* The frame reaches the drive: what it samples is the joint's pose, and a *)
(* drive that is powered now was commanded, so that its target is real.    *)
(***************************************************************************)
LEMMA ExchangeSeeded ==
  ASSUME Seeded, Exchange
  PROVE  Seeded'
<1>1. wire'.position \in Poses
  BY DEF Exchange, Sample, Seeded
<1>2. dstate' \in Powered => cw # {}
  BY PoweredOnCommand DEF Exchange, Seeded
<1>3. pose' \in Poses
  <2>1. CASE Follows'
    BY <2>1, <1>2 DEF Follows, Exchange, Powered, Seeded
  <2>2. CASE ~Follows'
    BY <2>2 DEF Exchange
  <2>3. QED BY <2>1, <2>2
<1>4. UNCHANGED <<cw, target, input, state, lastPosition, cmd>> /\ answered'
  BY DEF Exchange, image, plugin, commands
<1>5. (SeenReal \/ SeenNothing)'
  BY <1>1, <1>4 DEF Seeded, SeenReal, SeenNothing
<1>6. QED BY <1>1, <1>2, <1>3, <1>4, <1>5 DEF Seeded, RealOrBlank

(***************************************************************************)
(* The controllers: a first command is the position read, which is real or *)
(* the zero that zeroTaken records.                                        *)
(***************************************************************************)
LEMMA ControlSeeded ==
  ASSUME Seeded, Control
  PROVE  SeededInv'
<1>1. UNCHANGED <<cw, target, input, state, lastPosition, wire, dstate, pose, answered>>
  BY DEF Control, image, plugin, servo
<1>2. cmd' \in Poses \cup {NaN, Origin}
  <2>1. CASE CommandPosition
    BY <2>1 DEF CommandPosition, Seeded, SeenReal, SeenNothing
  <2>2. CASE cmd' = cmd
    BY <2>2 DEF Seeded
  <2>3. QED BY <2>1, <2>2 DEF Control, commands
<1>3. cmd' = Origin => zeroTaken'
  BY DEF Control
<1>4. QED BY <1>1, <1>2, <1>3 DEF SeededInv, Seeded, RealOrBlank, SeenReal, SeenNothing

(***************************************************************************)
(* The steps that leave the image, the plugin and the joint alone; what    *)
(* happens to the drive leaves it no more powered than it was.             *)
(***************************************************************************)
LEMMA QuietSeeded ==
  ASSUME Seeded, dstate' \in Powered => dstate \in Powered,
         UNCHANGED <<cw, target, input, state, lastPosition, cmd, wire, pose, answered>>
  PROVE  Seeded'
BY DEF Seeded, RealOrBlank, SeenReal, SeenNothing

(***************************************************************************)
(* Every step preserves the invariant.                                     *)
(***************************************************************************)
LEMMA SeededStep ==
  ASSUME SeededInv, [Next]_vars
  PROVE  SeededInv'
<1> USE DEF image, plugin, commands, master, servo, history
<1>z. CASE zeroTaken
  <2>1. CASE Control
    BY <1>z, <2>1 DEF Control, SeededInv
  <2>2. CASE ~Control
    BY <1>z, <2>2
       DEF Next, Activate, Cycle, Bus, Drive, BeginActivate, ActivateUpdate, EndActivate, Read, Write,
           Exchange, NoExchange, SlaveToOp, Fault, ClearCause, QuickStop, PowerCycle, vars, SeededInv
  <2> QED BY <2>1, <2>2
<1>s. CASE Seeded
  <2>1. CASE BeginActivate \/ EndActivate
    BY <1>s, <2>1, QuietSeeded DEF BeginActivate, EndActivate, SeededInv
  <2>2. CASE ActivateUpdate
    <3>1. PICK in \in {wire, input} : Pass(in, IF counter = 0 THEN al ELSE operational)
      BY <2>2 DEF ActivateUpdate, Receive
    <3>2. UNCHANGED <<cmd, wire, dstate, pose, answered>>
      BY <2>2 DEF ActivateUpdate
    <3>3. QED BY <1>s, <3>1, <3>2, PassSeeded DEF SeededInv
  <2>3. CASE Read
    <3>1. PICK in \in {wire, input} : Pass(in, IF counter = 0 THEN al ELSE operational)
      BY <2>3 DEF Read, Receive
    <3>2. UNCHANGED <<cmd, wire, dstate, pose, answered>>
      BY <2>3 DEF Read
    <3>3. QED BY <1>s, <3>1, <3>2, PassSeeded DEF SeededInv
  <2>4. CASE Write
    <3>1. Pass(input, operational) /\ UNCHANGED <<cmd, wire, dstate, pose, answered>>
      BY <2>4 DEF Write
    <3>2. QED BY <1>s, <3>1, PassSeeded DEF SeededInv
  <2>5. CASE Control
    BY <1>s, <2>5, ControlSeeded
  <2>6. CASE Exchange
    BY <1>s, <2>6, ExchangeSeeded DEF SeededInv
  <2>7. CASE NoExchange
    <3>1. dstate' \in Powered => dstate \in Powered
      BY <2>7 DEF NoExchange, Obeyed, Powered
    <3>2. QED BY <1>s, <3>1, <2>7, QuietSeeded DEF NoExchange, SeededInv
  <2>8. CASE SlaveToOp
    BY <1>s, <2>8, QuietSeeded DEF SlaveToOp, SeededInv
  <2>9. CASE Fault \/ QuickStop \/ PowerCycle
    <3>1. dstate' \in Powered => dstate \in Powered
      BY <2>9 DEF Fault, QuickStop, PowerCycle, Powered
    <3>2. QED BY <1>s, <3>1, <2>9, QuietSeeded DEF Fault, QuickStop, PowerCycle, SeededInv
  <2>10. CASE ClearCause
    BY <1>s, <2>10, QuietSeeded DEF ClearCause, SeededInv
  <2>11. CASE UNCHANGED vars
    BY <1>s, <2>11, QuietSeeded DEF vars, SeededInv
  <2>12. QED
    BY <2>1, <2>2, <2>3, <2>4, <2>5, <2>6, <2>7, <2>8, <2>9, <2>10, <2>11
       DEF Next, Activate, Cycle, Bus, Drive
<1> QED BY <1>z, <1>s DEF SeededInv

(***************************************************************************)
(* SeededInv is an invariant.                                              *)
(***************************************************************************)
THEOREM SeededInvariant == Spec => []SeededInv
<1>1. Init => SeededInv
  BY SeededInit DEF SeededInv
<1>2. SeededInv /\ [Next]_vars => SeededInv'
  BY SeededStep
<1> QED BY <1>1, <1>2, PTL DEF Spec

(***************************************************************************)
(* The plugin hands the zero of power-on to an enabled drive at most once  *)
(* in a launch, in the frame that disables a drive the launch before left  *)
(* enabled, unless a controller took the zero for the position.            *)
(***************************************************************************)
THEOREM NeverHandsZero == Spec => NoZeroTarget
<1>1. ASSUME SeededInv, Exchange, Follows \/ Follows', target = Origin, ~zeroTaken
      PROVE  ~answered /\ ~Follows'
  <2>1. Seeded /\ cw = {}
    BY <1>1, DriveAssumption DEF SeededInv, Seeded
  <2>2. ~Follows'
    BY <1>1, <2>1, PoweredOnCommand DEF Exchange, Follows, Powered
  <2>3. ~answered
    BY <1>1, <2>1, <2>2 DEF Seeded, Follows, Powered
  <2> QED BY <2>2, <2>3
<1>2. SeededInv /\ [Next]_vars
        => [Exchange /\ (Follows \/ Follows') /\ target = Origin
              => zeroTaken \/ (~answered /\ ~Follows')]_vars
  BY <1>1
<1> QED BY <1>2, SeededInvariant, PTL DEF Spec, NoZeroTarget

(***************************************************************************)
(* Unless a controller took the zero, the joint never goes there.          *)
(***************************************************************************)
THEOREM OnlyZeroSnaps == Spec => [](zeroTaken \/ NoSnap)
<1>1. SeededInv => zeroTaken \/ NoSnap
  BY DriveAssumption DEF SeededInv, Seeded, NoSnap
<1> QED BY <1>1, SeededInvariant, PTL

-----------------------------------------------------------------------------
(***************************************************************************)
(* Type correctness, and with it that a status word means the state it was *)
(* sent in.                                                                *)
(***************************************************************************)
DriveStates == States \ {"START", "UNDEFINED"}

LEMMA Decoded ==
  ASSUME NEW s \in DriveStates, NEW word \in StatusWords(s)
  PROVE  DeviceState(word) = s /\ word \in SUBSET (0..6)
<1>1. \A S \in {{0, 1, 2, 3, 6}, {0, 1, 2, 3, 5, 6}} :
        /\ {} \cap S = {} /\ {6} \cap S = {6} /\ {3} \cap S = {3}
        /\ {0, 1, 2} \cap S = {0, 1, 2} /\ {0, 1, 2, 3} \cap S = {0, 1, 2, 3}
  OBVIOUS
<1>2. /\ {5} \cap {0, 1, 2, 3, 6} = {} /\ {5, 6} \cap {0, 1, 2, 3, 6} = {6}
      /\ {0, 5} \cap {0, 1, 2, 3, 6} = {0} /\ {0, 5} \cap {0, 1, 2, 3, 5, 6} = {0, 5}
      /\ {0, 1, 5} \cap {0, 1, 2, 3, 6} = {0, 1} /\ {0, 1, 5} \cap {0, 1, 2, 3, 5, 6} = {0, 1, 5}
      /\ {0, 1, 2, 5} \cap {0, 1, 2, 3, 6} = {0, 1, 2}
      /\ {0, 1, 2, 5} \cap {0, 1, 2, 3, 5, 6} = {0, 1, 2, 5}
      /\ {3, 5} \cap {0, 1, 2, 3, 6} = {3} /\ {3, 5} \cap {0, 1, 2, 3, 5, 6} = {3, 5}
  OBVIOUS
<1>3. CASE s \in {"NOT_READY_TO_SWITCH_ON", "SWITCH_ON_DISABLED"}
  BY <1>1, <1>2, <1>3 DEF StatusWords, DeviceState
<1>4. CASE s \in {"READY_TO_SWITCH_ON", "SWITCH_ON", "OPERATION_ENABLED"}
  BY <1>2, <1>4 DEF StatusWords, DeviceState
<1>5. CASE s \in {"QUICK_STOP_ACTIVE", "FAULT_REACTION_ACTIVE"}
  BY <1>1, <1>5 DEF StatusWords, DeviceState
<1>6. CASE s = "FAULT"
  BY <1>1, <1>2, <1>6 DEF StatusWords, DeviceState
<1> QED BY <1>3, <1>4, <1>5, <1>6 DEF DriveStates, States

LEMMA DecodedIsState == \A word : DeviceState(word) \in States
BY DEF DeviceState, States

LEMMA ObeyedType ==
  ASSUME dstate \in DriveStates
  PROVE  Obeyed \in DriveStates
BY DEF Obeyed, DriveStates, States

LEMMA TransitionType ==
  ASSUME NEW s, NEW w \in SUBSET {0, 1, 2, 3, 7}, NEW r
  PROVE  Transition(s, w, r) \in SUBSET {0, 1, 2, 3, 7}
BY DEF Transition

LEMMA InitType == Init => TypeOK
<1> SUFFICES ASSUME Init PROVE TypeOK
  OBVIOUS
<1>1. DriveTypeOK
  BY DriveAssumption DEF Init, DriveInit, DriveTypeOK, Positions, Modes, States
<1>2. counter \in 0..(CheckPeriod - 1) /\ upsets \in 0..MaxUpsets
  BY CycleAssumption DEF Init
<1>3. wire \in [status : SUBSET (0..6), position : Positions, display : Modes]
  BY <1>1 DEF Init, DriveTypeOK
<1> QED
  BY <1>1, <1>2, <1>3 DEF Init, TypeOK, Positions, Modes, States

LEMMA PassType ==
  ASSUME TypeOK, NEW in \in {wire, input}, NEW op \in BOOLEAN, Pass(in, op), UNCHANGED commands
  PROVE  DriveTypeOK'
<1>t. /\ DriveTypeOK
      /\ in \in [status : SUBSET (0..6), position : Positions, display : Modes]
  BY DEF TypeOK, DriveTypeOK
<1>1. cw' \in SUBSET {0, 1, 2, 3, 7}
  BY <1>t, TransitionType DEF Pass, ControlWord, DriveTypeOK
<1>2. target' \in Positions
  BY <1>t DEF Pass, TargetPosition, Update, DriveTypeOK
<1>3. input' \in [status : SUBSET (0..6), position : Positions, display : Modes]
      /\ lastPosition' \in Positions /\ display' \in Modes
  BY <1>t DEF Pass, Feedback
<1>4. state' \in States /\ initialized' \in BOOLEAN
  BY DecodedIsState DEF Pass, Feedback
<1>5. mode' \in Modes
  BY <1>t DEF Pass, ModeOfOperation, DriveTypeOK
<1>6. {operational', faultReset', lastReset', autoReset'} \subseteq BOOLEAN
  <2>1. faultReset' \in BOOLEAN
    BY DEF Pass, ControlWord
  <2>2. lastReset' \in BOOLEAN
    BY <1>t DEF Pass, ControlWord, DriveTypeOK
  <2>3. operational' \in BOOLEAN /\ autoReset' \in BOOLEAN
    BY <1>t DEF Pass, DriveTypeOK
  <2> QED BY <2>1, <2>2, <2>3
<1>7. UNCHANGED <<cmd, modeCmd, resetCmd>>
  BY DEF commands
<1> QED BY <1>t, <1>1, <1>2, <1>3, <1>4, <1>5, <1>6, <1>7 DEF DriveTypeOK

LEMMA ReceiveType ==
  ASSUME TypeOK, Receive, UNCHANGED commands
  PROVE  DriveTypeOK' /\ counter' \in 0..(CheckPeriod - 1)
<1>1. PICK in \in {wire, input} : Pass(in, IF counter = 0 THEN al ELSE operational)
  BY DEF Receive
<1>2. (IF counter = 0 THEN al ELSE operational) \in BOOLEAN
  BY DEF TypeOK, DriveTypeOK
<1>3. DriveTypeOK'
  BY <1>1, <1>2, PassType
<1>4. counter' \in 0..(CheckPeriod - 1)
  BY CycleAssumption DEF Receive, TypeOK
<1> QED BY <1>3, <1>4

LEMMA SampleType ==
  ASSUME TypeOK, NEW in \in Sample
  PROVE  /\ in \in [status : SUBSET (0..6), position : Positions, display : Modes]
         /\ DeviceState(in.status) = dstate
         /\ in.display # "NoMode" => dstate = "OPERATION_ENABLED" /\ in.display = dmode
<1>1. dstate \in DriveStates /\ pose \in Positions /\ dmode \in Modes
  BY DEF TypeOK, DriveStates
<1>2. in.status \in StatusWords(dstate) /\ in.position = pose
  BY DEF Sample
<1>3. in.display = IF dstate = "OPERATION_ENABLED" THEN dmode ELSE "NoMode"
  BY DEF Sample
<1>4. in = [status |-> in.status, position |-> in.position, display |-> in.display]
  BY DEF Sample
<1>5. DeviceState(in.status) = dstate /\ in.status \in SUBSET (0..6)
  BY <1>1, <1>2, Decoded
<1>6. in.display \in Modes
  BY <1>1, <1>3 DEF Modes
<1> QED BY <1>1, <1>2, <1>3, <1>4, <1>5, <1>6

LEMMA TypeStep ==
  ASSUME TypeOK, [Next]_vars
  PROVE  TypeOK'
<1> USE DEF TypeOK, commands, master, servo, history, DriveStates
<1>q. UNCHANGED <<image, plugin, commands>> => DriveTypeOK'
  BY DEF DriveTypeOK, image, plugin
<1>o. Obeyed \in DriveStates
  BY ObeyedType
<1>1. CASE BeginActivate \/ EndActivate
  BY <1>1, <1>q DEF BeginActivate, EndActivate
<1>2. CASE ActivateUpdate \/ Read
  BY <1>2, ReceiveType DEF ActivateUpdate, Read
<1>3. CASE Write
  <2>1. operational \in BOOLEAN
    BY DEF DriveTypeOK
  <2>2. DriveTypeOK'
    BY <1>3, <2>1, PassType DEF Write
  <2> QED BY <1>3, <2>2 DEF Write
<1>4. CASE Control
  <2>1. DriveTypeOK'
    BY <1>4 DEF Control, CommandPosition, CommandMode, CommandReset, DriveTypeOK, image, plugin,
       Positions, Modes
  <2> QED BY <1>4, <2>1 DEF Control
<1>5. CASE Exchange
  <2>1. wire' \in [status : SUBSET (0..6), position : Positions, display : Modes]
    BY <1>5, SampleType DEF Exchange
  <2>2. pose' \in Positions
    BY <1>5 DEF Exchange, DriveTypeOK, Positions
  <2>3. dmode' \in Modes /\ resetSeen' \in BOOLEAN
    BY <1>5 DEF Exchange, DriveTypeOK
  <2>4. phase' \in {"sent", "read"}
    BY <1>5 DEF Exchange, AfterBus
  <2> QED BY <1>5, <1>q, <1>o, <2>1, <2>2, <2>3, <2>4 DEF Exchange
<1>6. CASE NoExchange
  BY <1>6, <1>q, <1>o DEF NoExchange, AfterBus
<1>7. CASE SlaveToOp \/ ClearCause
  BY <1>7, <1>q DEF SlaveToOp, ClearCause
<1>8. CASE Fault \/ QuickStop \/ PowerCycle
  <2>1. upsets' \in 0..MaxUpsets
    BY <1>8, CycleAssumption DEF Fault, QuickStop, PowerCycle, Upset
  <2>2. dstate' \in DriveStates /\ cause' \in BOOLEAN
    BY <1>8, CycleAssumption DEF Fault, QuickStop, PowerCycle, States
  <2> QED BY <1>8, <1>q, <2>1, <2>2 DEF Fault, QuickStop, PowerCycle
<1>9. CASE UNCHANGED vars
  BY <1>9, <1>q DEF vars
<1> QED
  BY <1>1, <1>2, <1>3, <1>4, <1>5, <1>6, <1>7, <1>8, <1>9 DEF Next, Activate, Cycle, Bus, Drive

(***************************************************************************)
(* The driver, the plugin, the drive and the commands keep their types.    *)
(***************************************************************************)
THEOREM TypeCorrect == Spec => []TypeOK
BY InitType, TypeStep, PTL DEF Spec

-----------------------------------------------------------------------------
(***************************************************************************)
(* The plugin and the drive climb the ladder of CiA 402 together, though   *)
(* what the plugin knows of the drive is one or more frames old.           *)
(*                                                                         *)
(* SyncInv: what the plugin holds is the image of its last pass.           *)
(*                                                                         *)
(* LadderInv: the control word that takes the drive a rung further was     *)
(* written on a report of the rung below, and everything reported later    *)
(* fits: the newest report in the frame, and the drive itself.  A word     *)
(* without bit 0 leads no further than READY_TO_SWITCH_ON, one without     *)
(* bit 3 no further than SWITCH_ON, one without bit 1 nowhere.  Until it   *)
(* answers, a drive that the launch found powered is an exception.         *)
(***************************************************************************)
PastReady == {"SWITCH_ON", "OPERATION_ENABLED", "QUICK_STOP_ACTIVE"}
PastOn    == {"OPERATION_ENABLED", "QUICK_STOP_ACTIVE"}
Reported  == DeviceState(wire.status)
Enabling  == 0 \in cw /\ 3 \in cw
Blank     == [status |-> {}, position |-> Origin, display |-> "NoMode"]

SyncInv ==
  /\ display = input.display
  /\ lastPosition = NaN =>
       /\ state = "START" /\ driver # "active" /\ (driver = "activating" => phase = "read")
       /\ wire = input
  /\ lastPosition # NaN =>
       /\ lastPosition = input.position /\ state = DeviceState(input.status)
       /\ driver # "inactive" /\ (driver = "activating" => phase # "read")
  /\ driver # "active" => cw = {} /\ modeCmd = NaN
  /\ driver = "inactive" => phase = "read"
  /\ driver = "activating" => phase \in {"read", "bus", "sent"}
  /\ phase = "sent" => driver = "activating"
  /\ ~answered => /\ cw = {} /\ state \in {"START", "NOT_READY_TO_SWITCH_ON"}
                  /\ wire = Blank /\ input = Blank

LadderInv ==
  /\ 0 \in cw => 1 \in cw /\ 2 \in cw
  /\ 1 \notin cw /\ answered => dstate \notin Powered
  /\ 1 \in cw /\ 0 \notin cw => {state, Reported, dstate} \cap PastReady = {}
  /\ state = "SWITCH_ON_DISABLED" => {Reported, dstate} \cap PastReady = {}
  /\ Reported = "SWITCH_ON_DISABLED" => dstate \notin PastReady
  /\ dstate = "READY_TO_SWITCH_ON" /\ 0 \in cw => operational /\ 3 \notin cw
  /\ Enabling \/ state \in PastReady => "READY_TO_SWITCH_ON" \notin {Reported, dstate}
  /\ Reported \in PastReady => dstate # "READY_TO_SWITCH_ON"
  /\ state = "READY_TO_SWITCH_ON" => ~Enabling /\ {Reported, dstate} \cap PastOn = {}
  /\ Reported = "READY_TO_SWITCH_ON" => dstate \notin PastOn
  /\ dstate = "OPERATION_ENABLED" /\ answered => 3 \in cw
  /\ ~al /\ answered => dstate \notin Powered

\* When the frame leaves, the word and the target answer the inputs of its own cycle.
AtBusInv ==
  phase = "bus" /\ driver = "active" =>
    /\ operational /\ state = "SWITCH_ON_DISABLED" => 0 \notin cw
    /\ display # "CSP" => target = lastPosition

LEMMA TransitionBits ==
  ASSUME NEW s, NEW w, NEW r
  PROVE  LET x == Transition(s, w, r)
         IN  /\ s = "SWITCH_ON_DISABLED" => 0 \notin x /\ 1 \in x
             /\ s = "READY_TO_SWITCH_ON" => 0 \in x /\ 1 \in x /\ 2 \in x /\ 3 \notin x
             /\ s \in {"SWITCH_ON", "QUICK_STOP_ACTIVE"} => 0 \in x /\ 1 \in x /\ 2 \in x /\ 3 \in x
             /\ s \notin {"SWITCH_ON_DISABLED", "READY_TO_SWITCH_ON", "SWITCH_ON", "QUICK_STOP_ACTIVE"}
                  => \A b \in {0, 1, 2, 3} : b \in x <=> b \in w
BY DEF Transition

(***************************************************************************)
(* What one pass does to the word, and to what the plugin knows.           *)
(***************************************************************************)
NewWord(op) ==
  \/ \A b \in {0, 1, 2, 3} : b \in cw' <=> b \in cw
  \/ op /\ state = "SWITCH_ON_DISABLED" /\ 0 \notin cw' /\ 1 \in cw'
  \/ op /\ state = "READY_TO_SWITCH_ON" /\ 0 \in cw' /\ 1 \in cw' /\ 2 \in cw' /\ 3 \notin cw'
  \/ op /\ state \in PastReady /\ 0 \in cw' /\ 1 \in cw' /\ 2 \in cw' /\ 3 \in cw'

LEMMA PassFacts ==
  ASSUME TypeOK, SyncInv, NEW in \in {wire, input}, NEW op \in BOOLEAN, Pass(in, op),
         UNCHANGED wire
  PROVE  /\ \/ state' = Reported /\ display' = wire.display
            \/ state' = state /\ display' = display
         /\ Reported' = Reported
         /\ operational' = op
         /\ NewWord(op)
         /\ op /\ lastPosition # NaN /\ state = "SWITCH_ON_DISABLED" => 0 \notin cw'
<1>1. state' = DeviceState(in.status) /\ display' = in.display /\ operational' = op
  BY DEF Pass, Feedback
<1>2. \/ state' = Reported /\ display' = wire.display
      \/ state' = state /\ display' = display
  <2>1. CASE in = wire
    BY <1>1, <2>1 DEF Reported
  <2>2. CASE in = input /\ lastPosition = NaN
    BY <1>1, <2>2 DEF SyncInv, Reported
  <2>3. CASE in = input /\ lastPosition # NaN
    BY <1>1, <2>3 DEF SyncInv
  <2> QED BY <2>1, <2>2, <2>3
<1>3. Reported' = Reported
  BY DEF Reported
<1>4. IF op /\ lastPosition # NaN THEN \E r : cw' = Transition(state, cw, r) ELSE cw' = cw
  BY DEF Pass, ControlWord, Stepping
<1>5. CASE op /\ lastPosition # NaN
  <2>1. PICK r : cw' = Transition(state, cw, r)
    BY <1>4, <1>5
  <2> QED BY <1>1, <1>2, <1>3, <1>5, <2>1, TransitionBits DEF NewWord, PastReady
<1>6. CASE ~(op /\ lastPosition # NaN)
  BY <1>1, <1>2, <1>3, <1>4, <1>6 DEF NewWord
<1> QED BY <1>5, <1>6

LEMMA LadderPass ==
  ASSUME TypeOK, SyncInv, LadderInv, NEW in \in {wire, input}, NEW op \in {al, operational},
         Pass(in, op), UNCHANGED <<wire, dstate, al, answered>>
  PROVE  LadderInv'
<1>f. /\ state' \in {Reported, state} /\ Reported' = Reported /\ operational' = op
      /\ NewWord(op)
  BY PassFacts DEF TypeOK, DriveTypeOK
<1>r. answered /\ dstate = "READY_TO_SWITCH_ON" => al
  BY DEF LadderInv, Powered
<1>b. ~answered => /\ state \in {"START", "NOT_READY_TO_SWITCH_ON"} /\ cw = {}
                   /\ Reported = "NOT_READY_TO_SWITCH_ON"
  BY BlankStatus DEF SyncInv, Reported, Blank
<1>0. CASE ~answered
  BY <1>f, <1>b, <1>0 DEF LadderInv, PastReady, PastOn, Enabling, Powered, NewWord
<1> SUFFICES ASSUME answered PROVE LadderInv'
  BY <1>0
<1>1. CASE \A b \in {0, 1, 2, 3} : b \in cw' <=> b \in cw
  BY <1>f, <1>r, <1>1 DEF LadderInv, PastReady, PastOn, Enabling, Powered
<1>2. CASE op /\ state = "SWITCH_ON_DISABLED" /\ 0 \notin cw' /\ 1 \in cw'
  BY <1>f, <1>2 DEF LadderInv, PastReady, PastOn, Enabling, Powered
<1>3. CASE op /\ state = "READY_TO_SWITCH_ON" /\ 0 \in cw' /\ 1 \in cw' /\ 2 \in cw' /\ 3 \notin cw'
  BY <1>f, <1>3 DEF LadderInv, PastReady, PastOn, Enabling, Powered
<1>4. CASE op /\ state \in PastReady /\ 0 \in cw' /\ 1 \in cw' /\ 2 \in cw' /\ 3 \in cw'
  BY <1>f, <1>4 DEF LadderInv, PastReady, PastOn, Enabling, Powered
<1> QED BY <1>f, <1>1, <1>2, <1>3, <1>4 DEF NewWord

LEMMA ObeyedLadder ==
  ASSUME TypeOK, SyncInv, LadderInv
  PROVE  /\ Obeyed = "READY_TO_SWITCH_ON" /\ dstate # "READY_TO_SWITCH_ON"
              => 0 \notin cw
         /\ Obeyed = "SWITCH_ON" /\ dstate # "SWITCH_ON" => dstate = "READY_TO_SWITCH_ON" /\ 0 \in cw
         /\ Obeyed = "OPERATION_ENABLED" /\ dstate # "OPERATION_ENABLED"
              => dstate \in {"SWITCH_ON", "QUICK_STOP_ACTIVE"} /\ Enabling
         /\ Obeyed = "QUICK_STOP_ACTIVE" => dstate = "QUICK_STOP_ACTIVE"
         /\ dstate = "OPERATION_ENABLED" /\ answered => Obeyed = "OPERATION_ENABLED"
         /\ Obeyed \in Powered => answered
<1>0. CASE ~answered
  BY <1>0, PoweredOnCommand DEF SyncInv, Powered
<1>p. Obeyed \in Powered => answered
  BY <1>0
<1> SUFFICES ASSUME answered PROVE
         /\ Obeyed = "READY_TO_SWITCH_ON" /\ dstate # "READY_TO_SWITCH_ON" => 0 \notin cw
         /\ Obeyed = "SWITCH_ON" /\ dstate # "SWITCH_ON" => dstate = "READY_TO_SWITCH_ON" /\ 0 \in cw
         /\ Obeyed = "OPERATION_ENABLED" /\ dstate # "OPERATION_ENABLED"
              => dstate \in {"SWITCH_ON", "QUICK_STOP_ACTIVE"} /\ Enabling
         /\ Obeyed = "QUICK_STOP_ACTIVE" => dstate = "QUICK_STOP_ACTIVE"
         /\ dstate = "OPERATION_ENABLED" => Obeyed = "OPERATION_ENABLED"
  BY <1>0, <1>p DEF Powered
<1>1. /\ Commanded = "shutdown" => 0 \notin cw
      /\ Commanded \in {"switch on", "enable operation"} => 0 \in cw
      /\ Commanded = "enable operation" => 3 \in cw
      /\ Commanded = "switch on" => 3 \notin cw
      /\ Commanded \in {"quick stop", "disable voltage"} => 1 \notin cw \/ 2 \notin cw
  BY DEF Commanded
<1>2. dstate \in PastReady => 0 \in cw /\ 1 \in cw /\ 2 \in cw
  BY DEF LadderInv, PastReady, Powered
<1>3. dstate = "OPERATION_ENABLED" => 3 \in cw
  BY DEF LadderInv
<1> QED BY <1>1, <1>2, <1>3 DEF Obeyed, PastReady, Enabling

LEMMA LadderExchange ==
  ASSUME TypeOK, SyncInv, LadderInv, AtBusInv, Exchange
  PROVE  LadderInv'
<1>1. /\ UNCHANGED <<cw, state, operational, al>> /\ al
      /\ dstate' = Obeyed /\ Reported' = dstate
  BY SampleType DEF Exchange, image, plugin, Reported
<1>2. state = "SWITCH_ON_DISABLED" /\ dstate = "READY_TO_SWITCH_ON" => 0 \notin cw
  BY DEF Exchange, AtBusInv, LadderInv, SyncInv
<1>3. answered' /\ (1 \notin cw => Obeyed \notin Powered)
  BY DEF Exchange, Obeyed, Commanded, LadderInv, SyncInv, Powered
<1>4. CASE ~answered
  <2>1. dstate' \notin Powered /\ cw = {} /\ state \in {"START", "NOT_READY_TO_SWITCH_ON"}
    BY <1>1, <1>4, ObeyedLadder DEF SyncInv
  <2> QED BY <1>1, <2>1 DEF LadderInv, PastReady, PastOn, Enabling, Powered
<1>5. CASE answered
  BY <1>1, <1>2, <1>3, <1>5, ObeyedLadder DEF LadderInv, PastReady, PastOn, Enabling, Powered
<1> QED BY <1>4, <1>5

\* Outside of a pass and an exchange the drive stays, is thrown off the ladder, or stops.
LEMMA LadderQuiet ==
  ASSUME LadderInv, UNCHANGED <<cw, state, operational, wire, answered>>,
         \/ dstate' = dstate /\ (al => al')
         \/ dstate' \notin Powered
         \/ dstate = "OPERATION_ENABLED" /\ dstate' = "QUICK_STOP_ACTIVE" /\ al' = al
  PROVE  LadderInv'
BY DEF LadderInv, PastReady, PastOn, Enabling, Reported, Powered

LEMMA LadderStep ==
  ASSUME TypeOK, SyncInv, LadderInv, AtBusInv, [Next]_vars
  PROVE  LadderInv'
<1> USE DEF image, plugin, commands, master, servo, history
<1>1. CASE ActivateUpdate \/ Read
  <2>1. PICK in \in {wire, input} : Pass(in, IF counter = 0 THEN al ELSE operational)
    BY <1>1 DEF ActivateUpdate, Read, Receive
  <2>2. (IF counter = 0 THEN al ELSE operational) \in {al, operational}
    OBVIOUS
  <2> QED BY <1>1, <2>1, <2>2, LadderPass DEF ActivateUpdate, Read
<1>2. CASE Write
  BY <1>2, LadderPass DEF Write
<1>3. CASE Exchange
  BY <1>3, LadderExchange
<1>4. CASE NoExchange
  <2>1. dstate' = dstate \/ dstate' \notin Powered
    BY <1>4 DEF NoExchange, Obeyed, Powered
  <2> QED BY <1>4, <2>1, LadderQuiet DEF NoExchange
<1>5. CASE Fault \/ PowerCycle
  BY <1>5, LadderQuiet DEF Fault, PowerCycle, Powered
<1>6. CASE QuickStop
  BY <1>6, LadderQuiet DEF QuickStop
<1>7. CASE BeginActivate \/ EndActivate \/ SlaveToOp \/ ClearCause
  BY <1>7, LadderQuiet DEF BeginActivate, EndActivate, SlaveToOp, ClearCause
<1>8. CASE Control
  BY <1>8, LadderQuiet DEF Control
<1>9. CASE UNCHANGED vars
  BY <1>9, LadderQuiet DEF vars
<1> QED
  BY <1>1, <1>2, <1>3, <1>4, <1>5, <1>6, <1>7, <1>8, <1>9 DEF Next, Activate, Cycle, Bus, Drive

\* A pass brings the plugin in line with its image.
LEMMA PassInLine ==
  ASSUME TypeOK, NEW in \in {wire, input}, NEW op, Pass(in, op)
  PROVE  /\ display' = input'.display /\ lastPosition' = input'.position
         /\ state' = DeviceState(input'.status) /\ lastPosition' # NaN
<1>1. in.position \in Positions
  BY DEF TypeOK, DriveTypeOK
<1> QED BY <1>1, DriveAssumption DEF Pass, Feedback, Positions

\* Before the drive answers, a pass finds the image blank and sends nothing.
LEMMA PassBlank ==
  ASSUME SyncInv, ~answered, NEW in \in {wire, input}, NEW op, Pass(in, op)
  PROVE  cw' = {} /\ state' = "NOT_READY_TO_SWITCH_ON" /\ input' = Blank
<1>1. in = Blank
  BY DEF SyncInv
<1>2. cw' = cw \/ cw' = Transition(state, cw, Resets(op))
  BY DEF Pass, ControlWord
<1> QED BY <1>1, <1>2, BlankStatus, TransitionEmpty DEF Pass, Feedback, SyncInv, Blank

LEMMA SyncStep ==
  ASSUME TypeOK, SyncInv, [Next]_vars
  PROVE  SyncInv'
<1> USE DEF SyncInv, image, plugin, commands, master, servo, history
<1>t. driver \in {"inactive", "activating", "active"}
  BY DEF TypeOK
<1>1. CASE ActivateUpdate
  <2>1. PICK in \in {wire, input} : Pass(in, IF counter = 0 THEN al ELSE operational)
    BY <1>1 DEF ActivateUpdate, Receive
  <2>2. lastPosition = NaN
    BY <1>1 DEF ActivateUpdate
  <2>3. cw' = cw
    BY <2>1, <2>2 DEF Pass, ControlWord, Stepping
  <2>4. driver' = "activating" /\ phase' = "bus" /\ modeCmd' = modeCmd /\ driver # "active"
    BY <1>1 DEF ActivateUpdate
  <2>5. wire' = wire /\ answered' = answered
    BY <1>1 DEF ActivateUpdate
  <2> QED BY <2>1, <2>3, <2>4, <2>5, PassInLine, PassBlank
<1>2. CASE Read
  <2>1. PICK in \in {wire, input} : Pass(in, IF counter = 0 THEN al ELSE operational)
    BY <1>2 DEF Read, Receive
  <2> QED BY <1>2, <2>1, PassInLine, PassBlank DEF Read
<1>3. CASE Write
  BY <1>3, PassInLine, PassBlank DEF Write
<1>4. CASE Exchange \/ NoExchange
  <2>1. phase = "bus" /\ UNCHANGED <<image, plugin, commands, driver>> /\ phase' = AfterBus
    BY <1>4 DEF Exchange, NoExchange
  <2>2. lastPosition # NaN
    BY <1>t, <2>1
  <2>3. answered' \/ (answered' = answered /\ wire' = wire)
    BY <1>4 DEF Exchange, NoExchange
  <2> QED BY <1>t, <2>1, <2>2, <2>3 DEF AfterBus
<1>5. CASE BeginActivate \/ EndActivate
  BY <1>5 DEF BeginActivate, EndActivate
<1>6. CASE Control
  <2>1. phase = "control" /\ phase' = "write" /\ UNCHANGED <<image, plugin, driver, wire, answered>>
    BY <1>6 DEF Control
  <2>2. driver = "active" /\ lastPosition # NaN
    BY <2>1, <1>t
  <2> QED BY <2>1, <2>2
<1>7. CASE SlaveToOp \/ ClearCause \/ Fault \/ QuickStop \/ PowerCycle
  BY <1>7 DEF SlaveToOp, ClearCause, Fault, QuickStop, PowerCycle
<1>8. CASE UNCHANGED vars
  BY <1>8 DEF vars
<1> QED
  BY <1>1, <1>2, <1>3, <1>4, <1>5, <1>6, <1>7, <1>8 DEF Next, Activate, Cycle, Bus, Drive

LEMMA AtBusStep ==
  ASSUME TypeOK, SyncInv, AtBusInv, [Next]_vars
  PROVE  AtBusInv'
<1> USE DEF AtBusInv, image, plugin, commands, master, servo, history
<1>1. CASE Write
  <2>1. operational \in BOOLEAN /\ Pass(input, operational) /\ UNCHANGED wire
    BY <1>1 DEF TypeOK, DriveTypeOK, Write
  <2>2. lastPosition # NaN /\ lastPosition = input.position /\ display = input.display
        /\ state = DeviceState(input.status)
    BY <1>1 DEF SyncInv, Write
  <2>3. operational' = operational /\ state' = state /\ display' = display
        /\ lastPosition' = lastPosition
    BY <2>1, <2>2 DEF Pass, Feedback
  <2>4. operational' /\ state' = "SWITCH_ON_DISABLED" => 0 \notin cw'
    BY <2>1, <2>2, <2>3, PassFacts
  <2>5. display' # "CSP" => target' = lastPosition'
    BY <2>1, <2>2, <2>3 DEF Pass, TargetPosition, Update
  <2> QED BY <2>4, <2>5
<1>2. CASE ActivateUpdate \/ Read
  BY <1>2 DEF ActivateUpdate, Read
<1>3. CASE Exchange \/ NoExchange
  BY <1>3 DEF Exchange, NoExchange, AfterBus
<1>4. CASE BeginActivate \/ EndActivate
  BY <1>4 DEF BeginActivate, EndActivate
<1>5. CASE Control
  BY <1>5 DEF Control
<1>6. CASE SlaveToOp \/ ClearCause \/ Fault \/ QuickStop \/ PowerCycle
  BY <1>6 DEF SlaveToOp, ClearCause, Fault, QuickStop, PowerCycle
<1>7. CASE UNCHANGED vars
  BY <1>7 DEF vars
<1> QED
  BY <1>1, <1>2, <1>3, <1>4, <1>5, <1>6, <1>7 DEF Next, Activate, Cycle, Bus, Drive

LEMMA LadderInit == Init => SyncInv /\ LadderInv /\ AtBusInv
BY BlankStatus
   DEF Init, DriveInit, SyncInv, LadderInv, AtBusInv, PastReady, PastOn, Enabling, Reported, Powered,
       Blank

CycleInv == TypeOK /\ SyncInv /\ LadderInv /\ AtBusInv

LEMMA CycleInvariant == Spec => []CycleInv
<1>1. Init => CycleInv
  BY InitType, LadderInit DEF CycleInv
<1>2. CycleInv /\ [Next]_vars => CycleInv'
  BY TypeStep, SyncStep, LadderStep, AtBusStep DEF CycleInv
<1> QED BY <1>1, <1>2, PTL DEF Spec

(***************************************************************************)
(* The plugin never sends an enabled drive a word that disables it, however*)
(* old its knowledge of the drive is and whatever frames are lost: only a  *)
(* fault, a quick stop or a restart takes the drive out of operation, and  *)
(* the first frame of a launch that found it enabled.                      *)
(***************************************************************************)
THEOREM NeverDropsOut == Spec => NoDropOut
<1>1. ASSUME CycleInv, [Next]_vars, dstate = "OPERATION_ENABLED", dstate' # "OPERATION_ENABLED",
             answered
      PROVE  upsets' = upsets + 1
  <2>1. ~Exchange
    BY <1>1, ObeyedLadder DEF CycleInv, Exchange
  <2>2. ~NoExchange
    BY <1>1 DEF NoExchange
  <2>3. CASE Fault \/ QuickStop \/ PowerCycle
    BY <2>3 DEF Fault, QuickStop, PowerCycle, Upset
  <2>4. Fault \/ QuickStop \/ PowerCycle
    BY <1>1, <2>1, <2>2
       DEF Next, Activate, Cycle, Bus, Drive, BeginActivate, ActivateUpdate, EndActivate, Read,
           Control, Write, SlaveToOp, ClearCause, vars, servo
  <2> QED BY <2>3, <2>4
<1>2. CycleInv /\ [Next]_vars
        => [dstate = "OPERATION_ENABLED" /\ dstate' # "OPERATION_ENABLED"
              => upsets' = upsets + 1 \/ ~answered]_vars
  BY <1>1
<1> QED BY <1>2, CycleInvariant, PTL DEF Spec, NoDropOut

-----------------------------------------------------------------------------
(***************************************************************************)
(* The modes.  A command, the mode the drive works in, its newest report   *)
(* and what the plugin knows run after one another in this order: a mode   *)
(* that is displayed is the one commanded only once the drive has it, and  *)
(* the next is commanded only then.                                        *)
(***************************************************************************)
ModeInv ==
  /\ display # "NoMode" => state = "OPERATION_ENABLED"
  /\ wire.display # "NoMode" => Reported = "OPERATION_ENABLED"
  /\ dstate = "SWITCH_ON" => "OPERATION_ENABLED" \notin {state, Reported}
  /\ modeCmd \notin {NaN, mode} => phase = "write" /\ display = mode
  /\ display = mode => dmode = mode /\ wire.display \in {mode, "NoMode"}
  /\ wire.display = mode => dmode = mode
  /\ mode \in {"CSP", "CST"} /\ modeCmd \in {"CSP", "CST", NaN}

LEMMA ModeInit == Init => ModeInv
BY BlankStatus DEF Init, DriveInit, ModeInv, Reported

\* In a pass before which no command changed, and in one that takes a new mode over.
LEMMA ModePass ==
  ASSUME CycleInv, ModeInv, NEW in \in {wire, input}, NEW op \in BOOLEAN, Pass(in, op),
         phase = "write" => in = input /\ lastPosition # NaN,
         UNCHANGED <<commands, wire, dstate, dmode>>
  PROVE  ModeInv'
<1>f. /\ \/ state' = Reported /\ display' = wire.display
         \/ state' = state /\ display' = display
      /\ Reported' = Reported
  BY PassFacts DEF CycleInv
<1>u. UNCHANGED <<modeCmd, wire, dstate, dmode>>
  BY DEF commands
<1>m. mode' = IF modeCmd \in Modes THEN modeCmd ELSE mode
  BY DEF Pass, ModeOfOperation
<1>1. CASE modeCmd \in {NaN, mode}
  <2>1. mode' = mode
    BY <1>1, <1>m, DriveAssumption DEF ModeInv
  <2> QED BY <1>1, <1>f, <1>u, <2>1 DEF ModeInv
<1>2. CASE modeCmd \notin {NaN, mode}
  <2>1. mode' = modeCmd /\ display = mode /\ phase = "write"
    BY <1>2, <1>m, DriveAssumption DEF ModeInv, Modes
  <2>2. display' = display /\ state' = state
    BY <2>1 DEF Pass, Feedback, CycleInv, SyncInv
  <2>3. wire.display \in {mode, "NoMode"}
    BY <2>1 DEF ModeInv
  <2> QED BY <1>f, <1>u, <1>2, <2>1, <2>2, <2>3 DEF ModeInv
<1> QED BY <1>1, <1>2

LEMMA ModeStep ==
  ASSUME CycleInv, ModeInv, [Next]_vars
  PROVE  ModeInv'
<1> USE DEF image, plugin, commands, master, servo, history
<1>q. ASSUME UNCHANGED <<display, state, wire, dmode, mode, modeCmd>>, phase # "write" \/ UNCHANGED phase,
             dstate' = dstate \/ dstate' # "SWITCH_ON"
      PROVE  ModeInv'
  BY <1>q DEF ModeInv, Reported
<1>1. CASE ActivateUpdate \/ Read
  <2>1. PICK in \in {wire, input} : Pass(in, IF counter = 0 THEN al ELSE operational)
    BY <1>1 DEF ActivateUpdate, Read, Receive
  <2>2. (IF counter = 0 THEN al ELSE operational) \in BOOLEAN /\ phase # "write"
    BY <1>1 DEF CycleInv, TypeOK, DriveTypeOK, ActivateUpdate, Read
  <2> QED BY <1>1, <2>1, <2>2, ModePass DEF ActivateUpdate, Read
<1>2. CASE Write
  <2>1. operational \in BOOLEAN /\ lastPosition # NaN
    BY <1>2 DEF CycleInv, TypeOK, DriveTypeOK, SyncInv, Write
  <2> QED BY <1>2, <2>1, ModePass DEF Write
<1>3. CASE Exchange
  <2>1. /\ UNCHANGED <<display, state, mode, modeCmd>> /\ phase = "bus"
        /\ dmode' = mode /\ dstate' = Obeyed /\ Reported' = dstate
        /\ wire'.display # "NoMode" => dstate = "OPERATION_ENABLED" /\ wire'.display = dmode
    BY <1>3, SampleType DEF Exchange, Reported, CycleInv
  <2>2. dstate' = "SWITCH_ON" => "OPERATION_ENABLED" \notin {state, dstate}
    <3> SUFFICES ASSUME Obeyed = "SWITCH_ON" PROVE "OPERATION_ENABLED" \notin {state, dstate}
      BY <2>1
    <3>1. CASE dstate = "SWITCH_ON"
      BY <3>1 DEF ModeInv
    <3>2. CASE dstate = "READY_TO_SWITCH_ON"
      BY <3>2 DEF CycleInv, LadderInv, PastReady
    <3> QED BY <3>1, <3>2, ObeyedLadder DEF CycleInv
  <2> QED BY <2>1, <2>2 DEF ModeInv
<1>4. CASE NoExchange
  <2>1. dstate' = dstate \/ dstate' # "SWITCH_ON"
    BY <1>4 DEF NoExchange, Obeyed
  <2> QED BY <1>4, <1>q, <2>1 DEF NoExchange
<1>5. CASE Fault \/ PowerCycle \/ QuickStop
  BY <1>5, <1>q DEF Fault, PowerCycle, QuickStop
<1>6. CASE BeginActivate \/ SlaveToOp \/ ClearCause
  BY <1>6, <1>q DEF BeginActivate, SlaveToOp, ClearCause
<1>7. CASE EndActivate
  BY <1>7, <1>q DEF EndActivate
<1>8. CASE Control
  <2>1. /\ UNCHANGED <<display, state, wire, dmode, mode, dstate>> /\ phase = "control" /\ phase' = "write"
        /\ modeCmd' = modeCmd \/ (display = mode /\ modeCmd' \in {"CSP", "CST"})
    BY <1>8 DEF Control, CommandPosition, CommandMode, CommandReset
  <2> QED BY <2>1 DEF ModeInv, Reported
<1>9. CASE UNCHANGED vars
  BY <1>9, <1>q DEF vars
<1> QED
  BY <1>1, <1>2, <1>3, <1>4, <1>5, <1>6, <1>7, <1>8, <1>9 DEF Next, Activate, Cycle, Bus, Drive

(***************************************************************************)
(* A drive begins to follow positions where it was last seen: neither a    *)
(* command left in the interface nor a target of the past moves it, after  *)
(* a fault, a restart or CST, and whatever frames are lost.                *)
(***************************************************************************)
THEOREM EnablesInPlace == Spec => EnabledInPlace
<1>1. ASSUME CycleInv, ModeInv, [Next]_vars,
             dstate = "SWITCH_ON" \/ dmode = "CST", ~Follows, Follows'
      PROVE  pose' = input.position
  <2>1. Exchange
    <3>1. ~UNCHANGED <<dstate, dmode>>
      BY <1>1 DEF Follows
    <3>2. dstate' = "OPERATION_ENABLED"
      BY <1>1 DEF Follows
    <3> QED BY <1>1, <3>1, <3>2
        DEF Next, Activate, Cycle, Bus, Drive, BeginActivate, ActivateUpdate, EndActivate, Read,
            Control, Write, NoExchange, Obeyed, SlaveToOp, Fault, ClearCause, QuickStop, PowerCycle,
            vars, servo
  <2>2. pose' = target /\ phase = "bus" /\ dstate' = Obeyed /\ dmode' = mode
        /\ Obeyed = "OPERATION_ENABLED" /\ mode = "CSP"
    <3>1. dstate' = Obeyed /\ dmode' = mode /\ phase = "bus"
      BY <2>1 DEF Exchange
    <3>2. dstate' = "OPERATION_ENABLED" /\ dmode' = "CSP"
      BY <1>1 DEF Follows
    <3>3. pose' = target
      BY <1>1, <2>1 DEF Exchange
    <3> QED BY <3>1, <3>2, <3>3
  <2>3. driver = "active" /\ lastPosition # NaN
    <3>2. cw # {}
      BY <2>2, PoweredOnCommand DEF Powered
    <3> QED BY <1>1, <2>2, <3>2 DEF CycleInv, TypeOK, SyncInv
  <2>4. display # "CSP"
    <3>1. CASE dstate = "SWITCH_ON"
      BY <1>1, <2>3, <3>1 DEF CycleInv, SyncInv, ModeInv
    <3>2. CASE dmode = "CST"
      BY <1>1, <2>2, <3>2 DEF ModeInv
    <3> QED BY <1>1, <3>1, <3>2
  <2> QED BY <1>1, <2>2, <2>3, <2>4 DEF CycleInv, AtBusInv, SyncInv
<1>2. CycleInv /\ ModeInv /\ [Next]_vars
        => [(dstate = "SWITCH_ON" \/ dmode = "CST") /\ ~Follows /\ Follows'
              => pose' = input.position]_vars
  BY <1>1
<1>3. ModeInv /\ CycleInv /\ [Next]_vars => ModeInv'
  BY ModeStep
<1> QED BY <1>2, <1>3, ModeInit, CycleInvariant, PTL DEF Spec, EnabledInPlace
=============================================================================
