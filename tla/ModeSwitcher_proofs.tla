------------------------ MODULE ModeSwitcher_proofs -------------------------
(***************************************************************************)
(* Theorems about the switching between position and force mode, for any   *)
(* delays that satisfy ModeAssumption, and the proof that the switcher     *)
(* implements ModeHandover.                                                *)
(***************************************************************************)
EXTENDS ModeSwitcher, TLAPS

(***************************************************************************)
(* What the outcome of a remote call may be, and that a call outside       *)
(* Faults is carried out.                                                  *)
(***************************************************************************)
LEMMA CallOutcome ==
  ASSUME NEW call, NEW o \in Outcomes(call)
  PROVE  /\ o.done \in BOOLEAN /\ o.ok \in BOOLEAN
         /\ o.ok => o.done
         /\ call \notin Faults => o.done
<1>1. /\ o = Fine \/ o = Refused \/ o = Unheard
      /\ call \notin Faults => o = Fine
  BY DEF Outcomes
<1>2. CASE o = Fine
  BY <1>2 DEF Fine
<1>3. CASE o = Refused
  <2>1. call \in Faults
    BY <1>1, <1>3 DEF Fine, Refused
  <2>2. QED BY <2>1, <1>3 DEF Refused
<1>4. CASE o = Unheard
  <2>1. call \in Faults
    BY <1>1, <1>4 DEF Fine, Unheard
  <2>2. QED BY <2>1, <1>4 DEF Unheard
<1>5. QED BY <1>1, <1>2, <1>3, <1>4

(***************************************************************************)
(* A switch that takes effect was legal, and one that is answered well     *)
(* took effect.                                                            *)
(***************************************************************************)
LEMMA SwitchOutcome ==
  ASSUME NEW legal \in BOOLEAN, NEW o \in SwitchOutcomes(legal)
  PROVE  /\ o.done \in BOOLEAN /\ o.ok \in BOOLEAN
         /\ o.ok => o.done
         /\ o.done => legal
<1>1. CASE legal
  BY <1>1, CallOutcome DEF SwitchOutcomes
<1>2. CASE ~legal
  <2>1. o = Refused
    BY <1>2 DEF SwitchOutcomes
  <2>2. QED BY <2>1 DEF Refused
<1>3. QED BY <1>1, <1>2

(***************************************************************************)
(* The history only names calls that can fail.                             *)
(***************************************************************************)
LEMMA CallNoted ==
  ASSUME NEW call, NEW o \in Outcomes(call), failed \subseteq Faults,
         NEW legal \in BOOLEAN, Note(call, legal, o)
  PROVE  failed' \subseteq Faults
<1>1. o # Fine => call \in Faults
  BY DEF Outcomes
<1>2. QED BY <1>1 DEF Note

LEMMA SwitchNoted ==
  ASSUME NEW legal \in BOOLEAN, NEW o \in SwitchOutcomes(legal),
         failed \subseteq Faults, Note("switch", legal, o)
  PROVE  failed' \subseteq Faults
<1>1. legal /\ o # Fine => "switch" \in Faults
  BY DEF SwitchOutcomes, Outcomes
<1>2. QED BY <1>1 DEF Note

(***************************************************************************)
(* Type correctness, with any number of callers and any faults.            *)
(***************************************************************************)
LEMMA TypeStep ==
  ASSUME TypeOK, [Next]_vars
  PROVE  TypeOK'
<1> USE ModeAssumption DEF TypeOK, ToPosition, ToForce, controllers, impedance, drives
<1>1. ASSUME NEW c \in Clients, NEW first \in {"activate", "swap"}, Call(c, first)
      PROVE  TypeOK'
  BY <1>1 DEF Call, Goto
<1>2. ASSUME NEW c \in Clients, PositionStep(c)
      PROVE  TypeOK'
  <2>1. CASE ActivateJtc(c)
    <3>1. PICK o \in SwitchOutcomes(~jtc) :
            /\ Note("switch", ~jtc, o)
            /\ jtc' = (jtc \/ o.done)
            /\ fresh' = (fresh \/ o.done)
            /\ IF o.ok THEN Sleep(c, "seeding", SwitchDelay) ELSE Goto(c, "idle")
      BY <2>1 DEF ActivateJtc
    <3>2. o.done \in BOOLEAN /\ o.ok \in BOOLEAN
      BY SwitchOutcome
    <3>3. jtc' \in BOOLEAN /\ fresh' \in BOOLEAN
      BY <3>1, <3>2
    <3>4. /\ pc' \in [Clients -> ToPosition \cup ToForce \cup {"idle"}]
          /\ timer' \in [Clients -> Nat]
      BY <3>1, <3>2 DEF Sleep, Goto
    <3>5. failed' \subseteq Faults
      BY <3>1, SwitchNoted
    <3>6. QED BY <2>1, <3>3, <3>4, <3>5 DEF ActivateJtc
  <2>2. CASE CommandCsp(c)
    BY <2>2 DEF CommandCsp, WriteDriveMode, Sleep, Goto
  <2>3. CASE Settled(c) \/ AnnouncePosition(c)
    BY <2>3 DEF Settled, AnnouncePosition, Goto
  <2>4. CASE DeactivateImpedance(c)
    <3>1. imp' \in BOOLEAN /\ failed' \subseteq Faults
      BY <2>4, SwitchOutcome, SwitchNoted DEF DeactivateImpedance
    <3>2. QED BY <2>4, <3>1 DEF DeactivateImpedance, Goto
  <2>5. CASE DisableImpedance(c)
    <3>1. enabled' \in BOOLEAN /\ failed' \subseteq Faults
      BY <2>5, CallOutcome, CallNoted DEF DisableImpedance
    <3>2. QED BY <2>5, <3>1 DEF DisableImpedance, Goto
  <2>6. QED BY <1>2, <2>1, <2>2, <2>3, <2>4, <2>5 DEF PositionStep
<1>3. ASSUME NEW c \in Clients, ForceStep(c)
      PROVE  TypeOK'
  <2>1. CASE SwapControllers(c)
    <3>1. PICK o \in SwitchOutcomes(jtc /\ ~imp) :
            /\ Note("switch", jtc /\ ~imp, o)
            /\ jtc' = (jtc /\ ~o.done)
            /\ imp' = (imp \/ o.done)
            /\ fresh' = (fresh /\ ~o.done)
            /\ ramp' = IF o.done THEN 0 ELSE ramp
            /\ Goto(c, IF o.ok THEN "soften" ELSE "idle")
      BY <2>1 DEF SwapControllers
    <3>2. {jtc', imp', fresh'} \subseteq BOOLEAN /\ ramp' \in 0..RampTime
      BY <3>1, SwitchOutcome
    <3>3. failed' \subseteq Faults
      BY <3>1, SwitchNoted
    <3>4. pc' \in [Clients -> ToPosition \cup ToForce \cup {"idle"}] /\ timer' = timer
      BY <3>1 DEF Goto
    <3>5. QED BY <2>1, <3>2, <3>3, <3>4 DEF SwapControllers
  <2>2. CASE Soften(c)
    <3>1. soft' \in BOOLEAN /\ failed' \subseteq Faults
      BY <2>2, CallOutcome, CallNoted DEF Soften
    <3>2. /\ pc' \in [Clients -> ToPosition \cup ToForce \cup {"idle"}]
          /\ timer' \in [Clients -> Nat]
      BY <2>2 DEF Soften, Sleep, Goto
    <3>3. QED BY <2>2, <3>1, <3>2 DEF Soften
  <2>3. CASE EnableImpedance(c)
    <3>1. enabled' \in BOOLEAN /\ ramp' \in 0..RampTime
      BY <2>3, CallOutcome DEF EnableImpedance
    <3>2. failed' \subseteq Faults
      BY <2>3, CallNoted DEF EnableImpedance
    <3>3. /\ pc' \in [Clients -> ToPosition \cup ToForce \cup {"idle"}]
          /\ timer' \in [Clients -> Nat]
      BY <2>3 DEF EnableImpedance, Sleep, Goto
    <3>4. QED BY <2>3, <3>1, <3>2, <3>3 DEF EnableImpedance
  <2>4. CASE CommandCst(c) \/ AnnounceForce(c)
    <3>1. /\ pc' \in [Clients -> ToPosition \cup ToForce \cup {"idle"}]
          /\ UNCHANGED <<timer, failed>>
      BY <2>4 DEF CommandCst, AnnounceForce, Goto
    <3>2. QED BY <2>4, <3>1 DEF CommandCst, AnnounceForce, WriteDriveMode
  <2>5. QED BY <1>3, <2>1, <2>2, <2>3, <2>4 DEF ForceStep
<1>4. CASE Follow \/ Seed \/ FreeDrive \/ Stiffen
  <2>1. CASE Follow
    BY <2>1 DEF Follow
  <2>2. CASE Seed \/ FreeDrive
    BY <2>2 DEF Seed, FreeDrive
  <2>3. CASE Stiffen
    BY <2>3 DEF Stiffen
  <2>4. QED BY <1>4, <2>1, <2>2, <2>3
<1>5. CASE Tick
  BY <1>5 DEF Tick
<1>6. CASE UNCHANGED vars
  BY <1>6 DEF vars
<1>7. QED BY <1>1, <1>2, <1>3, <1>4, <1>5, <1>6 DEF Next

(***************************************************************************)
(* Every variable keeps its type.                                          *)
(***************************************************************************)
THEOREM TypeCorrect == Spec => []TypeOK
<1>1. Init => TypeOK
  <2> SUFFICES ASSUME Init PROVE TypeOK
    OBVIOUS
  <2>1. jtc \in BOOLEAN /\ imp \in BOOLEAN /\ fresh \in BOOLEAN /\ seeded \in BOOLEAN
    BY Zenon DEF Init
  <2>2. enabled \in BOOLEAN /\ soft \in BOOLEAN
    BY DEF Init
  <2>3. QED BY <2>1, <2>2, ModeAssumption DEF Init, TypeOK
<1>2. TypeOK /\ [Next]_vars => TypeOK'
  BY TypeStep
<1>3. QED BY <1>1, <1>2, PTL DEF Spec

-----------------------------------------------------------------------------
(***************************************************************************)
(* What the theorems below assume of the use and of the world: one caller  *)
(* at a time, the impedance controller enabled by the node, and an enable  *)
(* call that works.  Each is needed: runs show the arm dropped without it. *)
(***************************************************************************)
OneCaller == \A c, d \in Clients : c = d

Used == OneCaller /\ AutoEnable /\ "enable" \notin Faults

(***************************************************************************)
(* The steps of a change to position mode preserve HoldInv.  The timer of  *)
(* "settling" ends after the drives have followed, for the command is as   *)
(* old as the sleep and a drive is faster than that.                       *)
(***************************************************************************)
LEMMA PositionHolds ==
  ASSUME Used, TypeOK, HoldInv, NEW c \in Clients, PositionStep(c)
  PROVE  HoldInv'
<1> USE ModeAssumption
    DEF Used, OneCaller, TypeOK, HoldInv, CallInv, Carries, InCsp,
        controllers, impedance, drives
<1>1. CASE ActivateJtc(c)
  <2>1. PICK o \in SwitchOutcomes(~jtc) :
          /\ jtc' = (jtc \/ o.done)
          /\ fresh' = (fresh \/ o.done)
          /\ IF o.ok THEN Sleep(c, "seeding", SwitchDelay) ELSE Goto(c, "idle")
    BY <1>1 DEF ActivateJtc
  <2>2. o.done \in BOOLEAN /\ o.ok \in BOOLEAN /\ (o.ok => o.done)
    BY SwitchOutcome
  <2>3. CASE o.ok
    <3>1. fresh' /\ Sleep(c, "seeding", SwitchDelay)
      BY <2>1, <2>2, <2>3
    <3>2. QED BY <1>1, <3>1 DEF ActivateJtc, Sleep
  <2>4. CASE ~o.ok
    <3>1. Goto(c, "idle")
      BY <2>1, <2>2, <2>4
    <3>2. QED BY <1>1, <3>1 DEF ActivateJtc, Goto
  <2>5. QED BY <2>3, <2>4
<1>2. CASE CommandCsp(c)
  <2>1. seeded
    BY <1>2 DEF CommandCsp
  <2>2. QED BY <1>2, <2>1 DEF CommandCsp, WriteDriveMode, Sleep, Goto
<1>3. CASE Settled(c)
  <2>1. InCsp
    BY <1>3 DEF Settled
  <2>2. QED BY <1>3, <2>1 DEF Settled, Goto
<1>4. CASE DeactivateImpedance(c)
  BY <1>4 DEF DeactivateImpedance, Goto
<1>5. CASE DisableImpedance(c)
  BY <1>5 DEF DisableImpedance, Goto
<1>6. CASE AnnouncePosition(c)
  BY <1>6 DEF AnnouncePosition, Goto
<1>7. QED
  BY <1>1, <1>2, <1>3, <1>4, <1>5, <1>6, PositionStep(c) DEF PositionStep

(***************************************************************************)
(* So do the steps of a change to force mode.  Its switch takes effect     *)
(* only if the impedance controller was inactive, and then the drives obey *)
(* positions; what restarts the ramp comes before the sleep that covers it.*)
(***************************************************************************)
LEMMA ForceHolds ==
  ASSUME Used, TypeOK, HoldInv, NEW c \in Clients, ForceStep(c)
  PROVE  HoldInv'
<1> USE ModeAssumption
    DEF Used, OneCaller, TypeOK, HoldInv, CallInv, Carries, InCsp,
        controllers, impedance, drives
<1>1. CASE SwapControllers(c)
  <2>1. PICK o \in SwitchOutcomes(jtc /\ ~imp) :
          /\ imp' = (imp \/ o.done)
          /\ ramp' = IF o.done THEN 0 ELSE ramp
          /\ Goto(c, IF o.ok THEN "soften" ELSE "idle")
    BY <1>1 DEF SwapControllers
  <2>2. /\ o.done \in BOOLEAN /\ o.ok \in BOOLEAN
        /\ (o.ok => o.done) /\ (o.done => ~imp)
    BY SwitchOutcome
  <2>3. CASE o.done
    <3>1. InCsp
      BY <2>2, <2>3, <1>1 DEF SwapControllers
    <3>2. imp'
      BY <2>1, <2>3
    <3>3. QED BY <1>1, <2>1, <2>2, <3>1, <3>2 DEF SwapControllers, Goto
  <2>4. CASE ~o.done
    <3>1. /\ imp' = imp /\ ramp' = ramp
          /\ Goto(c, "idle")
      BY <2>1, <2>2, <2>4
    <3>2. QED BY <1>1, <3>1 DEF SwapControllers, Goto
  <2>5. QED BY <2>2, <2>3, <2>4
<1>2. CASE Soften(c)
  <2>1. pc' = [pc EXCEPT ![c] = "enable"] /\ UNCHANGED timer
    BY <1>2 DEF Soften, Goto
  <2>2. QED BY <1>2, <2>1 DEF Soften
<1>3. CASE EnableImpedance(c)
  <2>1. PICK o \in Outcomes("enable") :
          /\ enabled' = (enabled \/ o.done)
          /\ ramp' = IF o.done /\ ~enabled THEN 0 ELSE ramp
    BY <1>3 DEF EnableImpedance
  <2>2. o.done
    BY CallOutcome
  <2>3. enabled'
    BY <2>1, <2>2, Zenon
  <2>4. (enabled => ramp' = ramp) /\ ramp' \in Nat
    BY <2>1, <2>2
  <2>5. QED BY <1>3, <2>3, <2>4 DEF EnableImpedance, Sleep, Goto
<1>4. CASE CommandCst(c)
  <2>1. ManageDrive /\ Carries
    BY <1>4 DEF CommandCst
  <2>2. QED BY <1>4, <2>1 DEF CommandCst, WriteDriveMode, Goto
<1>5. CASE AnnounceForce(c)
  BY <1>5 DEF AnnounceForce, Goto
<1>6. QED BY <1>1, <1>2, <1>3, <1>4, <1>5, ForceStep(c) DEF ForceStep

(***************************************************************************)
(* And so do the drives, the controllers, the operator and time.           *)
(***************************************************************************)
LEMMA WorldHolds ==
  ASSUME Used, TypeOK, HoldInv, Follow \/ Seed \/ FreeDrive \/ Stiffen \/ Tick
  PROVE  HoldInv'
<1> USE ModeAssumption
    DEF Used, OneCaller, TypeOK, HoldInv, CallInv, Carries, InCsp,
        controllers, impedance, drives
<1>1. CASE Follow
  BY <1>1 DEF Follow
<1>2. CASE Seed
  BY <1>2 DEF Seed
<1>3. CASE FreeDrive
  BY <1>3 DEF FreeDrive, Idle
<1>4. CASE Stiffen
  BY <1>4 DEF Stiffen
<1>5. CASE Tick
  BY <1>5 DEF Tick
<1>6. QED
  BY <1>1, <1>2, <1>3, <1>4, <1>5, Follow \/ Seed \/ FreeDrive \/ Stiffen \/ Tick

(***************************************************************************)
(* Each phase of a change fits the ramp, the command in flight and the     *)
(* drives.                                                                 *)
(***************************************************************************)
THEOREM HoldInvariant ==
  ASSUME Used
  PROVE  Spec => []HoldInv
<1>1. Init => HoldInv
  BY ModeAssumption DEF Init, HoldInv, CallInv, InCsp
<1>2. ASSUME TypeOK, HoldInv, [Next]_vars PROVE HoldInv'
  <2>1. ASSUME NEW c \in Clients, NEW first \in {"activate", "swap"}, Call(c, first)
        PROVE  HoldInv'
    BY <1>2, <2>1
       DEF Call, Goto, TypeOK, HoldInv, CallInv, Carries, InCsp,
           controllers, impedance, drives
  <2>2. ASSUME NEW c \in Clients, PositionStep(c) \/ ForceStep(c) PROVE HoldInv'
    BY <1>2, <2>2, PositionHolds, ForceHolds
  <2>3. CASE Follow \/ Seed \/ FreeDrive \/ Stiffen \/ Tick
    BY <1>2, <2>3, WorldHolds
  <2>4. CASE UNCHANGED vars
    BY <1>2, <2>4
       DEF vars, HoldInv, CallInv, Carries, InCsp, controllers, impedance, drives
  <2>5. QED BY <1>2, <2>1, <2>2, <2>3, <2>4 DEF Next
<1>3. QED BY <1>1, <1>2, TypeCorrect, PTL DEF Spec

(***************************************************************************)
(* The arm is held at every moment: with one caller and an enable call     *)
(* that works, whatever switches and stiffness updates fail.               *)
(***************************************************************************)
THEOREM ArmNeverDrops ==
  ASSUME Used
  PROVE  Spec => []NoDrop
<1>1. HoldInv => NoDrop
  BY DEF HoldInv, NoDrop
<1>2. QED BY <1>1, HoldInvariant, PTL

(***************************************************************************)
(* The drives come back to positions only with the command at the pose of  *)
(* the arm: they follow a command of CSP, written after the trajectory     *)
(* controller ran and while no one could move the arm.                     *)
(***************************************************************************)
THEOREM NeverJerked ==
  ASSUME Used
  PROVE  Spec => NoJerk
<1>1. ASSUME HoldInv, [Next]_vars
      PROVE  drive = "CST" /\ drive' = "CSP" => seeded
  <2> SUFFICES ASSUME drive = "CST", drive' = "CSP" PROVE seeded
    OBVIOUS
  <2>1. ASSUME NEW c \in Clients, NEW first \in {"activate", "swap"}, Call(c, first)
        PROVE  drive' = drive
    BY <2>1 DEF Call, drives
  <2>2. ASSUME NEW c \in Clients, PositionStep(c) PROVE drive' = drive
    BY <2>2
       DEF PositionStep, ActivateJtc, CommandCsp, Settled, DeactivateImpedance,
           DisableImpedance, AnnouncePosition, WriteDriveMode, drives
  <2>3. ASSUME NEW c \in Clients, ForceStep(c) PROVE drive' = drive
    BY <2>3
       DEF ForceStep, SwapControllers, Soften, EnableImpedance, CommandCst,
           AnnounceForce, WriteDriveMode, drives
  <2>4. CASE Seed \/ FreeDrive \/ Stiffen \/ Tick
    BY <2>4 DEF Seed, FreeDrive, Stiffen, Tick, drives
  <2>5. CASE Follow
    BY <1>1, <2>5 DEF Follow, HoldInv
  <2>6. CASE UNCHANGED vars
    BY <2>6 DEF vars, drives
  <2>7. QED BY <1>1, <2>1, <2>2, <2>3, <2>4, <2>5, <2>6 DEF Next
<1>2. QED BY <1>1, HoldInvariant, PTL DEF Spec, NoJerk

-----------------------------------------------------------------------------
(***************************************************************************)
(* Torques are obeyed only with zero stiffness, for any number of callers  *)
(* at once and whatever fails, until a reset of the stiffness is lost.     *)
(***************************************************************************)
THEOREM EngagedWeightless == Spec => EngagesWeightless
<1>1. Init => SoftInv
  BY DEF Init, SoftInv
<1>2. ASSUME TypeOK, SoftInv, [Next]_vars PROVE SoftInv'
  <2> USE <1>2 DEF TypeOK, SoftInv, controllers, impedance, drives, Goto, Sleep
  <2>1. ASSUME NEW c \in Clients, NEW first \in {"activate", "swap"}, Call(c, first)
        PROVE  SoftInv'
    BY <2>1 DEF Call
  <2>2. ASSUME NEW c \in Clients, PositionStep(c) PROVE SoftInv'
    <3>1. soft' = soft /\ (pending' = "CST" => pending = "CST")
      BY <2>2
         DEF PositionStep, ActivateJtc, CommandCsp, Settled, DeactivateImpedance,
             DisableImpedance, AnnouncePosition, WriteDriveMode
    <3>2. \A d \in Clients : pc'[d] \in {"enable", "ramping"} => pc'[d] = pc[d]
      BY <2>2
         DEF PositionStep, ActivateJtc, CommandCsp, Settled, DeactivateImpedance,
             DisableImpedance, AnnouncePosition
    <3>3. failed \subseteq failed'
      BY <2>2
         DEF PositionStep, ActivateJtc, CommandCsp, Settled, DeactivateImpedance,
             DisableImpedance, AnnouncePosition, Note
    <3>4. QED BY <3>1, <3>2, <3>3
  <2>3. ASSUME NEW c \in Clients, SwapControllers(c) \/ AnnounceForce(c) PROVE SoftInv'
    BY <2>3 DEF SwapControllers, AnnounceForce, Note
  <2>4. ASSUME NEW c \in Clients, Soften(c) PROVE SoftInv'
    <3>1. PICK o \in Outcomes("stiffness") :
            soft' = (soft \/ o.done) /\ Note("stiffness", TRUE, o)
      BY <2>4 DEF Soften
    <3>2. CASE o = Fine
      BY <3>1, <3>2 DEF Fine
    <3>3. CASE o # Fine
      BY <3>1, <3>3 DEF Note
    <3>4. QED BY <3>2, <3>3
  <2>5. ASSUME NEW c \in Clients, EnableImpedance(c) PROVE SoftInv'
    BY <2>5 DEF EnableImpedance, Note
  <2>6. ASSUME NEW c \in Clients, CommandCst(c) PROVE SoftInv'
    BY <2>6 DEF CommandCst, WriteDriveMode
  <2>7. CASE Follow \/ Seed \/ FreeDrive \/ Stiffen \/ Tick
    BY <2>7 DEF Follow, Seed, FreeDrive, Stiffen, Tick, Idle
  <2>8. CASE UNCHANGED vars
    BY <2>8 DEF vars
  <2>9. QED BY <2>1, <2>2, <2>3, <2>4, <2>5, <2>6, <2>7, <2>8, <1>2 DEF Next, ForceStep
<1>3. ASSUME SoftInv, [Next]_vars
      PROVE  drive = "CSP" /\ drive' = "CST" => soft \/ "stiffness" \in failed
  <2> SUFFICES ASSUME drive = "CSP", drive' = "CST" PROVE pending = "CST"
    BY <1>3 DEF SoftInv
  <2>1. CASE Follow
    BY <2>1 DEF Follow
  <2>2. CASE Seed \/ FreeDrive \/ Stiffen \/ Tick \/ UNCHANGED vars
    BY <2>2 DEF Seed, FreeDrive, Stiffen, Tick, drives, vars
  <2>3. ASSUME NEW c \in Clients, PositionStep(c) \/ ForceStep(c) PROVE drive' = drive
    BY <2>3
       DEF PositionStep, ActivateJtc, CommandCsp, Settled, DeactivateImpedance,
           DisableImpedance, AnnouncePosition, ForceStep, SwapControllers, Soften,
           EnableImpedance, CommandCst, AnnounceForce, WriteDriveMode, drives
  <2>4. ASSUME NEW c \in Clients, NEW first \in {"activate", "swap"}, Call(c, first)
        PROVE  drive' = drive
    BY <2>4 DEF Call, drives
  <2>5. QED BY <1>3, <2>1, <2>2, <2>3, <2>4 DEF Next
<1>4. QED BY <1>1, <1>2, <1>3, TypeCorrect, PTL DEF Spec, EngagesWeightless

(***************************************************************************)
(* Between changes the published mode names the one active controller,     *)
(* with one caller, until a legal switch fails.                            *)
(***************************************************************************)
THEOREM ModeIsTrue ==
  ASSUME OneCaller
  PROVE  Spec => []ModeMeansControllers
<1>1. Init => MeansInv
  BY DEF Init, MeansInv, Means, ToPosition, ToForce
<1>2. ASSUME TypeOK, MeansInv, [Next]_vars PROVE MeansInv'
  <2> SUFFICES ASSUME "switch" \notin failed' PROVE \A c \in Clients : Means(c)'
    BY DEF MeansInv
  <2> USE <1>2 DEF TypeOK, MeansInv, Means, controllers, Goto, Sleep, ToPosition, ToForce
  <2>1. ASSUME NEW c \in Clients, NEW first \in {"activate", "swap"}, Call(c, first)
        PROVE  \A d \in Clients : Means(d)'
    BY <2>1 DEF Call
  <2>2. ASSUME NEW c \in Clients, ActivateJtc(c) PROVE Means(c)'
    <3>1. PICK o \in SwitchOutcomes(~jtc) :
            /\ Note("switch", ~jtc, o)
            /\ jtc' = (jtc \/ o.done)
            /\ IF o.ok THEN Sleep(c, "seeding", SwitchDelay) ELSE Goto(c, "idle")
      BY <2>2 DEF ActivateJtc
    <3>2. CASE jtc
      BY <2>2, <3>1, <3>2 DEF SwitchOutcomes, Refused, Note, ActivateJtc
    <3>3. CASE ~jtc
      BY <2>2, <3>1, <3>3 DEF Fine, Note, ActivateJtc
    <3>4. QED BY <3>2, <3>3
  <2>3. ASSUME NEW c \in Clients, CommandCsp(c) \/ Settled(c) \/ DisableImpedance(c)
        PROVE  Means(c)'
    BY <2>3 DEF CommandCsp, Settled, DisableImpedance, Note
  <2>4. ASSUME NEW c \in Clients, DeactivateImpedance(c) PROVE Means(c)'
    <3>1. PICK o \in SwitchOutcomes(imp) :
            imp' = (imp /\ ~o.done) /\ Note("switch", imp, o)
      BY <2>4 DEF DeactivateImpedance
    <3>2. ~imp'
      <4>1. CASE imp
        <5>1. o = Fine
          BY <3>1, <4>1 DEF Note
        <5>2. o.done
          BY <5>1 DEF Fine
        <5>3. QED BY <3>1, <5>2
      <4>2. CASE ~imp
        BY <3>1, <4>2
      <4>3. QED BY <4>1, <4>2
    <3>3. QED BY <2>4, <3>1, <3>2 DEF DeactivateImpedance, Note
  <2>5. ASSUME NEW c \in Clients, AnnouncePosition(c) \/ AnnounceForce(c) PROVE Means(c)'
    BY <2>5 DEF AnnouncePosition, AnnounceForce
  <2>6. ASSUME NEW c \in Clients, SwapControllers(c) PROVE Means(c)'
    <3>1. PICK o \in SwitchOutcomes(jtc /\ ~imp) :
            /\ Note("switch", jtc /\ ~imp, o)
            /\ jtc' = (jtc /\ ~o.done)
            /\ imp' = (imp \/ o.done)
            /\ Goto(c, IF o.ok THEN "soften" ELSE "idle")
      BY <2>6 DEF SwapControllers
    <3>2. CASE jtc /\ ~imp
      <4>1. o = Fine
        BY <3>1, <3>2 DEF Note
      <4>2. imp' /\ ~jtc' /\ Goto(c, "soften")
        BY <3>1, <4>1 DEF Fine
      <4>3. QED BY <2>6, <4>2 DEF SwapControllers
    <3>3. CASE ~(jtc /\ ~imp)
      BY <2>6, <3>1, <3>3 DEF SwitchOutcomes, Refused, Note, SwapControllers
    <3>4. QED BY <3>2, <3>3
  <2>7. ASSUME NEW c \in Clients, Soften(c) \/ EnableImpedance(c) \/ CommandCst(c)
        PROVE  Means(c)'
    BY <2>7 DEF Soften, EnableImpedance, CommandCst, Note
  <2>8. CASE Follow \/ Seed \/ FreeDrive \/ Stiffen \/ Tick
    BY <2>8 DEF Follow, Seed, FreeDrive, Stiffen, Tick
  <2>9. CASE UNCHANGED vars
    BY <2>9 DEF vars
  <2>10. QED
    BY <1>2, <2>1, <2>2, <2>3, <2>4, <2>5, <2>6, <2>7, <2>8, <2>9
       DEF Next, PositionStep, ForceStep, OneCaller
<1>3. MeansInv => ModeMeansControllers
  BY ModeAssumption DEF MeansInv, Means, ModeMeansControllers, Idle
<1>4. QED BY <1>1, <1>2, <1>3, TypeCorrect, PTL DEF Spec

-----------------------------------------------------------------------------
(***************************************************************************)
(* Some controller is active at every moment, and the trajectory           *)
(* controller from its activation to the end of a change to position mode, *)
(* with one caller and whatever fails.                                     *)
(***************************************************************************)
LEMMA PhaseInvariant ==
  ASSUME OneCaller
  PROVE  Spec => []PhaseInv
<1>1. Init => PhaseInv
  BY DEF Init, PhaseInv, ToPosition
<1>2. ASSUME TypeOK, PhaseInv, [Next]_vars PROVE PhaseInv'
  <2> USE <1>2 DEF TypeOK, PhaseInv, OneCaller, controllers, Goto, Sleep, ToPosition, ToForce
  <2>1. ASSUME NEW c \in Clients, NEW first \in {"activate", "swap"}, Call(c, first)
        PROVE  PhaseInv'
    BY <2>1 DEF Call
  <2>2. ASSUME NEW c \in Clients, ActivateJtc(c) PROVE PhaseInv'
    <3>1. PICK o \in SwitchOutcomes(~jtc) :
            /\ jtc' = (jtc \/ o.done)
            /\ IF o.ok THEN Sleep(c, "seeding", SwitchDelay) ELSE Goto(c, "idle")
      BY <2>2 DEF ActivateJtc
    <3>2. o.done \in BOOLEAN /\ o.ok \in BOOLEAN /\ (o.ok => o.done)
      BY SwitchOutcome
    <3>3. CASE o.ok
      BY <2>2, <3>1, <3>2, <3>3 DEF ActivateJtc
    <3>4. CASE ~o.ok
      BY <2>2, <3>1, <3>2, <3>4 DEF ActivateJtc
    <3> QED BY <3>3, <3>4
  <2>3. ASSUME NEW c \in Clients, CommandCsp(c) \/ Settled(c) \/ DisableImpedance(c)
        PROVE  PhaseInv'
    <3>1. UNCHANGED <<jtc, imp>> /\ pc[c] \in {"seeding", "settling", "disable"}
      BY <2>3 DEF CommandCsp, Settled, DisableImpedance
    <3> QED BY <2>3, <3>1 DEF CommandCsp, Settled, DisableImpedance
  <2>4. ASSUME NEW c \in Clients, DeactivateImpedance(c) PROVE PhaseInv'
    BY <2>4 DEF DeactivateImpedance
  <2>5. ASSUME NEW c \in Clients, AnnouncePosition(c) \/ AnnounceForce(c) PROVE PhaseInv'
    BY <2>5 DEF AnnouncePosition, AnnounceForce
  <2>6. ASSUME NEW c \in Clients, SwapControllers(c) PROVE PhaseInv'
    <3>1. PICK o \in SwitchOutcomes(jtc /\ ~imp) :
            /\ jtc' = (jtc /\ ~o.done)
            /\ imp' = (imp \/ o.done)
            /\ Goto(c, IF o.ok THEN "soften" ELSE "idle")
      BY <2>6 DEF SwapControllers
    <3>2. o.done \in BOOLEAN
      BY SwitchOutcome
    <3>3. jtc' \/ imp'
      BY <3>1, <3>2
    <3>4. pc' = [pc EXCEPT ![c] = IF o.ok THEN "soften" ELSE "idle"]
      BY <3>1
    <3> QED BY <3>3, <3>4
  <2>7. ASSUME NEW c \in Clients, Soften(c) \/ EnableImpedance(c) \/ CommandCst(c)
        PROVE  PhaseInv'
    BY <2>7 DEF Soften, EnableImpedance, CommandCst
  <2>8. CASE Follow \/ Seed \/ FreeDrive \/ Stiffen \/ Tick
    BY <2>8 DEF Follow, Seed, FreeDrive, Stiffen, Tick
  <2>9. CASE UNCHANGED vars
    BY <2>9 DEF vars
  <2> QED
    BY <1>2, <2>1, <2>2, <2>3, <2>4, <2>5, <2>6, <2>7, <2>8, <2>9
       DEF Next, PositionStep, ForceStep
<1> QED BY <1>1, <1>2, TypeCorrect, PTL DEF Spec

(***************************************************************************)
(* The mode switcher implements ModeHandover: the switches are its Take,   *)
(* Join and Release, the drives' following its Obey and Return, and what   *)
(* the ramp and the enable calls do its Prepare.                           *)
(***************************************************************************)
THEOREM HandoverRefinement ==
  ASSUME Used
  PROVE  Spec => HandsOver
<1>1. Init => Handover!Init
  BY DEF Init, Handover!Init, Carries
<1>2. ASSUME TypeOK, HoldInv, PhaseInv, [Next]_vars
      PROVE  [Handover!Next]_(Handover!handover)
  <2> DEFINE Step == [Handover!Next]_(Handover!handover)
  <2> USE DEF Handover!Next, Handover!Take, Handover!Prepare, Handover!Obey, Handover!Join,
              Handover!Return, Handover!Release, Handover!handover
  <2>t. /\ jtc \in BOOLEAN /\ imp \in BOOLEAN /\ (jtc \/ imp)
        /\ drive \in {"CSP", "CST"} /\ Carries \in BOOLEAN
        /\ drive = "CST" => Carries
        /\ Carries => imp
    BY <1>2 DEF TypeOK, PhaseInv, HoldInv, Carries
  <2>b. jtc \in BOOLEAN /\ imp \in BOOLEAN
    BY <1>2 DEF TypeOK
  <2>s. UNCHANGED <<jtc, imp, enabled, ramp, drive>> => Step
    BY DEF Carries
  <2>p. imp /\ drive = "CSP" /\ UNCHANGED <<jtc, imp, drive>> => Step
    BY DEF Carries
  <2>1. ASSUME NEW c \in Clients, NEW first \in {"activate", "swap"}, Call(c, first)
        PROVE  Step
    BY <2>1, <2>s DEF Call, controllers, impedance, drives
  <2>2. ASSUME NEW c \in Clients, ActivateJtc(c) PROVE Step
    <3>1. PICK o \in SwitchOutcomes(~jtc) : jtc' = (jtc \/ o.done)
      BY <2>2 DEF ActivateJtc
    <3>2. o.done \in BOOLEAN /\ (o.done => ~jtc)
      BY <2>t, SwitchOutcome
    <3>3. UNCHANGED <<imp, enabled, ramp, drive>>
      BY <2>2 DEF ActivateJtc, impedance, drives
    <3>4. CASE o.done
      <4>1. imp /\ ~jtc /\ jtc' /\ Carries' = Carries
        BY <2>t, <3>1, <3>2, <3>3, <3>4 DEF Carries
      <4> QED BY <3>3, <4>1
    <3>5. CASE ~o.done
      <4>1. jtc' = jtc
        BY <2>b, <3>1, <3>5, Zenon
      <4> QED BY <2>s, <3>3, <4>1
    <3> QED BY <3>2, <3>4, <3>5
  <2>3. ASSUME NEW c \in Clients, CommandCsp(c) \/ Settled(c) \/ AnnouncePosition(c)
                                    \/ Soften(c) \/ CommandCst(c) \/ AnnounceForce(c)
        PROVE  Step
    <3>1. UNCHANGED <<jtc, imp, enabled, ramp, drive>>
      BY <2>3 DEF CommandCsp, Settled, AnnouncePosition, Soften, CommandCst, AnnounceForce,
                  WriteDriveMode, controllers, impedance, drives
    <3> QED BY <2>s, <3>1
  <2>4. ASSUME NEW c \in Clients, DeactivateImpedance(c) PROVE Step
    <3>1. PICK o \in SwitchOutcomes(imp) : imp' = (imp /\ ~o.done)
      BY <2>4 DEF DeactivateImpedance
    <3>2. o.done \in BOOLEAN /\ (o.done => imp)
      BY <2>t, SwitchOutcome
    <3>3. UNCHANGED <<jtc, enabled, ramp, drive>>
      BY <2>4 DEF DeactivateImpedance, impedance, drives
    <3>4. jtc /\ drive = "CSP"
      BY <1>2, <2>4 DEF DeactivateImpedance, HoldInv, CallInv, InCsp, PhaseInv, ToPosition
    <3>5. CASE o.done
      <4>1. imp' = FALSE
        BY <2>b, <3>1, <3>5, Zenon
      <4>2. Carries' = FALSE
        BY <4>1 DEF Carries
      <4>3. Handover!Release
        BY <3>2, <3>3, <3>4, <3>5, <4>1, <4>2
      <4> QED BY <4>3
    <3>6. CASE ~o.done
      BY <2>t, <2>s, <3>1, <3>3, <3>6
    <3> QED BY <3>2, <3>5, <3>6
  <2>5. ASSUME NEW c \in Clients, DisableImpedance(c) PROVE Step
    <3>1. drive = "CSP" /\ UNCHANGED <<jtc, imp, drive>>
      BY <1>2, <2>5 DEF DisableImpedance, HoldInv, CallInv, InCsp, controllers, drives
    <3>2. CASE imp
      BY <2>p, <3>1, <3>2
    <3>3. CASE ~imp
      BY <2>t, <3>1, <3>3 DEF Carries
    <3> QED BY <3>2, <3>3
  <2>6. ASSUME NEW c \in Clients, SwapControllers(c) PROVE Step
    <3>1. PICK o \in SwitchOutcomes(jtc /\ ~imp) :
            /\ jtc' = (jtc /\ ~o.done)
            /\ imp' = (imp \/ o.done)
            /\ ramp' = IF o.done THEN 0 ELSE ramp
      BY <2>6 DEF SwapControllers
    <3>2. o.done \in BOOLEAN /\ (o.done => jtc /\ ~imp)
      BY <2>t, SwitchOutcome
    <3>3. UNCHANGED <<enabled, drive>>
      BY <2>6 DEF SwapControllers, drives
    <3>4. CASE o.done
      <4>1. jtc' = FALSE /\ imp' = TRUE
        BY <2>b, <3>1, <3>4, Zenon
      <4>2. jtc /\ ~imp /\ drive = "CSP"
        BY <2>t, <3>2, <3>4
      <4>3. Carries' \in BOOLEAN
        BY DEF Carries
      <4>4. Handover!Take
        BY <3>3, <4>1, <4>2, <4>3
      <4> QED BY <4>4
    <3>5. CASE ~o.done
      <4>1. jtc' = jtc
        BY <2>b, <3>1, <3>5, Zenon
      <4>2. imp' = imp
        BY <2>b, <3>1, <3>5, Zenon
      <4>3. ramp' = ramp
        BY <3>1, <3>5
      <4> QED BY <2>s, <3>3, <4>1, <4>2, <4>3
    <3> QED BY <3>2, <3>4, <3>5
  <2>7. ASSUME NEW c \in Clients, EnableImpedance(c) PROVE Step
    <3>1. PICK o \in Outcomes("enable") :
            /\ enabled' = (enabled \/ o.done)
            /\ ramp' = IF o.done /\ ~enabled THEN 0 ELSE ramp
      BY <2>7 DEF EnableImpedance
    <3>2. imp /\ UNCHANGED <<jtc, imp, drive>>
      BY <1>2, <2>7 DEF EnableImpedance, HoldInv, CallInv, controllers, drives
    <3>3. CASE drive = "CSP"
      BY <2>p, <3>2, <3>3
    <3>4. CASE drive = "CST"
      <4>1. enabled /\ enabled \in BOOLEAN
        BY <1>2, <2>t, <3>4 DEF Carries, TypeOK
      <4>2. UNCHANGED <<enabled, ramp>>
        BY <3>1, <4>1
      <4> QED BY <2>s, <3>2, <4>2
    <3> QED BY <2>t, <3>3, <3>4
  <2>8. CASE Follow
    <3>1. UNCHANGED <<jtc, imp, enabled, ramp>> /\ drive' = pending /\ pending \in {"CSP", "CST"}
      BY <1>2, <2>8 DEF Follow, controllers, impedance, TypeOK
    <3>2. Carries' = Carries
      BY <3>1 DEF Carries
    <3>3. pending = "CST" => Carries
      BY <1>2 DEF HoldInv
    <3>4. pending = "CSP" => jtc
      BY <1>2 DEF HoldInv, PhaseInv, ToPosition
    <3>5. CASE drive' = drive
      BY <2>s, <3>1, <3>5
    <3>6. CASE drive = "CSP" /\ drive' = "CST"
      BY <2>t, <3>1, <3>2, <3>3, <3>6
    <3>7. CASE drive = "CST" /\ drive' = "CSP"
      BY <2>t, <3>1, <3>2, <3>4, <3>7
    <3> QED BY <2>t, <3>1, <3>5, <3>6, <3>7
  <2>9. CASE Seed \/ FreeDrive \/ Stiffen
    BY <2>9, <2>s DEF Seed, FreeDrive, Stiffen, controllers, impedance, drives
  <2>10. CASE Tick
    <3>1. UNCHANGED <<jtc, imp, enabled, drive>> /\ ramp' = IF imp /\ ramp < RampTime THEN ramp + 1 ELSE ramp
      BY <2>10 DEF Tick, controllers
    <3>2. CASE imp /\ drive = "CSP"
      BY <2>p, <3>1, <3>2
    <3>3. CASE ~imp \/ drive = "CST"
      <4>1. ramp' = ramp
        BY <1>2, <2>t, <3>1, <3>3, ModeAssumption DEF Carries, TypeOK
      <4> QED BY <2>s, <3>1, <4>1
    <3> QED BY <2>t, <3>2, <3>3
  <2>11. CASE UNCHANGED vars
    BY <2>11, <2>s DEF vars, controllers, impedance, drives
  <2> QED
    BY <1>2, <2>1, <2>2, <2>3, <2>4, <2>5, <2>6, <2>7, <2>8, <2>9, <2>10, <2>11
       DEF Next, PositionStep, ForceStep
<1>3. Spec => []PhaseInv
  BY PhaseInvariant DEF Used
<1> QED
  BY <1>1, <1>2, <1>3, HoldInvariant, TypeCorrect, PTL DEF Spec, HandsOver, Handover!Spec

(***************************************************************************)
(* What the promise is worth: whoever hands over this way has a controller *)
(* active at every moment, and drives that obey torques have them.         *)
(***************************************************************************)
THEOREM HandoverHolds == HandsOver => []((jtc \/ imp) /\ NoDrop)
<1> DEFINE Held == /\ {jtc, imp, Carries} \subseteq BOOLEAN
                   /\ jtc \/ imp
                   /\ drive = "CST" => imp /\ Carries
<1>1. Handover!Init => Held
  BY DEF Handover!Init, Carries
<1>2. ASSUME Held, [Handover!Next]_(Handover!handover) PROVE Held'
  <2>1. CASE Handover!Take \/ Handover!Prepare
    BY <1>2, <2>1 DEF Handover!Take, Handover!Prepare
  <2>2. CASE Handover!Obey
    BY <1>2, <2>2 DEF Handover!Obey
  <2>3. CASE Handover!Join
    BY <1>2, <2>3 DEF Handover!Join
  <2>4. CASE Handover!Return
    BY <1>2, <2>4 DEF Handover!Return
  <2>5. CASE Handover!Release
    BY <1>2, <2>5 DEF Handover!Release
  <2>6. CASE UNCHANGED Handover!handover
    BY <1>2, <2>6 DEF Handover!handover
  <2> QED BY <1>2, <2>1, <2>2, <2>3, <2>4, <2>5, <2>6 DEF Handover!Next
<1>3. Held => (jtc \/ imp) /\ NoDrop
  BY DEF NoDrop
<1> QED BY <1>1, <1>2, <1>3, PTL DEF HandsOver, Handover!Spec
=============================================================================
