--------------------- MODULE ImpedanceController_proofs ---------------------
(***************************************************************************)
(* Theorems about engaging the impedance controller, for any ramp time.    *)
(***************************************************************************)
EXTENDS ImpedanceController, TLAPS

\* TypeOK in two parts, the flags and the rest.
Flags ==
  /\ active \in BOOLEAN /\ enabled \in BOOLEAN
  /\ reseed \in BOOLEAN /\ restart \in BOOLEAN
  /\ tareNow \in BOOLEAN /\ tareAfter \in BOOLEAN
  /\ tared \in BOOLEAN /\ cut \in BOOLEAN /\ overlap \in BOOLEAN

Ranges ==
  /\ target \in {"stale", "held", "commanded"}
  /\ aim \in {"stale", "held", "commanded"}
  /\ ramp \in 0..RampTime /\ since \in 0..RampTime
  /\ effort \in 0..RampTime
  /\ svc \in Storing \cup {"idle"}
  /\ rt \in {"idle", "ramp", "aim", "output", "tare"}

LEMMA TypeParts == TypeOK <=> Flags /\ Ranges
BY DEF TypeOK, Flags, Ranges

LEMMA FlagsStep ==
  ASSUME Flags, [Next]_vars
  PROVE  Flags'
<1> USE DEF Flags
<1>1. CASE Activate
  BY <1>1 DEF Activate
<1>2. CASE Deactivate \/ UpdateFails
  BY <1>2 DEF Deactivate, UpdateFails, atomics, history
<1>3. CASE BeginUpdate \/ RestartRamp \/ TakeAim
  BY <1>3 DEF BeginUpdate, RestartRamp, TakeAim, atomics, history
<1>4. CASE Output
  BY <1>4 DEF Output, atomics, history
<1>5. CASE Tare
  <2>1. tareAfter' \in BOOLEAN /\ tared' \in BOOLEAN
    BY <1>5, Zenon DEF Tare
  <2>2. QED BY <1>5, <2>1 DEF Tare
<1>6. CASE StoreReseed \/ StoreRestart \/ StoreTareAfter
  BY <1>6 DEF StoreReseed, StoreRestart, StoreTareAfter, history
<1>7. CASE Enable \/ Disable \/ RequestTare \/ TargetPose
  BY <1>7 DEF Enable, Disable, RequestTare, TargetPose, atomics, history
<1>8. CASE Tick
  BY <1>8 DEF Tick, atomics
<1>9. CASE UNCHANGED vars
  BY <1>9 DEF vars, atomics, history
<1>10. QED
  BY <1>1, <1>2, <1>3, <1>4, <1>5, <1>6, <1>7, <1>8, <1>9 DEF Next, Update, Callback

LEMMA RangesStep ==
  ASSUME Ranges, [Next]_vars
  PROVE  Ranges'
<1> USE RampTimeAssumption DEF Ranges, Storing
<1>1. CASE Activate
  BY <1>1 DEF Activate
<1>2. CASE Deactivate \/ UpdateFails
  BY <1>2 DEF Deactivate, UpdateFails, atomics, history
<1>3. CASE BeginUpdate \/ RestartRamp \/ TakeAim
  BY <1>3 DEF BeginUpdate, RestartRamp, TakeAim, atomics, history
<1>4. CASE Output
  BY <1>4 DEF Output, atomics, history
<1>5. CASE Tare
  BY <1>5 DEF Tare
<1>6. CASE StoreReseed \/ StoreRestart \/ StoreTareAfter
  BY <1>6 DEF StoreReseed, StoreRestart, StoreTareAfter, history
<1>7. CASE Enable \/ Disable \/ RequestTare \/ TargetPose
  BY <1>7 DEF Enable, Disable, RequestTare, TargetPose, atomics, history
<1>8. CASE Tick
  BY <1>8 DEF Tick, Count, atomics
<1>9. CASE UNCHANGED vars
  BY <1>9 DEF vars, atomics, history
<1>10. QED
  BY <1>1, <1>2, <1>3, <1>4, <1>5, <1>6, <1>7, <1>8, <1>9 DEF Next, Update, Callback

LEMMA TypeStep ==
  ASSUME TypeOK, [Next]_vars
  PROVE  TypeOK'
<1>1. Flags' /\ Ranges'
  BY TypeParts, FlagsStep, RangesStep
<1>2. QED
  BY <1>1 DEF TypeOK, Flags, Ranges

LEMMA InitInv == Init => TypeOK /\ EngageInv
<1>1. Init => TypeOK
  <2>1. Init => Flags
    BY DEF Init, Flags
  <2>2. Init => Ranges
    BY RampTimeAssumption DEF Init, Ranges
  <2>3. QED BY <2>1, <2>2, TypeParts
<1>2. Init => EngageInv
  BY DEF Init, EngageInv, Seeded, Restarted, TarePending, Consumed
<1>3. QED BY <1>1, <1>2

(***************************************************************************)
(* Type correctness.                                                       *)
(***************************************************************************)
THEOREM TypeCorrect == Spec => []TypeOK
<1>1. Init => TypeOK
  BY InitInv
<1>2. TypeOK /\ [Next]_vars => TypeOK'
  BY TypeStep
<1>3. QED BY <1>1, <1>2, PTL DEF Spec

-----------------------------------------------------------------------------
(***************************************************************************)
(* What the engagement lacks is stored or still to be stored.              *)
(***************************************************************************)
LEMMA EngageStep ==
  ASSUME TypeOK, EngageInv, [Next]_vars
  PROVE  EngageInv'
<1> USE RampTimeAssumption
        DEF TypeOK, Storing, EngageInv, Seeded, Restarted, TarePending, Consumed
<1>1. CASE Activate
  BY <1>1 DEF Activate
<1>2. CASE Deactivate \/ UpdateFails
  BY <1>2 DEF Deactivate, UpdateFails, atomics, history
<1>3. CASE BeginUpdate
  BY <1>3 DEF BeginUpdate, history
<1>4. CASE RestartRamp
  BY <1>4 DEF RestartRamp, history
<1>5. CASE TakeAim \/ Output
  BY <1>5 DEF TakeAim, Output, atomics, history
<1>6. CASE Tare
  BY <1>6 DEF Tare
<1>7. CASE StoreReseed \/ StoreRestart \/ StoreTareAfter
  BY <1>7 DEF StoreReseed, StoreRestart, StoreTareAfter, history
<1>8. CASE Enable
  BY <1>8 DEF Enable
<1>9. CASE Disable \/ RequestTare \/ TargetPose
  BY <1>9 DEF Disable, RequestTare, TargetPose, atomics, history
<1>10. CASE Tick
  BY <1>10 DEF Tick, Count, atomics
<1>11. CASE UNCHANGED vars
  BY <1>11 DEF vars, atomics, history
<1>12. QED
  BY <1>1, <1>2, <1>3, <1>4, <1>5, <1>6, <1>7, <1>8, <1>9, <1>10, <1>11
     DEF Next, Update, Callback

(***************************************************************************)
(* The invariant the three properties rest on.                             *)
(***************************************************************************)
THEOREM EngageInvariant == Spec => [](TypeOK /\ EngageInv)
<1>1. Init => TypeOK /\ EngageInv
  BY InitInv
<1>2. TypeOK /\ EngageInv /\ [Next]_vars => (TypeOK /\ EngageInv)'
  BY TypeStep, EngageStep
<1>3. QED BY <1>1, <1>2, PTL DEF Spec

-----------------------------------------------------------------------------
(***************************************************************************)
(* The step that writes the torque, and the one that tares.                *)
(***************************************************************************)
LEMMA OutputIsGentle ==
  ASSUME TypeOK, EngageInv, [Next]_vars,
         rt = "output", rt' = "tare", effort' > 0, ~overlap
  PROVE  aim # "stale" /\ effort' <= since
<1>1. aim # "stale" /\ ramp <= since
  BY DEF EngageInv, Consumed
<1>2. Output
  BY DEF Next, Update, Callback, Activate, Deactivate, UpdateFails, BeginUpdate, RestartRamp,
         TakeAim, Tare, StoreReseed, StoreRestart, StoreTareAfter, Enable, Disable,
         RequestTare, TargetPose, Tick, vars
<1>3. effort' \in {0, ramp}
  BY <1>2 DEF Output
<1>4. QED BY <1>1, <1>3

LEMMA OnlyTareTares ==
  ASSUME [Next]_vars,
         rt = "tare",
         rt' = "idle" \/ (tareAfter /\ ~tareAfter')
  PROVE  Tare
BY DEF Next, Update, Callback, Activate, Deactivate, UpdateFails, BeginUpdate, RestartRamp,
       TakeAim, Output, StoreReseed, StoreRestart, StoreTareAfter, Enable, Disable,
       RequestTare, TargetPose, Tick, vars, atomics

(***************************************************************************)
(* Engaging never jerks the arm, unless the enable callback overlaps the   *)
(* update: however the callbacks and the controller's activations are      *)
(* ordered, and however long a callback is held up between two stores.     *)
(***************************************************************************)
THEOREM GentleEngagement == Spec => EngagesGently
<1>1. TypeOK /\ EngageInv /\ [Next]_vars =>
        [rt = "output" /\ rt' = "tare" /\ effort' > 0 /\ ~overlap =>
           aim # "stale" /\ effort' <= since]_vars
  BY OutputIsGentle
<1>2. QED BY <1>1, EngageInvariant, PTL DEF Spec, EngagesGently

(***************************************************************************)
(* The automatic tare waits for the ramp of its engagement.                *)
(***************************************************************************)
THEOREM PatientTare == Spec => TareWaits
<1>1. TypeOK /\ EngageInv /\ [Next]_vars =>
        [rt = "tare" /\ tareAfter /\ ~tareAfter' /\ ~overlap => since = RampTime]_vars
  <2>1. SUFFICES ASSUME TypeOK, EngageInv, [Next]_vars,
                        rt = "tare", tareAfter, ~tareAfter', ~overlap
                 PROVE  since = RampTime
    OBVIOUS
  <2>2. Tare
    BY <2>1, OnlyTareTares
  <2>3. ramp = RampTime /\ ramp <= since
    BY <2>1, <2>2 DEF Tare, RampDone, EngageInv, Consumed
  <2>4. since \in 0..RampTime
    BY <2>1 DEF TypeOK
  <2>5. QED BY <2>3, <2>4, RampTimeAssumption
<1>2. QED BY <1>1, EngageInvariant, PTL DEF Spec, TareWaits

(***************************************************************************)
(* The automatic tare comes once the ramp is complete.                     *)
(***************************************************************************)
THEOREM TareComes == Spec => TaredAfterRamp
<1>1. TypeOK /\ EngageInv /\ [Next]_vars =>
        [rt = "tare" /\ rt' = "idle" /\ enabled /\ RampDone /\ ~overlap /\ ~cut => tared']_vars
  <2>1. SUFFICES ASSUME TypeOK, EngageInv, [Next]_vars,
                        rt = "tare", rt' = "idle", enabled, RampDone, ~overlap, ~cut
                 PROVE  tared'
    OBVIOUS
  <2>2. Tare
    BY <2>1, OnlyTareTares
  <2>3. tared \/ tareAfter
    BY <2>1 DEF EngageInv, Consumed, TarePending
  <2>4. QED BY <2>1, <2>2, <2>3, Zenon DEF Tare
<1>2. QED BY <1>1, EngageInvariant, PTL DEF Spec, TaredAfterRamp
=============================================================================
