--------------------------- MODULE Bringup_proofs ---------------------------
(***************************************************************************)
(* Theorems about Bringup, for every set of launch files and arguments.    *)
(***************************************************************************)
EXTENDS Bringup, TLAPS

(***************************************************************************)
(* The steps, by name.                                                     *)
(***************************************************************************)
LEMMA Steps ==
  ASSUME [Next]_vars
  PROVE  \/ Tick
         \/ \E t \in Timers(launch) : Fire(t.node)
         \/ ManagerComesUp \/ ManagerDies
         \/ \E c \in Controllers : Load(c) \/ Configure(c) \/ Activate(c) \/ Fail(c)
         \/ ProcessExit \/ ToPosition \/ ToForce
         \/ UNCHANGED vars
BY DEF Next, SpawnerStep

\* Every timer of a launch file is due within 11 seconds.
LEMMA TimersAt ==
  ASSUME NEW l, NEW t \in Timers(l)
  PROVE  t.at \in 0..11
BY DEF Timers, After

\* First and Second are the two controllers of the arm.
LEMMA FirstSecond ==
  ASSUME NEW l
  PROVE  /\ First(l) # Second(l)
         /\ {First(l), Second(l)} = {Jtc, Imp}
         /\ Of(StartMode(l)) = First(l)
         /\ StartMode(l) \in {"position", "force"}
BY DEF First, Second, Of, StartMode, Jtc, Imp

\* Of the handlers of the unified launch one starts Second: the exit of First.
LEMMA OnlyFirstStartsSecond ==
  ASSUME NEW l, l.program = "unified", NEW e \in OnExit(l), e[2] = Second(l)
  PROVE  e[1] = First(l)
BY DEF OnExit, UnifiedExits, First, Second, Of, Jsb, Jtc, Imp

-----------------------------------------------------------------------------
(***************************************************************************)
(* Type correctness.                                                       *)
(***************************************************************************)
LEMMA InitType == Init => TypeOK
BY BringupAssumption DEF Init, TypeOK

LEMMA NextType == TypeOK /\ [Next]_vars => TypeOK'
<1> SUFFICES ASSUME TypeOK, [Next]_vars PROVE TypeOK'
  OBVIOUS
<1> USE DEF TypeOK
<1>1. CASE Tick
  <2>1. PICK t \in Timers(launch) : now < t.at
    BY <1>1 DEF Tick
  <2>2. now' \in 0..11
    BY <1>1, <2>1, TimersAt DEF Tick
  <2> QED BY <1>1, <2>2 DEF Tick
<1>2. ASSUME NEW t \in Timers(launch), Fire(t.node) PROVE TypeOK'
  <2>1. mode' \in {"none", "position", "force"}
    BY <1>2, FirstSecond DEF Fire
  <2>2. started' \subseteq {x.node : x \in Timers(launch)}
    BY <1>2 DEF Fire
  <2> QED BY <1>2, <2>1, <2>2 DEF Fire
<1>3. CASE ManagerComesUp
  BY <1>3 DEF ManagerComesUp
<1>4. CASE ManagerDies
  BY <1>4 DEF ManagerDies
<1>5. ASSUME NEW c \in Controllers, Load(c) \/ Configure(c) \/ Activate(c) PROVE TypeOK'
  BY <1>5 DEF Load, Configure, Activate, Spawn, Ended
<1>6. ASSUME NEW c \in Controllers, Fail(c) PROVE TypeOK'
  BY <1>6 DEF Fail, Ended
<1>7. CASE ProcessExit
  BY <1>7 DEF ProcessExit
<1>8. CASE ToPosition
  BY <1>8 DEF ToPosition
<1>9. CASE ToForce
  BY <1>9 DEF ToForce
<1>10. CASE UNCHANGED vars
  BY <1>10 DEF vars
<1> QED BY <1>1, <1>2, <1>3, <1>4, <1>5, <1>6, <1>7, <1>8, <1>9, <1>10, Steps

(***************************************************************************)
(* The variables keep their types, whatever the launch files.              *)
(***************************************************************************)
THEOREM BringupType == Spec => []TypeOK
BY InitType, NextType, PTL DEF Spec

-----------------------------------------------------------------------------
(***************************************************************************)
(* The order of the spawners is what keeps the mode true: while First is   *)
(* not spawned, Second is not loaded, so no client can change the mode     *)
(* away from the start mode, and Second is never activated by a spawner.   *)
(***************************************************************************)
Serial ==
  LET f == First(launch)
      s == Second(launch)
  IN  /\ spawner[s] # "none" => spawner[f] \in Ended
      /\ spawner[s] = "none" => state[s] = "unloaded"
      /\ spawner[s] # "configured"
      /\ spawner[f] \notin Ended => Announced = StartMode(launch)

\* The manager has been up when a spawner has got anywhere, and starts once.
ManagerFirst ==
  /\ manager # "none" => "manager" \in started
  /\ spawner[First(launch)] = "ok" => manager \in {"up", "dead"}
  /\ spawner[First(launch)] \in {"loaded", "configured"} => manager \in {"up", "dead"}
  /\ mode # "none" => "mode_switcher" \in started

ActiveWhenSpawned ==
  manager = "up" /\ spawner[First(launch)] = "ok" => state[Of(Announced)] = "active"

UnifiedInv ==
  launch.program = "unified" =>
    Serial /\ ManagerFirst /\ ModeNamesActive /\ ActiveWhenSpawned

LEMMA UnifiedInit == Init => UnifiedInv
BY FirstSecond DEF Init, UnifiedInv, Serial, ManagerFirst, ModeNamesActive, ActiveWhenSpawned,
   Announced, Controllers, Jtc, Imp, Ended

LEMMA UnifiedNext == TypeOK /\ UnifiedInv /\ [Next]_vars => UnifiedInv'
<1> SUFFICES ASSUME TypeOK, UnifiedInv, [Next]_vars, launch'.program = "unified"
             PROVE  (Serial /\ ManagerFirst /\ ModeNamesActive /\ ActiveWhenSpawned)'
  BY DEF UnifiedInv
<1>p. PICK f, s : f = First(launch) /\ s = Second(launch)
  OBVIOUS
<1>0. launch' = launch
  BY Steps DEF Tick, Fire, ManagerComesUp, ManagerDies, Load, Configure, Activate, Spawn, Fail,
     ProcessExit, ToPosition, ToForce, vars
<1>a. /\ launch.program = "unified" /\ Inactive(launch) = {s}
      /\ Serial /\ ManagerFirst /\ ModeNamesActive /\ ActiveWhenSpawned
  BY <1>0, <1>p DEF UnifiedInv, Inactive
<1>b. /\ f # s /\ {f, s} = {Jtc, Imp} /\ Of(StartMode(launch)) = f
      /\ StartMode(launch) \in {"position", "force"}
      /\ {f, s} \subseteq Controllers /\ Jsb \notin {f, s}
      /\ Jtc \in Controllers /\ Imp \in Controllers /\ Jtc # Imp
  BY <1>p, FirstSecond DEF Controllers, Jsb, Jtc, Imp
<1>d. Of("position") = Jtc /\ Of("force") = Imp
  BY DEF Of
<1> DEFINE Goal ==
         /\ spawner'[s] # "none" => spawner'[f] \in Ended
         /\ spawner'[s] = "none" => state'[s] = "unloaded"
         /\ spawner'[s] # "configured"
         /\ spawner'[f] \notin Ended => Announced' = StartMode(launch)
         /\ manager' # "none" => "manager" \in started'
         /\ spawner'[f] = "ok" => manager' \in {"up", "dead"}
         /\ spawner'[f] \in {"loaded", "configured"} => manager' \in {"up", "dead"}
         /\ mode' # "none" => "mode_switcher" \in started'
         /\ \A c \in {Jtc, Imp} : state'[c] = "active" => c = Of(Announced')
         /\ manager' = "up" /\ spawner'[f] = "ok" => state'[Of(Announced')] = "active"
<1>e. SUFFICES Goal
  BY <1>0, <1>a, <1>p DEF Serial, ManagerFirst, ModeNamesActive, ActiveWhenSpawned, Of
<1>h. /\ spawner[s] # "none" => spawner[f] \in Ended
      /\ spawner[s] = "none" => state[s] = "unloaded"
      /\ spawner[s] # "configured"
      /\ spawner[f] \notin Ended => Announced = StartMode(launch)
      /\ manager # "none" => "manager" \in started
      /\ spawner[f] = "ok" => manager \in {"up", "dead"}
      /\ spawner[f] \in {"loaded", "configured"} => manager \in {"up", "dead"}
      /\ mode # "none" => "mode_switcher" \in started
      /\ \A c \in {Jtc, Imp} : state[c] = "active" => c = Of(Announced)
      /\ manager = "up" /\ spawner[f] = "ok" => state[Of(Announced)] = "active"
  BY <1>a, <1>p DEF Serial, ManagerFirst, ModeNamesActive, ActiveWhenSpawned
<1>g. mode' = mode => Announced' = Announced
  BY <1>0 DEF Announced
<1>t. /\ spawner \in [Controllers -> {"none", "waiting", "loaded", "configured"} \cup Ended]
      /\ state \in [Controllers -> {"unloaded", "unconfigured", "inactive", "active"}]
      /\ mode \in {"none", "position", "force"}
  BY DEF TypeOK
<1>i. \A e \in OnExit(launch) : e[2] = s => e[1] = f
  BY <1>a, <1>p, OnlyFirstStartsSecond
<1> USE DEF Ended
<1>1. CASE Tick
  BY <1>1, <1>h, <1>g DEF Tick
<1>2. CASE \E t \in Timers(launch) : Fire(t.node)
  <2>1. PICK t \in Timers(launch) : Fire(t.node)
    BY <1>2
  <2>2. /\ spawner'[f] = spawner[f] /\ spawner'[s] = spawner[s] /\ state' = state
    BY <2>1, <1>b, <1>t DEF Fire
  <2>3. /\ t.node \notin started /\ started' = started \cup {t.node}
        /\ manager' = IF t.node = "manager" THEN "starting" ELSE manager
    BY <2>1 DEF Fire, Due
  <2>4. CASE t.node = "mode_switcher"
    <3>1. mode = "none" /\ mode' = StartMode(launch) /\ manager' = manager
      BY <2>1, <2>3, <2>4, <1>h DEF Fire
    <3>2. Announced = StartMode(launch) /\ Announced' = StartMode(launch)
      BY <3>1, <1>0, <1>b DEF Announced
    <3> QED BY <2>2, <2>3, <2>4, <3>1, <3>2, <1>h
  <2>5. CASE t.node # "mode_switcher"
    <3>1. mode' = mode
      BY <2>1, <2>5 DEF Fire
    <3> QED BY <2>2, <2>3, <2>5, <3>1, <1>h, <1>g
  <2> QED BY <2>4, <2>5
<1>3. CASE ManagerComesUp
  BY <1>3, <1>h, <1>g DEF ManagerComesUp
<1>4. CASE ManagerDies
  BY <1>4, <1>b, <1>h, <1>g DEF ManagerDies
<1>5. ASSUME NEW c \in Controllers, Load(c) PROVE Goal
  <2>1. /\ manager = "up" /\ spawner[c] = "waiting" /\ state[c] = "unloaded"
        /\ spawner' = [spawner EXCEPT ![c] = "loaded"]
        /\ state' = [state EXCEPT ![c] = "unconfigured"]
        /\ manager' = manager /\ started' = started /\ mode' = mode
    BY <1>5 DEF Load, Spawn
  <2> QED BY <2>1, <1>b, <1>d, <1>h, <1>g, <1>t DEF Of
<1>6. ASSUME NEW c \in Controllers, Configure(c) PROVE Goal
  <2>1. /\ manager = "up" /\ spawner[c] = "loaded" /\ state[c] = "unconfigured"
        /\ spawner' = [spawner EXCEPT ![c] = IF c = s THEN "ok" ELSE "configured"]
        /\ state' = [state EXCEPT ![c] = "inactive"]
        /\ manager' = manager /\ started' = started /\ mode' = mode
    BY <1>6, <1>a DEF Configure, Spawn
  <2> QED BY <2>1, <1>b, <1>d, <1>h, <1>g, <1>t DEF Of
<1>7. ASSUME NEW c \in Controllers, Activate(c) PROVE Goal
  <2>1. /\ manager = "up" /\ spawner[c] = "configured" /\ state[c] = "inactive"
        /\ spawner' = [spawner EXCEPT ![c] = "ok"]
        /\ state' = [state EXCEPT ![c] = "active"]
        /\ manager' = manager /\ started' = started /\ mode' = mode
    BY <1>7 DEF Activate, Spawn
  <2> QED BY <2>1, <1>b, <1>d, <1>h, <1>g, <1>t DEF Of
<1>8. ASSUME NEW c \in Controllers, Fail(c) PROVE Goal
  BY <1>8, <1>b, <1>h, <1>g, <1>t DEF Fail
<1>9. CASE ProcessExit
  <2>1. PICK e \in OnExit(launch) :
          /\ spawner[e[1]] \in Ended /\ spawner[e[2]] = "none"
          /\ spawner' = [spawner EXCEPT ![e[2]] = "waiting"]
    BY <1>9 DEF ProcessExit
  <2>2. state' = state /\ mode' = mode /\ manager' = manager /\ started' = started
    BY <1>9 DEF ProcessExit
  <2>3. e[2] = s => e[1] = f
    BY <1>i
  <2> QED BY <2>1, <2>2, <2>3, <1>b, <1>h, <1>g, <1>t
<1>10. CASE ToPosition
  <2>1. /\ mode # "none" /\ state[Jtc] = "inactive" /\ mode' = "position"
        /\ spawner' = spawner /\ manager' = manager /\ started' = started
        /\ state' = [state EXCEPT ![Jtc] = "active",
                                  ![Imp] = IF @ = "active" THEN "inactive" ELSE @]
    BY <1>10 DEF ToPosition
  <2>2. Announced' = "position"
    BY <2>1 DEF Announced
  <2>3. state'[Jtc] = "active" /\ state'[Imp] # "active"
    BY <2>1, <1>b, <1>t
  <2>4. spawner[f] \notin Ended => f = Jtc
    BY <2>1, <1>b, <1>h
  <2>5. f = Jtc => StartMode(launch) = "position"
    BY <1>b, <1>d
  <2>6. state'[s] = "unloaded" <=> state[s] = "unloaded"
    BY <2>1, <1>b, <1>t
  <2> QED BY <2>1, <2>2, <2>3, <2>4, <2>5, <2>6, <1>b, <1>d, <1>h
<1>11. CASE ToForce
  <2>1. /\ mode # "none" /\ state[Imp] = "inactive" /\ state[Jtc] = "active"
        /\ mode' = "force"
        /\ spawner' = spawner /\ manager' = manager /\ started' = started
        /\ state' = [state EXCEPT ![Jtc] = "inactive", ![Imp] = "active"]
    BY <1>11 DEF ToForce
  <2>2. Announced' = "force"
    BY <2>1 DEF Announced
  <2>3. spawner[f] \in Ended
    BY <2>1, <1>b, <1>h
  <2>4. state[s] # "unloaded"
    BY <2>1, <1>b
  <2> QED BY <2>1, <2>2, <2>3, <2>4, <1>b, <1>d, <1>h, <1>t
<1>12. CASE UNCHANGED vars
  BY <1>12, <1>h, <1>g DEF vars
<1> QED BY <1>1, <1>2, <1>3, <1>4, <1>5, <1>6, <1>7, <1>8, <1>9, <1>10, <1>11, <1>12, Steps

LEMMA UnifiedImplies == UnifiedInv /\ TypeOK => StartModeTrue
<1> SUFFICES ASSUME UnifiedInv, TypeOK PROVE StartModeTrue
  OBVIOUS
<1>1. launch.program = "unified" => First(launch) \in Spawned(launch)
  <2>1. launch.program = "unified" => \E e \in OnExit(launch) : e[2] = First(launch)
    <3> SUFFICES ASSUME launch.program = "unified"
                 PROVE  \E e \in OnExit(launch) : e[2] = First(launch)
      OBVIOUS
    <3>1. CASE launch.real
      <4>1. <<"fault_reset_controller", First(launch)>> \in OnExit(launch)
        BY <3>1 DEF OnExit, UnifiedExits
      <4> QED BY <4>1
    <3>2. CASE ~launch.real
      <4>1. <<Jsb, First(launch)>> \in OnExit(launch)
        BY <3>2 DEF OnExit, UnifiedExits
      <4> QED BY <4>1
    <3> QED BY <3>1, <3>2
  <2> QED BY <2>1 DEF Spawned
<1> QED BY <1>1 DEF UnifiedInv, StartModeTrue, ModeNamesActive, ActiveWhenSpawned

(***************************************************************************)
(* Whatever fails, and whoever changes the mode while the spawners are at  *)
(* work, the mode announced names the active controller.                   *)
(***************************************************************************)
THEOREM StartModeIsTrue == Spec => []StartModeTrue
<1>1. Init => TypeOK /\ UnifiedInv
  BY InitType, UnifiedInit
<1>2. (TypeOK /\ UnifiedInv) /\ [Next]_vars => (TypeOK /\ UnifiedInv)'
  BY NextType, UnifiedNext
<1>3. TypeOK /\ UnifiedInv => StartModeTrue
  BY UnifiedImplies
<1> QED BY <1>1, <1>2, <1>3, PTL DEF Spec

(***************************************************************************)
(* "Serial spawn chained via OnProcessExit" (unified.launch.py, lines      *)
(* 123-126): the second controller is not spawned while the first is, and  *)
(* until then nobody can change the mode away from start_mode.             *)
(***************************************************************************)
THEOREM SpawnedInOrder == Spec => [](launch.program = "unified" => Serial)
<1>1. Init => TypeOK /\ UnifiedInv
  BY InitType, UnifiedInit
<1>2. (TypeOK /\ UnifiedInv) /\ [Next]_vars => (TypeOK /\ UnifiedInv)'
  BY NextType, UnifiedNext
<1>3. UnifiedInv => (launch.program = "unified" => Serial)
  BY DEF UnifiedInv
<1> QED BY <1>1, <1>2, <1>3, PTL DEF Spec
=============================================================================
