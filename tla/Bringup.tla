------------------------------ MODULE Bringup -------------------------------
(***************************************************************************)
(* How the four launch files bring the arm up: arm.launch.py,              *)
(* unified.launch.py, free_drive.launch.py and impedance.launch.py.        *)
(*                                                                         *)
(* A launch file starts nodes, some of them after a delay, and one spawner *)
(* of a controller; when a spawner exits, whatever its exit code, the next *)
(* is started.  The spawner and the controller manager are the ones of     *)
(* ros2_control: a spawner waits for the manager for at most 30 s, loads,  *)
(* configures and, unless told --inactive, activates, each with a call     *)
(* that may fail.  The unified launch also starts the mode switcher; its   *)
(* clients may call at once, and a change is one step here (ModeSwitcher   *)
(* has the steps it consists of and the ways they go wrong).               *)
(***************************************************************************)
EXTENDS Naturals

CONSTANTS Launches,   \* the launch files and arguments considered
          StartModes, \* the values of the argument start_mode
          MayDie      \* the controller manager may fail to start, or crash

Programs == {"arm", "unified", "free_drive", "impedance"}
Extras   == {"rviz", "db", "gripper", "safety", "diagnostics", "tcp", "servo"}

ASSUME BringupAssumption ==
  /\ Launches \subseteq [program : Programs, real : BOOLEAN,
                         start : StartModes, extras : SUBSET Extras]
  /\ MayDie \in BOOLEAN

VARIABLES launch,  \* the launch file that runs, with its arguments
          now,     \* seconds since it was started
          started, \* the nodes started so far
          manager, \* the controller manager: "none", "starting", "up" or "dead"
          spawner, \* where the spawner of each controller is
          state,   \* the state of each controller
          mode     \* ~/current_mode, latched

vars == <<launch, now, started, manager, spawner, state, mode>>

Jsb == "joint_state_broadcaster"
Jtc == "plan_group_controller"
Imp == "cartesian_impedance_controller"

Controllers == {Jsb, Jtc, Imp, "ee_gripper_controller", "mode_controller",
                "fault_reset_controller", "gravity_compensation_controller"}

Ended == {"ok", "failed"}

-----------------------------------------------------------------------------
(***************************************************************************)
(* What the _setup functions return: the nodes with their delays, and the  *)
(* handlers of the exits, as pairs of a spawner and the one that follows.  *)
(***************************************************************************)
After(n, nodes) == {[at |-> n, node |-> x] : x \in nodes}

Timers(l) ==
  CASE l.program = "arm" ->
         After(0, {"robot_state_publisher", "static_tfs", "move_group"}
                    \cup (l.extras \cap {"rviz", "db"}))
           \cup After(5, {"manager"}) \cup After(7, {"first_spawner"})
           \cup After(8, l.extras \cap {"safety", "diagnostics", "tcp"})
    [] l.program = "unified" ->
         After(0, {"robot_state_publisher", "static_tfs", "move_group"}
                    \cup (l.extras \cap {"rviz"}))
           \cup After(5, {"manager"}) \cup After(7, {"first_spawner"})
           \cup After(9, {"mode_switcher"}) \cup After(11, l.extras \cap {"servo"})
    [] OTHER ->
         After(0, {"robot_state_publisher", "manager", "first_spawner"})

Of(m) == IF m = "force" THEN Imp ELSE Jtc

\* Force mode, unless position is asked for by its name.
StartMode(l) == IF l.start = "position" THEN "position" ELSE "force"

First(l)  == Of(StartMode(l))
Second(l) == IF First(l) = Imp THEN Jtc ELSE Imp

ArmExits(l) ==
  {<<Jsb, Jtc>>} \cup IF "gripper" \in l.extras THEN {<<Jtc, "ee_gripper_controller">>} ELSE {}

UnifiedExits(l) ==
  {<<First(l), Second(l)>>}
    \cup IF l.real
           THEN {<<Jsb, "mode_controller">>, <<"mode_controller", "fault_reset_controller">>,
                 <<"fault_reset_controller", First(l)>>}
           ELSE {<<Jsb, First(l)>>}

OnExit(l) ==
  CASE l.program = "arm"        -> ArmExits(l)
    [] l.program = "unified"    -> UnifiedExits(l)
    [] l.program = "free_drive" -> {<<Jsb, "gravity_compensation_controller">>}
    [] OTHER                    -> {<<Jsb, Imp>>}

\* The controllers whose spawner gets --inactive.
Inactive(l) == IF l.program = "unified" THEN {Second(l)} ELSE {}

Spawned(l) == {Jsb} \cup {e[2] : e \in OnExit(l)}

-----------------------------------------------------------------------------
Init ==
  /\ launch \in Launches
  /\ now = 0
  /\ started = {}
  /\ manager = "none"
  /\ spawner = [c \in Controllers |-> "none"]
  /\ state = [c \in Controllers |-> "unloaded"]
  /\ mode = "none"

Due == {t \in Timers(launch) : t.at <= now /\ t.node \notin started}

Tick ==
  /\ Due = {}
  /\ \E t \in Timers(launch) : now < t.at
  /\ now' = now + 1
  /\ UNCHANGED <<launch, started, manager, spawner, state, mode>>

\* Mutant: the switcher gets the argument start_mode as it was typed.
Fire_RawMode(node) ==
  /\ \E t \in Due : t.node = node
  /\ started' = started \cup {node}
  /\ manager' = IF node = "manager" THEN "starting" ELSE manager
  /\ spawner' = IF node = "first_spawner" THEN [spawner EXCEPT ![Jsb] = "waiting"] ELSE spawner
  /\ mode' = IF node = "mode_switcher" THEN launch.start ELSE mode
  /\ UNCHANGED <<launch, now, state>>

\* The mode switcher announces its start_mode without asking the manager.
Fire(node) ==
  /\ \E t \in Due : t.node = node
  /\ started' = started \cup {node}
  /\ manager' = IF node = "manager" THEN "starting" ELSE manager
  /\ spawner' = IF node = "first_spawner" THEN [spawner EXCEPT ![Jsb] = "waiting"] ELSE spawner
  /\ mode' = IF node = "mode_switcher" THEN StartMode(launch) ELSE mode
  /\ UNCHANGED <<launch, now, state>>

-----------------------------------------------------------------------------
(***************************************************************************)
(* The controller manager and the spawners (external).                     *)
(***************************************************************************)
ManagerComesUp ==
  /\ manager = "starting"
  /\ manager' = "up"
  /\ UNCHANGED <<launch, now, started, spawner, state, mode>>

ManagerDies ==
  /\ MayDie /\ manager \in {"starting", "up"}
  /\ manager' = "dead"
  /\ state' = [c \in Controllers |-> "unloaded"]
  /\ UNCHANGED <<launch, now, started, spawner, mode>>

Spawn(c, from, to, before, after) ==
  /\ manager = "up"
  /\ spawner[c] = from /\ spawner' = [spawner EXCEPT ![c] = to]
  /\ state[c] = before /\ state' = [state EXCEPT ![c] = after]
  /\ UNCHANGED <<launch, now, started, manager, mode>>

Load(c) == Spawn(c, "waiting", "loaded", "unloaded", "unconfigured")

Configure(c) ==
  Spawn(c, "loaded", IF c \in Inactive(launch) THEN "ok" ELSE "configured",
        "unconfigured", "inactive")

\* STRICT: a controller that a client has activated meanwhile is refused.
Activate(c) == Spawn(c, "configured", "ok", "inactive", "active")

\* No manager within 30 s, or a call that fails.
Fail(c) ==
  /\ spawner[c] \in {"waiting", "loaded", "configured"}
  /\ spawner' = [spawner EXCEPT ![c] = "failed"]
  /\ UNCHANGED <<launch, now, started, manager, state, mode>>

SpawnerStep(c) == Load(c) \/ Configure(c) \/ Activate(c) \/ Fail(c)

-----------------------------------------------------------------------------
\* Mutant: the next spawner is started only after one that succeeded.
ProcessExit_Succeeded ==
  \E e \in OnExit(launch) :
    /\ spawner[e[1]] = "ok" /\ spawner[e[2]] = "none"
    /\ spawner' = [spawner EXCEPT ![e[2]] = "waiting"]
    /\ UNCHANGED <<launch, now, started, manager, state, mode>>

\* Mutant: the spawners are all started with the first.
ProcessExit_Parallel ==
  \E e \in OnExit(launch) :
    /\ spawner[e[1]] # "none" /\ spawner[e[2]] = "none"
    /\ spawner' = [spawner EXCEPT ![e[2]] = "waiting"]
    /\ UNCHANGED <<launch, now, started, manager, state, mode>>

\* OnProcessExit does not look at the exit code.
ProcessExit ==
  \E e \in OnExit(launch) :
    /\ spawner[e[1]] \in Ended /\ spawner[e[2]] = "none"
    /\ spawner' = [spawner EXCEPT ![e[2]] = "waiting"]
    /\ UNCHANGED <<launch, now, started, manager, state, mode>>

(***************************************************************************)
(* A client of the mode switcher; both switches are STRICT, the one that   *)
(* deactivates the impedance controller has an answer that is not read.    *)
(***************************************************************************)
ToPosition ==
  /\ mode # "none" /\ manager = "up" /\ state[Jtc] = "inactive"
  /\ state' = [state EXCEPT ![Jtc] = "active", ![Imp] = IF @ = "active" THEN "inactive" ELSE @]
  /\ mode' = "position"
  /\ UNCHANGED <<launch, now, started, manager, spawner>>

ToForce ==
  /\ mode # "none" /\ manager = "up" /\ state[Imp] = "inactive" /\ state[Jtc] = "active"
  /\ state' = [state EXCEPT ![Jtc] = "inactive", ![Imp] = "active"]
  /\ mode' = "force"
  /\ UNCHANGED <<launch, now, started, manager, spawner>>

Next ==
  \/ Tick
  \/ \E t \in Timers(launch) : Fire(t.node)
  \/ ManagerComesUp \/ ManagerDies
  \/ \E c \in Controllers : SpawnerStep(c)
  \/ ProcessExit
  \/ ToPosition \/ ToForce

\* Time passes, due timers fire, processes started get on, exits are handled.
Fairness ==
  /\ WF_vars(Tick) /\ WF_vars(\E t \in Timers(launch) : Fire(t.node))
  /\ \A c \in Controllers : WF_vars(SpawnerStep(c))
  /\ WF_vars(ProcessExit)

Spec == Init /\ [][Next]_vars /\ Fairness

-----------------------------------------------------------------------------
TypeOK ==
  /\ launch \in Launches
  /\ now \in 0..11
  /\ started \subseteq {t.node : t \in Timers(launch)}
  /\ manager \in {"none", "starting", "up", "dead"}
  /\ spawner \in [Controllers -> {"none", "waiting", "loaded", "configured"} \cup Ended]
  /\ state \in [Controllers -> {"unloaded", "unconfigured", "inactive", "active"}]
  /\ mode \in {"none", "position", "force"}

(***************************************************************************)
(* "It seeds current_mode from start_mode so clients see the right state   *)
(* without an explicit switch" (unified.launch.py, lines 152-153).         *)
(* Outside a change, an active controller of the arm is the one of the     *)
(* mode announced, or of start_mode before the switcher is up, whatever    *)
(* failed and whoever changed the mode while the spawners were at work: so *)
(* the two are never active together.  When no spawner failed and all have *)
(* ended, the controller of the mode is active.                            *)
(***************************************************************************)
Announced == IF mode = "none" THEN StartMode(launch) ELSE mode

ModeNamesActive ==
  launch.program = "unified" =>
    \A c \in {Jtc, Imp} : state[c] = "active" => c = Of(Announced)

StartModeTrue ==
  /\ ModeNamesActive
  /\ launch.program = "unified" /\ manager = "up"
       /\ (\A c \in Spawned(launch) : spawner[c] = "ok")
     => state[Of(Announced)] = "active"

(***************************************************************************)
(* unified.launch.py, lines 123-126 and arm.launch.py, lines 135-141: the  *)
(* spawners are started one by one.  Everything the launch file lists is   *)
(* started in the end, and every spawner ends, although one may fail or    *)
(* the manager may be gone.                                                *)
(***************************************************************************)
ChainCompletes ==
  <>[](/\ \A t \in Timers(launch) : t.node \in started
       /\ \A c \in Spawned(launch) : spawner[c] \in Ended)
=============================================================================
