# Formal models of arm_ws

TLA+ models of the ROS 2 workspace that drives the 7-axis armv7 arm over EtherCAT:
what the software E-stop promises, how a drive is brought up without moving the
joint, how the arm changes between position and force control while it is powered,
how the impedance controller is engaged, what programs, panels and the bounding box
do to a moving arm, and how the launch files bring it all up. TLC checks small
instances of every module; TLAPS proves the central properties for every value of
the constants.

Paths below are relative to `src/src/` of the repository unless they start with
`docs/`.

## 1. The system

| Component | State it keeps | Operations | Talks to |
|---|---|---|---|
| E-stop, `armv7_safety/estop_node.py` | `_stopped`, `_lock`, latched `/safety/estop` | `estop_trigger`, `estop_clear` | controller manager (`switch_controller`, `list_controllers`), clients, bounding box |
| CiA 402 plugin, `ethercat_generic_plugins/ethercat_generic_cia402_drive` | decoded drive state, mode, last position, reset latches | `processData`, `transition`, `deviceState`, `setupSlave` | PDO channels, command and state interfaces |
| EtherCAT master and driver, `ethercat_interface`, `ethercat_driver` | `activated_`, mutex, update counter, process image | `on_init`, `on_activate`, `on_deactivate`, `read`, `write` | IgH master, plugins, ros2_control |
| Mode switcher, `armv7_mode_manager/mode_switcher.py` | `_mode`, latched `~/current_mode` | `to_position`, `to_force` | controller manager, impedance controller, drives |
| Impedance controller, `armv7_impedance_moveit/src/` | four flags, target, ramp clock, wrench filter, live parameters | activate, update, deactivate, `~/enable`, `~/tare_external_wrench`, `~/target_pose`, parameters | effort interfaces, mode switcher, panels |
| Zero-force controller, `armv7_zero_force_controller` | `enabled_`, ramp clock | activate, update, `~/enable` | effort interfaces |
| Bounding box, `armv7_safety/workspace_bbox_node.py` | `_last_state` | timer tick | TF, E-stop |
| Clients, `armv7_py`, `armv7_cpp_api` | goal handles, last joint state | move, jog, stop, cancel, wait | trajectory action, E-stop |
| Example programs, `armv7_examples` | where they are, exit code, gripper | steps, waits | Python client, gripper controller |
| Collector, `armv7_dyn_ident/collect_node.py` | pose index, samples, rows | send, wait, sample, record | trajectory action, `/joint_states`, `identify.py` by a file |
| Panel, `armv7_rqt/armv7_widget.py` | displays, seed, jog, Servo started, reset pulses | button and spin box handlers, timers | mode switcher, impedance controller, Servo, fault reset controller |
| Tuning dashboard, `armv7_impedance_moveit/scripts/tuning_dashboard.py` | button, seed, TF buffer, a side thread | button and slider handlers, retry timer | impedance controller, TF |
| Bring-up, `armv7_bringup/launch` and two more launch files | timers, spawners | delays, exit handlers | controller manager, mode switcher |
| Diagnostics, TCP publisher, EtherCAT scripts | last message | timers, callbacks, polling loops | topics, services, `ethercat` tool |

These interactions decide whether the arm moves when it should not, or holds when
it should. Every one crosses a process boundary or a thread boundary, and the code
has no transaction over any of them:

* the E-stop node asks the controller manager to deactivate the trajectory
  controller and has to draw its conclusion from two calls either of which can be
  lost, refused or late;
* the plugin computes the outputs of one frame from the inputs of the frame
  before, towards a drive with a state machine of its own;
* the mode switcher orders four parties (trajectory controller, impedance
  controller, drives, caller) by the order of its calls and by sleeps;
* every program that moves the arm shares one action server with all the others:
  each is preempted, stopped or rejected by what others do, and learns it, if at
  all, from a result that comes later;
* the panels drive the impedance controller by three channels without an order
  between them, and change their displays when they send, not when they are answered;
* a launch file orders processes by delays and by exits whose codes it ignores.

What makes each component correct:

* E-stop: flag, topic and controller agree when no call is under way; success is
  answered only when it is true; no stop is hidden; every handler returns.
* Plugin and cycle: a drive that obeys its target is never given the power-on zero of
  the process image, unless a controller took that zero for the position; a drive that
  begins to follow positions is given the position it has; but for the first frame of
  a warm launch no control word of the plugin disables an enabled drive; every upset
  is recovered from.
* Mode switcher: whenever the drives obey torques the impedance controller carries
  the arm; when they come back to positions the command is the pose of the arm;
  force mode starts with no spring; an accepted change completes.
* Impedance controller: no torque from an old target or an old ramp; a tare after
  each engagement, once the ramp is complete.
* Clients and programs: success is not reported of a move that was cut short; a
  program that was cut short moves neither the arm nor the gripper again; it returns.
* Bounding box: an exit that was seen leads to a stop. Collector: what it writes is
  read as what it was.
* Panels: what they show is what there is; the spring is switched on at rest; hands
  off is at rest.
* Bring-up: the mode that is announced is the controller that is active, and
  everything listed is started whatever fails.

The places where the code can go wrong in ways a test would hardly reach are the
`hazards` of PROJECT.json, each with its line and with the properties that would
catch it or the reason why none does.

## 2. The modules

| Module | Models | Theorems |
|---|---|---|
| `EstopCycle` | what the E-stop promises, as a cycle of four steps of (motion, topic) | |
| `Estop` | `estop_node.py`, the executor's workers, the controller manager | `Estop_proofs` |
| `CiA402Drive` | the plugin and the channel update: one pass over the channels of a drive | |
| `EthercatCycle` | driver, master, frames, servo drive and controllers around it | `EthercatCycle_proofs` |
| `ModeHandover` | what the mode switcher promises, as the steps by which one controller hands the arm over to the other | |
| `ModeSwitcher` | `mode_switcher.py`, with controllers, drives, arm and time | `ModeSwitcher_proofs` |
| `ImpedanceController` | engaging the controller: two threads over its flags | `ImpedanceController_proofs` |
| `TrajectoryAction` | the Python client's handles and the trajectory action, with messages between | `Motion_proofs` |
| `ExamplePrograms` | the four programs, their gripper, and a user of the client | `Motion_proofs` |
| `Collector` | `collect_node.py`, and how `identify.py` pairs its rows | `Motion_proofs` |
| `Workspace` | the bounding box, around the arm of `TrajectoryAction` | `Motion_proofs` |
| `Motion` | all four together | `Motion_proofs` |
| `LiveController` | what the panels act on, in one step each | `Desk_proofs` |
| `Panel`, `Dashboard` | `armv7_widget.py`, `tuning_dashboard.py` | `Desk_proofs` |
| `Desk` | an operator at one of them, an arm that moves and another client | `Desk_proofs` |
| `Bringup` | the four launch files, spawners and controller manager | `Bringup_proofs` |
| `MCEstop`, `MCEthercat`, `MCMode`, `MCImpedance`, `MCMotion`, `MCDesk`, `MCBringup` | instances for TLC | |

How they lean on each other: `Workspace` uses the E-stop as `EstopCycle` promises it,
in one step for each service, and `Estop` is shown to implement that cycle; so is
`ModeSwitcher` to implement `ModeHandover`;
`LiveController` and `Bringup` use a change of mode in the order of `ModeSwitcher`,
which has the steps in between and the ways they fail.

Operators named `X_Something` below a comment "Mutant" are broken variants of `X`:
each property of a passing run is violated when the variant named in PROJECT.json
takes the place of `X`. No specification uses them.

### Estop

`pc[c]` is where the handler of caller `c` is; the labels follow the code:
`Dispatch` (a worker picks the request up), `AlreadyThere` and `Acquire` (lines
133-138), `CallSwitch`/`SwitchUnavailable`, `TakeSwitchReply`/`GiveUpSwitch`
(110-121), `CallList`, `TakeListReply`/`GiveUpList` (98-108, 123), `Succeed`/`Fail`
(124-147, 155-164). `lock`, `stopped` and `estop` are `_lock`, `_stopped` and the
latched topic. A handler keeps its worker while it waits, for the lock or for an
answer, and an answer needs a free worker (`WorkerFree`). The manager is external:
it executes requests in order, a STRICT switch to the state it is in is an error,
and it may lose, refuse or answer late as the constants allow.
`Succeed` sets flag, topic and answer and releases the lock in one step: nobody
else reads the flag outside the lock.

### CiA402Drive and EthercatCycle

One pass of `processData` over the channels is one step, `Pass`, because nothing
runs between them; the channel order is that of `EUPH11_unified_config.yaml`
(outputs first, so they come from the inputs of the pass before). Words are sets
of bits; bits above 7 of the control word are never set by the plugin. `cw`,
`target`, `input` are the process image; `cmd`, `modeCmd`, `resetCmd` the command
interfaces. A cycle is `Read`, `Control`, `Write`, `Exchange`/`NoExchange`; while
`on_activate` holds the mutex, `ActivateUpdate` takes its place. The drive
(`Obeyed`, `Sample`) is external: the CiA 402 state machine, with the EYOU servos'
habit of reporting a mode only once enabled, which the comment at
generic_ec_cia402_drive.cpp:69-75 and docs/troubleshooting.md describe.

A run of the model is one launch. `Init` lets it find the drive in any CiA 402 state
and any mode, with a fault and its cause, and with bit 7 last seen up or down: after
power-on it is in NOT_READY_TO_SWITCH_ON, but `on_deactivate` only stops the master
(ethercat_driver.cpp:358-373), so a relaunch without a power cycle may find it still in
OPERATION_ENABLED (docs/troubleshooting.md, "Residual caveat"). The process image starts
blank either way. What the document warns of is a behaviour of the model: the first
frame that such a drive answers carries target 0. It carries an empty control word as
well, which is what the plugin writes before it has decoded a status, so the same
frame disables the drive; `NoZeroTarget` allows this frame and no other. Controllers may be
activated at any time, as no launch file makes them wait for the drives: the history
variable `zeroTaken` tells whether one took the zero of the blank image for the
position, `answered` whether the drive has answered a frame of this launch.

Assumed: one joint, `auto_state_transitions` on as in every configuration of the
repository, no deactivation within a run; inputs are valid, and outputs obeyed, only in
OP (the model has no SAFEOP); a drive reaches its target within a cycle, and one that a
frame disables does not start on that frame's target; the mode command changes only
once the drive reports the last one.

### ModeSwitcher

The labels of `pc` are the steps of the two handlers between remote calls and
sleeps. `Outcomes` is what a call may do: carried out and answered, refused, or
carried out with the answer lost; which calls may fail is the constant `Faults`.
`Tick` is the unit of the sleeps, of the ramp and of a drive's latency; it waits
for what is due (an unfollowed mode older than `ModeLatency`, a controller that
has not run yet), so a sleep can be longer than asked for and never shorter.

Assumed: the drives follow a mode within less than `mode_switch_delay` and the
ramp is not longer than `force_engage_delay` (`ModeAssumption`, which is what the
sleeps are for, lines 63 and 73-76); a hand guides the arm only between changes; the
panel's own enable button is not used; `seeded` is about the command interface of
the position (the plugin's override in `EthercatCycle` protects a second time).

### ImpedanceController

`rt` is where an update is, `svc` where the enable callback is. The update reads
the flags one after the other (`BeginUpdate` 594, `RestartRamp` 605, `TakeAim`
612-616, `Output` 674-704, `Tare` 730-734), the callback stores them one after the
other (`Enable` 192, `StoreReseed` 197, `StoreRestart` 199, `StoreTareAfter` 207);
anything may happen between two of them. Of the target only its age counts
("stale": set before the last engagement), of the torque the part of the ramp that scales it.
`since`, `tared`, `cut` and `overlap` are history variables. The callbacks share a
group, so they run one at a time. `Activate` models the activation that succeeds.

### TrajectoryAction

For each caller `goal`, `target` and `outcome` are the server's, `handle`, `success`
and `asked` the client's, and `mail` the messages between them. `Send` is
`_send_trajectory` (client.py:259-274); `OnGoalResponse` and `OnResult` are the
callbacks of `TrajectoryHandle` (298-312), on another thread than the program's.
The controller is external: a new goal preempts, a rejected goal has no result, and
a goal canceled on request carries the default error code, which is SUCCESSFUL
(`CarryOutCancel`). One preempted or given up at deactivation reports an error. The controller manager
may die, after which nothing is answered. Transfers by topic are left out (section 3).

### ExamplePrograms

A program is a script: a sequence of moves, of which the last may be `Lastly` (its
result is not looked at), grips, and the prompts of teach_playback.py, at which it waits
for Enter and may find the joint state lost (`Capture`, 49-56; several poses are one step). `step`, `exit` and the action's `handle` of its
caller are where it is. `WaitElapses` is the limit of `wait`, which the program does not
tell from a failure. Poses are named by their role; a sweep counts as its last pose.
`User` sends and cancels as he likes, with `client.py`'s functions, to preempt the program.

### Collector

`leg` is where the node is with the target `current`: via the pose aside, to the
target, sample, from above and from below (collect_node.py:172-185, 197-224). A
sample is the average of a window of about two seconds: where the arm is if the
collector moved it last, anything (`Averages`) if another caller moves it; whether the
arm had been brought there is `honest`, history. `Paired` is `detect_bidirectional_pairs` of identify.py: two positions
within 1e-3 are the same pose here.

### Workspace

`Check` is the timer's `_tick`: classify, compare with `lastState`, call the E-stop
if the service is there, do not wait. `HearTransform` is the TF buffer. Three axes
alike are one; `Position` puts the poses on it.

### LiveController, Panel, Dashboard, Desk

A place is one coordinate, the stiffness zero or not. `stiffnesses`, `enables` and
`targets` are the channels, each in order, none ordered with another; a change of
mode (`change`) proceeds beside them. Each handler of the panel is one action, as
nothing runs between the lines of a GUI handler: `Press`, `Tick`, `Release` are the jog
(488-584), `ResetFaults` and `EndPulse` the pulses (730-743), `OnSpring` the check box
(612-621). `tabs` limits a session to the tabs an operator uses, as the product of
all would be large without showing more: handlers of different tabs share no
variable but the mode. In `Dashboard`, `served` is whether the side thread still
spins the node. History: `told`, `inStep` (the displays were right, and nothing was
lost since), `rest` (nothing moved since the spring was switched on), `flipped`
(the mode changed since the last twist).

### Bringup

`Timers`, `OnExit` and `Inactive` are what the `_setup` functions return for the
arguments in `launch`; `Fire` and `ProcessExit` carry it out. A spawner loads,
configures and activates with three calls, each of which may fail, or gives up.
`ToPosition` and `ToForce` are clients of the mode switcher, which takes calls as soon
as it is up, at 9 s, when the spawners may still be at work.

## 3. The runs

| Run | Question | Size |
|---|---|---|
| `estop_reliable` | three callers, four workers, reliable calls: agreement, true answers, refinement of `EstopCycle` | 5.9k states |
| `estop_faulty` | two callers, two workers (all of them can block), lost and refused calls, late spawner: which promises survive | 78k |
| `ethercat_safe` | two poses, a drive found in any state, controllers activated at any time, lost frames, faults that outlast their report, restarts: no zero target but one a controller took, no drop-out, enabled in place | 1.7M |
| `ethercat_recovers` | automatic and manual reset: the drive is enabled again after every upset, whatever state the launch finds it in | 597k |
| `mode` | one caller, switches and stiffness calls that are refused, lost or answered in vain: the arm is held and not jerked, every step is one of `ModeHandover`, an accepted change completes, and mode and stiffness are right until the call responsible fails | 1.3k |
| `impedance` | engagements in any order, interleaved flag by flag | 35k |
| `motion` | a program beside a user who preempts and cancels, or under the box; or the collector; rejected, aborted and unanswered goals, a controller manager that dies | 671k |
| `desk` | a session at the panel or at the dashboard, with another client and an arm that moves | 2.2M |
| `bringup` | launch files and arguments that differ in what they start, spawners that fail at any call, a manager that dies, clients of the mode switcher | 92k |
| `estop_blind`, `ethercat_snap`, `mode_interleaved` | disagreements, below | |

Bounds. Three callers are one inside the lock, one waiting and one that comes
again; a fourth repeats the second. With two workers two callers already take all
of them. Two poses tell "where it is" from "where it was"; one would not. Two upsets
are a fault during the recovery from another. `CheckPeriod` is 2 for the code's 10: the
slave state is stale for one cycle instead of nine. In ModeSwitcher the ramp is 5
ticks, the engage delay 6, the switch delay 3 and the latency 2: the order of the
code's 2.0 s, 2.5 s and 0.3 s, each tight enough that a step more or less breaks
a property. A ramp of 2 has none, partial and full torque.
In Motion one program is enough because `User` preempts it at
every point; one pose of each role, and "b" outside the box. One goal of the user, one clear of
the operator: a second repeats the first. In Desk a queue of one message already lets the
channels overtake each other; two places tell where the arm is from where it was,
and two pulses overlap. In Bringup the clock counts the seconds of the delays and the launches
are those of `Launches`, each of which differs in a chain or a timer. The theorems
about all three hold without these bounds.

Fairness. `Estop`: a handler that holds the lock goes on and the manager serves its
queue (weak); nobody is obliged to call, and a waiting handler is not promised the
lock. `EthercatCycle`: ros2_control's loop is periodic (weak on the cycle), the
master brings slaves to OP by itself, a fault's cause is removed, and for manual
reset an operator keeps pressing and releasing (strong, since the press competes
with the controllers for the same phase). `ModeSwitcher`: time passes, and a due
step happens (weak). `ImpedanceController` states no liveness: the loop may return
early from every update. `Motion`: a running program goes on and its time limits
elapse (weak, for each), but nobody need press Enter at a prompt (`OwnStep` leaves
`Capture` out); the bounding box's timer, the transforms and the E-stop's
service go on (weak). Nothing is assumed of the controller, the arm or the
collector, which waits without limit: `ProgramsReturn` holds although nothing may ever be
answered, of every program that does not wait at a prompt for ever.
`Desk` states no liveness: an operator does nothing he does not want. `Bringup`: time
passes, timers fire, spawners end and exits are handled (weak); the manager need not come up.

A launch that has started everything and a cell whose programs have all returned
stop, so `motion` and `bringup` do not check deadlock.

### Disagreements with the docs that runs show

* `estop_blind`: switch and list both unanswered; the handler answers success while
  the controller is active ("unknown" is read as "inactive", line 104).
* `ethercat_snap`: `on_activate` returns after one update because the condition it
  polls is the base class's constant TRUE (`ec_slave.hpp:42`, hidden and not
  overridden by the plugin, whose method is const). A trajectory controller
  activated before the first feedback takes 0 for the present position, and the joint
  goes there once the drive is enabled (`NoSnap`). `OnlyZeroSnaps` proves that nothing
  else makes it go there.
* `mode_interleaved`: to_position and to_force of two callers interleave; the
  drives end in torque mode with the impedance controller off.

### Others met while modelling, without a run

* A clear that is slow is answered with failure and re-activates the controller later,
  while the topic still says stopped (`RpcMayBeLate`; estop_node.py:121).
* A fault that outlasts the first reset edge is never reset by the automatic reset: bit 7
  of the control word is lowered only after the drive has left FAULT
  (generic_ec_cia402_drive.cpp:253), so there is no second edge. `Recovers` assumes
  that a cause is gone by then, or an operator who presses and releases.
* Start-up: a trigger before `plan_group_controller` is spawned is latched, and the
  spawner then activates the controller (`TrueMeansStopped` with `SpawnerRaces`).
* With fewer workers than handlers that wait, no answer can be taken before its
  time limit; handlers return (`HolderReturns`), later and with worse information.
* The docstring (estop_node.py:10-12) publishes first and switches then; the code
  does the reverse. `ImplementsCycle` has the code's order.
* A rise of `reset_fault` outside FAULT is remembered until the next fault
  (generic_ec_cia402_drive.cpp:44). All configurations reset automatically anyway.
* mode_switcher.py ignores the answers of the second switch (219), of the stiffness
  (243) and of a refused enable (247): with the first both controllers stay active,
  with the second force mode starts with the spring of the last use, with the third
  the drives get torque mode and no torque. `start_mode: force` publishes force
  mode while the drives are still in CSP. When the switch that activates the trajectory
  controller (211) is carried out but its answer lost, both controllers are active, and
  both services are refused from then on, each by a STRICT switch of an active controller.
* The impedance controller's enable callback sets `enabled_` before the flags that
  make it gentle: updates in between apply the full ramp towards the old target.
  `EngagesGently` excludes exactly the updates the callback overlaps. The same
  window lets the automatic tare use the previous ramp.
* An enable before the activation loses its tare (on_activate clears the flag, line
  515), although the README of the package promises one on every enable;
  `TaredAfterRamp` excludes these by `cut`. A tare that was requested is done
  after the ramp even if the controller was disabled in the meantime.
* workspace_bbox_node.py reads its bounds once, so `ros2 param set max_z`
  (armv7_safety/README.md:62) has no effect.
* The bounding box asks once for each exit it sees. With the E-stop's service away
  at that moment (0.1 s), or after `estop_clear` with the tool still outside, nothing
  stops the arm. A transform is used whatever its age.
* gravity_compensation_controller.cpp:131: `~/enable` does not restart the ramp, which starts with
  the activation; enabled later than 2 s after it, the full torque comes in one step.
* `TrajectoryHandle` reports a goal its caller canceled as a success, because the
  result keeps the default code (client.py:305-312); hence the second half of `VerdictsTrue`. `cancel`
  before the goal is accepted does nothing and the goal runs (320-322). `wait` that elapses leaves the
  arm moving. The C++ `cancel` sends nothing (client.cpp:40-49).
* The panel's joint jog and Servo publish on the controller's topic, which replaces the
  trajectory of a goal without preempting the goal: its caller is then told of success
  or a tolerance of another movement.
* collect_node.py: `_send_pose` waits without a limit, counts an aborted or stopped move
  as reached (143), and goes on with the next pose after an E-stop is cleared.
* identify.py takes a file for pairs only if all of them are equal within 1e-3: one
  odd row makes it treat a bidirectional file as single samples. Conversely, single
  samples of a `poses` list that names each pose twice in a row look like pairs, which
  is why `FileTellsPairs` is about targets that differ.
* The panel starts with the spring box off, the controller with a stiffness
  (impedance.yaml:19). With `start_mode: force`, `to_force` is refused, because the
  controller is active already, and the panel shows "enabled" and "spring off" for a
  controller that is disabled and stiff (armv7_widget.py:587-600). Pressed again in
  force mode with the spring on, the box goes off and the stiffness stays. `to_position`
  leaves the stiffness as it was. `told` starts with an accepted change for these reasons.
* The panel's subscription to the latched mode is volatile: a panel opened later than
  the announcement shows "unknown" until the next change, and refuses to jog.
* A mode that changes while a jog button is held leaves the last twist at Servo, since
  the release looks at the new mode (502-506); so does closing the panel, which stops Servo instead.
* A second fault reset within 250 ms gives no edge for a joint whose command is still
  up, and its pulse is ended by the first one's timer (730-743).
* A target jogged in force mode jumps back to the seed with the next touch of an
  offset box, as the jog keeps a target of its own.
* Panel toggles flip whatever the answer; a request to a service that is not there is dropped.
* tuning_dashboard.py: the first call from the GUI thread takes the node out of the side
  thread's executor (133), so readouts and transforms stand still between calls, and
  "re-seed" uses an old pose (430-443), against its own docstring (13, 80).
* Bring-up: unified.launch.py starts no E-stop. If the spawner of `mode_controller` fails,
  the drive commands of the mode switcher reach nobody. If that of the impedance
  controller fails in a force start, "force" is announced with nothing active, and
  `to_force` stays refused until a `to_position`. An E-stop pressed before
  `plan_group_controller` is spawned is undone by its spawner.

## 4. The proofs

All theorems hold for every value of the constants that satisfies the module's
assumptions, and under the further hypotheses named here; nothing is assumed besides.

* `Estop_proofs`. `TypeCorrect`. `SafeInvariant`: one handler inside the lock, at
  most one switch in flight and it is the holder's, and whatever told the holder
  "active" stays true while it holds the lock. Without the last part
  `NeverSilentlyStopped` is not inductive: the verdict is drawn two calls after the
  evidence. From it `NoSilentStop` and `ClearIsTrue`, with lost and refused calls.
  `SettledAgreement`, `TriggerIsTrue` and `CycleRefinement` need reliable calls and
  more workers than callers; their invariant, `ReliableInv`, says that flag and controller disagree
  exactly between the execution of the holder's switch and its verdict. The
  refinement is by steps: every step of `Estop` is one of `EstopCycle` or a stutter.
* `EthercatCycle_proofs`. `SeededInvariant`: before the plugin has read a real
  position the control word is empty, so a drive that was left powered is disabled by the first
  frame it answers and no other leaves SWITCH_ON_DISABLED; after that every pass writes a
  real target; unless a controller took the zero for the position. `NeverHandsZero`
  (`NoZeroTarget`) and `OnlyZeroSnaps` (`zeroTaken` or `NoSnap`) follow. No theorem of
  this module has a hypothesis: cold or warm launch, any controllers. `TypeCorrect`. `NeverDropsOut`: a control word is
  computed from the status of the frame before, so it is right only if the drive is where
  it was. `LadderInv` says what a word in the process image may ask of a drive that has since gone
  on, failed or restarted; `AtBusInv` says the same of a word on its way and `SyncInv` where in
  the cycle a status is that of the last frame. `EnablesInPlace` adds `ModeInv`: the plugin writes a position
  other than the one it read only to a drive that has reported CSP while enabled.
* `ModeSwitcher_proofs`. `TypeCorrect`. `HoldInvariant`: each phase of a change is tied
  to the ramp, the command in flight and the drives: torque mode is written when
  ramp plus remaining sleep reach the ramp time, and position mode has been
  followed when age plus remaining sleep exceed the latency. `ArmNeverDrops` and
  `NeverJerked` follow, for one caller and an enable call that works.
  `HandoverRefinement`: with `PhaseInv`, that a controller is always active and the
  trajectory controller is since its activation, every step is a step of
  `ModeHandover` or a stutter; `HandoverHolds` says what that guarantees.
* `ImpedanceController_proofs`. `TypeCorrect`. `EngageInvariant`: what an engagement
  lacks is stored, or the callback has still to store it; an update no callback
  overlaps has consumed it. `GentleEngagement`, `PatientTare` and `TareComes` follow,
  for any order of calls and activations.

* `Motion_proofs`. Every step of anyone is one of the trajectory action's operations
  (`EveryStep`), so what the action promises is proved about eight operations and holds
  for all who use it. `VerdictsAreTrue`: the result's code says success only of a goal that
  was reached or whose cancel was asked for (`VerdictInv`). The programs: nobody else
  sends a program's goal or drops it (`OnlyItself`); `ProgramInv` says that one about to
  send has had its last goal succeed, which needs that it never asks to cancel and
  that only a last step is unchecked (`Scripts`), and that one at a grip had it
  succeed where the step before sends it. With `OneMover`, that whoever succeeded last is where
  it was sent, `CutEndsProgram` and `GripsInPlace` follow, and `OneMovesAtATime`. The
  collector: nobody else touches its goal (`NodeSpared`), so the goal behind a sample is the
  target it is at (`AimInv`), and an honest sample is of that target (`SamplesInv`). The
  file is then pairs of two sides of one target (`PairsInv`: `PairsStayPairs`, for any
  targets) or single samples of targets passed so far (`SinglesInv`), which differ if the
  targets do: `FileTellsPairs`, under `DistinctTargets`. The random poses differ; a list
  in the parameter `poses` need not.
* `Desk_proofs`. `ShownIsTrue`: what a value will be when its channel is empty is the last
  message in it, or what it is (`Coming`); `PanelShows` says that the displays agree
  with that while `told` holds, and a change under way is the operator's. `SpringStartsAtRest`:
  from the switch on, the last target that is coming is where the arm is, until
  something moves (`RestInv`). `HandsOffStops`: `LetGo` adds the finger that is on in
  force mode, where no twist is sent.
* `Bringup_proofs`. `SpawnedInOrder`: the second controller of the unified launch is
  not spawned before the first has ended, and until then nobody can change the mode
  away from what was announced, as no other controller is loaded. `StartModeIsTrue`
  needs that, and that an active controller came from its own spawner or from a
  client, both of whom leave the other inactive.

Only model-checked: `Recovers`, `HolderReturns`, `ChangesComplete`, `ProgramsReturn`,
`ExitsStop` and `ChainCompletes`, as liveness under fairness is out of the prover's
reach (so are ENABLED and induction over data). Every other property of a passing run is
stated by a theorem.

## 5. Plan

1. Done: `Estop` with `EstopCycle`, `CiA402Drive` with `EthercatCycle`,
   `ModeSwitcher`, `ImpedanceController`, and their theorems.
2. Done: `Motion` and its four parts, `Desk` and its three, `Bringup`, and their theorems.
3. Done: type correctness and the action properties of `EthercatCycle`, `PairingTrue`, and
   `ModeHandover` as the specification that `ModeSwitcher` implements.
4. Left to model: the lifecycle of the driver with several modules (skipped modules,
   addSlave again, failed SDOs); the mode switcher and the E-stop over one controller
   manager, where no property of the code is to be expected before one looks at the other.

## 6. Not modelled, and why

* Robot description, MoveIt and RViz configuration, hand-eye scripts, containers and
  the URDF converter have no state of their own.
* Identification numerics, friction, gravity and wrench formulas are floating-point
  computations that neither tool treats; for the zero-force controller that leaves
  one flag and one clock, told in section 3.
* Diagnostics and the TCP publisher are one thread and one stored message each.
* wait_for_ethercat_op.py and reset_ethercat_op.py are polling loops around a command
  line tool, run by hand. An empty listing counts as OP in the first; the second does
  not look again after its last try.
* The generic EtherCAT slave and the SDO service are vendored and not used by the arm.
* The C++ client has the protocol of the Python client, up to the differences above.
* Of the driver, `on_init` and deactivation; of the panels, the parameters and
  readouts that no other handler reads.

PROJECT.json lists each component with its status.
