-------------------------- MODULE ExamplePrograms ---------------------------
(***************************************************************************)
(* The programs of armv7_examples, each a sequence of steps that moves the *)
(* arm or the gripper, over TrajectoryAction; and a program of a user, who *)
(* moves and cancels as he likes.                                          *)
(*                                                                         *)
(* A pose is "a", "b" or "home", its approach "overA" or "overB"; a sweep  *)
(* through several poses is known by its last.                             *)
(***************************************************************************)
EXTENDS TrajectoryAction, Sequences, Integers

CONSTANTS Examples,  \* the callers that run one of the programs below
          User,      \* the caller that does as he likes
          Jobs,      \* the programs they may run
          UserGoals, \* bound on the goals of User
          UserPoses  \* where he sends the arm

ASSUME ExamplesAssumption ==
  /\ Examples \subseteq Callers /\ User \in Callers \ Examples
  /\ {"home", "a", "b", "overA", "overB"} \subseteq Poses
  /\ Jobs \subseteq {"pick_and_place", "teach_playback", "pose_grid", "hello_world"}
  /\ UserGoals \in Nat /\ UserPoses \subseteq Poses

VARIABLES job,     \* the program each caller runs
          step,    \* the step it is at; 0 while it waits for /joint_states
          exit,    \* its exit code, -1 before
          gripper, \* "open" or "closed"
          gripped, \* the gripper's controller is loaded
          left     \* goals User will still send

examples == <<job, step, exit, gripper, gripped, left>>

-----------------------------------------------------------------------------
Move(pose)    == [do |-> "move", to |-> pose, checked |-> TRUE]
Lastly(pose)  == [do |-> "move", to |-> pose, checked |-> FALSE]
Grip(setting) == [do |-> "grip", to |-> setting, checked |-> TRUE]
Prompt        == [do |-> "prompt", to |-> "None", checked |-> TRUE]

PickAndPlace ==
  <<Move("home"), Grip("open"), Move("overA"), Move("a"), Grip("closed"),
    Move("overA"), Move("overB"), Move("b"), Grip("open"), Move("overB"), Move("home")>>

\* The prompts for the poses to record are one step.
TeachPlayback == <<Prompt, Move("b"), Move("b")>>

\* The result of the way home is not looked at.
PoseGrid   == <<Move("b"), Lastly("home")>>
HelloWorld == <<Move("home"), Move("a"), Lastly("home")>>

Script(j) ==
  CASE j = "pick_and_place" -> PickAndPlace
    [] j = "teach_playback" -> TeachPlayback
    [] j = "pose_grid"      -> PoseGrid
    [] j = "hello_world"    -> HelloWorld

ExamplesInit ==
  /\ job \in [Examples -> Jobs]
  /\ step = [p \in Examples |-> 0]
  /\ exit \in [Examples -> {-1, 0}]  \* 0: not started
  /\ gripper \in {"open", "closed"}
  /\ gripped \in BOOLEAN
  /\ left \in 0..UserGoals

-----------------------------------------------------------------------------
Running(p)   == exit[p] = -1
AtStep(p, do) == /\ Running(p) /\ step[p] \in 1..Len(Script(job[p]))
                 /\ Script(job[p])[step[p]].do = do
Current(p)   == Script(job[p])[step[p]]

Return(p, code) ==
  /\ exit' = [exit EXCEPT ![p] = code]
  /\ UNCHANGED <<job, step, gripper, gripped, left>>

Advance(p) ==
  /\ step' = [step EXCEPT ![p] = @ + 1]
  /\ UNCHANGED <<job, exit, gripper, gripped, left>>

\* wait_for_joint_state: a message within 5 s, or exit code 1.  The manager may
\* live and the broadcaster of the joint states not be there.
SeeJointState(p) ==
  /\ Running(p) /\ step[p] = 0 /\ alive
  /\ Advance(p)
  /\ UNCHANGED action

NoJointState(p) ==
  /\ Running(p) /\ step[p] = 0
  /\ Return(p, 1)
  /\ UNCHANGED action

\* Enter is pressed; the last joint state may not name all joints.
Capture(p) ==
  /\ AtStep(p, "prompt")
  /\ Advance(p) \/ Return(p, 1)
  /\ UNCHANGED action

\* The goal is sent, or no action server is found and RuntimeError ends Python.
SendMove(p) ==
  /\ AtStep(p, "move") /\ handle[p] = "none"
  /\ IF alive THEN Send(p, Current(p).to) /\ UNCHANGED examples
              ELSE Return(p, 1) /\ UNCHANGED action

\* Mutant: the step is done when the wait is over, whatever it returned.
WaitOver_Unchecked(p) ==
  /\ AtStep(p, "move") /\ handle[p] = "done"
  /\ Advance(p) /\ Forget(p)

\* Mutant: a step that failed is tried again.
WaitOver_Retries(p) ==
  /\ AtStep(p, "move") /\ handle[p] = "done"
  /\ IF WaitReturns(p) THEN Advance(p) ELSE UNCHANGED examples
  /\ Forget(p)

\* The wait is over: on to the next step, or out with exit code 2.
WaitOver(p) ==
  /\ AtStep(p, "move") /\ handle[p] = "done"
  /\ IF WaitReturns(p) \/ ~Current(p).checked
       THEN Advance(p) /\ Forget(p)
       ELSE Return(p, 2) /\ UNCHANGED action

\* Mutant: the program waits for ever.
WaitElapses_Never(p) ==
  /\ AtStep(p, "move") /\ handle[p] = "sent" /\ active
  /\ Return(p, 2)
  /\ UNCHANGED action

\* The wait is given up; the goal is not canceled.
WaitElapses(p) ==
  /\ AtStep(p, "move") /\ handle[p] \in {"sent", "accepted"}
  /\ IF Current(p).checked
       THEN Return(p, 2) /\ UNCHANGED action
       ELSE Advance(p) /\ Forget(p)

\* GripperClient.open, close: without a gripper the step is skipped.
MoveGripper(p) ==
  /\ AtStep(p, "grip")
  /\ gripper' = IF gripped THEN Current(p).to ELSE gripper
  /\ step' = [step EXCEPT ![p] = @ + 1]
  /\ UNCHANGED <<job, exit, gripped, left, action>>

Done(p) ==
  /\ Running(p) /\ step[p] > Len(Script(job[p]))
  /\ Return(p, 0)
  /\ UNCHANGED action

-----------------------------------------------------------------------------
\* move_to_joint, jog and cancel from a program that keeps the handle.
UserMoves(pose) ==
  /\ left > 0 /\ alive
  /\ handle[User] \in {"none", "done"}
  /\ left' = left - 1
  /\ Send(User, pose)
  /\ UNCHANGED <<job, step, exit, gripper, gripped>>

UserCancels == Cancel(User) /\ UNCHANGED examples

\* What a program does of itself, and what it does when the operator lets it.
OwnStep(p) ==
  \/ SeeJointState(p) \/ NoJointState(p) \/ SendMove(p) \/ WaitOver(p)
  \/ WaitElapses(p) \/ MoveGripper(p) \/ Done(p)

ProgramStep(p) == OwnStep(p) \/ Capture(p)

ExamplesTypeOK ==
  /\ job \in [Examples -> Jobs]
  /\ step \in [Examples -> 0..12]
  /\ exit \in [Examples -> -1..2]
  /\ gripper \in {"open", "closed"} /\ gripped \in BOOLEAN
  /\ left \in 0..UserGoals

(***************************************************************************)
(* The gripper moves only where its program wants it: the arm is at the    *)
(* pose of the step before, unless another program moved it away since.    *)
(***************************************************************************)
GripperInPlace ==
  [][\A p \in Examples : AtStep(p, "grip") /\ gripper' # gripper /\ step'[p] # step[p] =>
       mover # p \/ arm = Script(job[p])[step[p] - 1].to]_<<action, examples>>

(***************************************************************************)
(* A program whose trajectory was cut short, by the E-stop, by another     *)
(* program or by a violated tolerance, does not send another one: after    *)
(* the E-stop is cleared the arm stays where it was stopped.               *)
(***************************************************************************)
CutMeansEnd ==
  [][\A p \in Examples : goal[p] \in Failed => goal'[p] # "sent"]_<<action, examples>>

(***************************************************************************)
(* Every program returns, whatever the controller does or fails to answer, *)
(* unless it waits for an operator who never presses Enter.                *)
(***************************************************************************)
ProgramsReturn == \A p \in Examples : <>(exit[p] # -1 \/ []AtStep(p, "prompt"))

=============================================================================
