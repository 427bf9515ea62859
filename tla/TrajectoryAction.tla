-------------------------- MODULE TrajectoryAction --------------------------
(***************************************************************************)
(* The way a program moves the arm: armv7_py's client and its              *)
(* TrajectoryHandle on one side, the follow_joint_trajectory action of     *)
(* plan_group_controller on the other (external, as client.py,             *)
(* collect_node.py and estop_node.py use it), and messages in between.     *)
(*                                                                         *)
(* Each caller has one goal at a time.  The controller executes one goal:  *)
(* a new one preempts the other's, an inactive controller rejects goals    *)
(* and gives up the one it had.                                            *)
(***************************************************************************)
CONSTANTS Callers, Poses

VARIABLES goal,     \* life of each caller's goal at the controller
          target,   \* the pose it asks for
          outcome,  \* what its result says: error_code is SUCCESSFUL or not
          mail,     \* what the controller sent and the client has not handled
          handle,   \* the TrajectoryHandle: its goal handle and done event
          success,  \* its success
          asked,    \* cancel was sent for the goal
          active,   \* the controller is active
          alive,    \* the controller manager runs
          arm,      \* where the arm is: a pose, or between poses
          mover     \* whose goal was accepted last (history)

server == <<goal, outcome, mail, arm, mover>>
client == <<handle, success>>
action == <<server, client, target, asked, active, alive>>

Failed == {"rejected", "canceled", "aborted"}
Nobody == "nobody"

ActionInit ==
  /\ goal = [c \in Callers |-> "none"]
  /\ arm \in Poses
  /\ target = [c \in Callers |-> arm]
  /\ outcome = [c \in Callers |-> "error"]
  /\ mail = [c \in Callers |-> {}]
  /\ handle = [c \in Callers |-> "none"]
  /\ success = [c \in Callers |-> "None"]
  /\ asked = [c \in Callers |-> FALSE]
  /\ active = TRUE /\ alive = TRUE
  /\ mover = Nobody

-----------------------------------------------------------------------------
(***************************************************************************)
(* The controller.  Ended(s, o, C): the goals of C end as s with outcome o.*)
(***************************************************************************)
Executing == {c \in Callers : goal[c] = "executing"}

Ended(s, o, C) ==
  /\ goal' = [c \in Callers |-> IF c \in C THEN s ELSE goal[c]]
  /\ outcome' = [c \in Callers |-> IF c \in C THEN o ELSE outcome[c]]
  /\ mail' = [c \in Callers |-> IF c \in C THEN mail[c] \cup {"result"} ELSE mail[c]]

Accept(c) ==
  /\ alive /\ active /\ goal[c] = "sent"
  /\ goal' = [d \in Callers |-> IF d = c THEN "executing"
                                ELSE IF d \in Executing THEN "canceled" ELSE goal[d]]
  /\ mail' = [d \in Callers |-> IF d = c THEN mail[d] \cup {"response"}
                                ELSE IF d \in Executing THEN mail[d] \cup {"result"} ELSE mail[d]]
  /\ outcome' = [d \in Callers |-> IF d \in Executing THEN "error" ELSE outcome[d]]
  /\ arm' = "between" /\ mover' = c
  /\ UNCHANGED <<client, target, asked, active, alive>>

Reject(c) ==
  /\ alive /\ ~active /\ goal[c] = "sent"
  /\ goal' = [goal EXCEPT ![c] = "rejected"]
  /\ mail' = [mail EXCEPT ![c] = @ \cup {"response"}]
  /\ UNCHANGED <<outcome, arm, mover, client, target, asked, active, alive>>

Reach(c) ==
  /\ alive /\ goal[c] = "executing"
  /\ Ended("succeeded", "SUCCESSFUL", {c})
  /\ arm' = target[c]
  /\ UNCHANGED <<mover, client, target, asked, active, alive>>

\* A tolerance is violated.
Abort(c) ==
  /\ alive /\ goal[c] = "executing"
  /\ Ended("aborted", "error", {c})
  /\ UNCHANGED <<arm, mover, client, target, asked, active, alive>>

\* The result of a goal canceled on request keeps the default code, SUCCESSFUL.
CarryOutCancel(c) ==
  /\ alive /\ goal[c] = "executing" /\ asked[c]
  /\ Ended("canceled", "SUCCESSFUL", {c})
  /\ UNCHANGED <<arm, mover, client, target, asked, active, alive>>

\* The controller manager dies: nothing is answered any more.
Crash ==
  /\ alive
  /\ alive' = FALSE
  /\ UNCHANGED <<server, client, target, asked, active>>

\* switch_controller on behalf of the E-stop; deactivation gives up the goal.
SwitchTo(on) ==
  /\ active' = on
  /\ IF on THEN UNCHANGED <<goal, outcome, mail>> ELSE Ended("canceled", "error", Executing)
  /\ UNCHANGED <<arm, mover, client, target, asked, alive>>

-----------------------------------------------------------------------------
(***************************************************************************)
(* The client.                                                             *)
(***************************************************************************)
\* _send_trajectory, once the action server was found.
Send(c, pose) ==
  /\ goal' = [goal EXCEPT ![c] = "sent"]
  /\ target' = [target EXCEPT ![c] = pose]
  /\ outcome' = [outcome EXCEPT ![c] = "error"]
  /\ mail' = [mail EXCEPT ![c] = {}]
  /\ handle' = [handle EXCEPT ![c] = "sent"]
  /\ success' = [success EXCEPT ![c] = "None"]
  /\ asked' = [asked EXCEPT ![c] = FALSE]
  /\ UNCHANGED <<arm, mover, active, alive>>

OnGoalResponse(c) ==
  /\ handle[c] = "sent" /\ "response" \in mail[c]
  /\ mail' = [mail EXCEPT ![c] = @ \ {"response"}]
  /\ IF goal[c] = "rejected"
       THEN /\ handle' = [handle EXCEPT ![c] = "done"]
            /\ success' = [success EXCEPT ![c] = "False"]
       ELSE /\ handle' = [handle EXCEPT ![c] = "accepted"]
            /\ UNCHANGED success
  /\ UNCHANGED <<goal, outcome, arm, mover, target, asked, active, alive>>

\* Mutant: any result counts, as in collect_node's _send_pose.
OnResult_NotNone(c) ==
  /\ handle[c] = "accepted" /\ "result" \in mail[c]
  /\ mail' = [mail EXCEPT ![c] = @ \ {"result"}]
  /\ handle' = [handle EXCEPT ![c] = "done"]
  /\ success' = [success EXCEPT ![c] = "True"]
  /\ UNCHANGED <<goal, outcome, arm, mover, target, asked, active, alive>>

OnResult(c) ==
  /\ handle[c] = "accepted" /\ "result" \in mail[c]
  /\ mail' = [mail EXCEPT ![c] = @ \ {"result"}]
  /\ handle' = [handle EXCEPT ![c] = "done"]
  /\ success' = [success EXCEPT ![c] = IF outcome[c] = "SUCCESSFUL" THEN "True" ELSE "False"]
  /\ UNCHANGED <<goal, outcome, arm, mover, target, asked, active, alive>>

\* cancel.  Before the goal is accepted, or after its result, it does nothing.
Cancel(c) ==
  /\ handle[c] = "accepted"
  /\ asked' = [asked EXCEPT ![c] = TRUE]
  /\ UNCHANGED <<server, client, target, active, alive>>

\* wait: TRUE once the done event is set and success is True.
WaitReturns(c) == success[c] = "True"

\* The caller drops the handle and its goal with it.
Forget(c) ==
  /\ handle' = [handle EXCEPT ![c] = "none"]
  /\ success' = [success EXCEPT ![c] = "None"]
  /\ UNCHANGED <<server, target, asked, active, alive>>

-----------------------------------------------------------------------------
ControllerStep(c) == Accept(c) \/ Reject(c) \/ Reach(c) \/ Abort(c) \/ CarryOutCancel(c)
Callback(c) == OnGoalResponse(c) \/ OnResult(c)

ActionTypeOK ==
  /\ goal \in [Callers -> Failed \cup {"none", "sent", "executing", "succeeded"}]
  /\ target \in [Callers -> Poses]
  /\ outcome \in [Callers -> {"SUCCESSFUL", "error"}]
  /\ mail \in [Callers -> SUBSET {"response", "result"}]
  /\ handle \in [Callers -> {"none", "sent", "accepted", "done"}]
  /\ success \in [Callers -> {"None", "True", "False"}]
  /\ asked \in [Callers -> BOOLEAN]
  /\ {active, alive} \subseteq BOOLEAN
  /\ arm \in Poses \cup {"between"}
  /\ mover \in Callers \cup {Nobody}

(***************************************************************************)
(* A handle that reports success is telling the truth: the controller      *)
(* reached the end of the trajectory, unless the caller itself canceled it *)
(* (client.py reports a canceled goal as a success).                       *)
(***************************************************************************)
VerdictsTrue ==
  \A c \in Callers : success[c] = "True" =>
    goal[c] = "succeeded" \/ (goal[c] = "canceled" /\ asked[c])

(***************************************************************************)
(* Why: a success in the result, too, means the one or the other.          *)
(***************************************************************************)
VerdictInv ==
  \A c \in Callers :
    /\ success[c] = "True" => outcome[c] = "SUCCESSFUL"
    /\ outcome[c] = "SUCCESSFUL" => goal[c] = "succeeded" \/ (goal[c] = "canceled" /\ asked[c])

=============================================================================
