------------------------------- MODULE Estop --------------------------------
(***************************************************************************)
(* The software emergency stop: armv7_safety/estop_node.py, with the part  *)
(* of ros2_control's controller_manager and of rclpy's executor that it    *)
(* talks to.                                                               *)
(*                                                                         *)
(* Each member of Clients is one caller of /safety/estop_trigger or        *)
(* /safety/estop_clear, with at most one call outstanding.  Its handler    *)
(* runs on a worker thread of a MultiThreadedExecutor, takes the node's    *)
(* lock, and inside the lock makes two remote calls whose answers another  *)
(* worker thread has to take: a handler that waits keeps its own worker.   *)
(***************************************************************************)
EXTENDS Integers, Sequences, FiniteSets

CONSTANTS Clients,       \* callers of the two services
          NumThreads,    \* executor workers: main() uses 4
          RpcMayFail,    \* a service may be absent, a call lost, a switch refused
          RpcMayBeLate,  \* a switch may be slow, and executed after its caller gave up
          SpawnerRaces,  \* the node is up before the controller's spawner ran
          NoClient       \* the lock is free

ASSUME EstopAssumption ==
  /\ NumThreads \in Nat \ {0}
  /\ {RpcMayFail, RpcMayBeLate, SpawnerRaces} \subseteq BOOLEAN
  /\ NoClient \notin Clients

VARIABLES active,    \* controller_manager: plan_group_controller is active
          spawned,   \* its spawner has run
          cmQueue,   \* switch_controller requests not executed yet
          stopped,   \* _stopped
          estop,     \* the value latched on /safety/estop
          lock,      \* the holder of _lock
          pc,        \* where each handler is
          kind,      \* which service the call is for
          reply,     \* what the current remote call has answered
          seen,      \* what _controller_is_active() returned
          switched,  \* resp is not None and resp.ok, in _switch
          answer     \* the response of the handler to its client

cm      == <<active, spawned, cmQueue>>
node    == <<stopped, estop, lock>>
handler == <<pc, kind, reply, seen, switched, answer>>
vars    == <<cm, node, handler>>

(***************************************************************************)
(* "queued": the request waits for a worker; "waiting": for the lock.  The *)
(* others hold the lock.                                                   *)
(***************************************************************************)
Critical == {"switch", "awaitSwitch", "list", "awaitList", "decide"}
Running  == Critical \cup {"waiting"}

Busy        == {c \in Clients : pc[c] \in Running}
WorkerFree  == Cardinality(Busy) < NumThreads
Want(c)     == kind[c] = "clear"     \* the activity _switch(activate) asks for

(***************************************************************************)
(* A wait ends without an answer when the answer is slow or lost, or when  *)
(* every worker is blocked in a handler and none is left to take it.       *)
(***************************************************************************)
WaitElapses == RpcMayFail \/ ~WorkerFree

Init ==
  /\ spawned = ~SpawnerRaces
  /\ active = spawned
  /\ cmQueue = <<>>
  /\ stopped = FALSE
  /\ estop = FALSE
  /\ lock = NoClient
  /\ pc = [c \in Clients |-> "idle"]
  /\ kind = [c \in Clients |-> "trigger"]
  /\ reply = [c \in Clients |-> "none"]
  /\ seen = [c \in Clients |-> FALSE]
  /\ switched = [c \in Clients |-> FALSE]
  /\ answer = [c \in Clients |-> "none"]

Goto(c, label) == pc' = [pc EXCEPT ![c] = label]

-----------------------------------------------------------------------------
(***************************************************************************)
(* The callers and the executor.                                           *)
(***************************************************************************)
Request(c, k) ==
  /\ pc[c] = "idle"
  /\ \A i \in 1..Len(cmQueue) : cmQueue[i] # c
  /\ Goto(c, "queued")
  /\ kind' = [kind EXCEPT ![c] = k]
  /\ answer' = [answer EXCEPT ![c] = "none"]
  /\ UNCHANGED <<cm, node, reply, seen, switched>>

Dispatch(c) ==
  /\ pc[c] = "queued"
  /\ WorkerFree
  /\ Goto(c, "waiting")
  /\ UNCHANGED <<cm, node, kind, reply, seen, switched, answer>>

(***************************************************************************)
(* _on_trigger and _on_clear.                                              *)
(***************************************************************************)
\* Mutant: the flag is read before the lock is taken.
AlreadyThere_Unlocked(c) ==
  /\ pc[c] = "waiting"
  /\ ~stopped <=> Want(c)
  /\ Goto(c, "idle")
  /\ answer' = [answer EXCEPT ![c] = "success"]
  /\ UNCHANGED <<cm, node, kind, reply, seen, switched>>

\* The early return: 'already stopped', 'not stopped'.
AlreadyThere(c) ==
  /\ pc[c] = "waiting"
  /\ lock = NoClient
  /\ ~stopped <=> Want(c)
  /\ Goto(c, "idle")
  /\ answer' = [answer EXCEPT ![c] = "success"]
  /\ UNCHANGED <<cm, node, kind, reply, seen, switched>>

\* Mutant: no lock.
Acquire_NoLock(c) ==
  /\ pc[c] = "waiting"
  /\ stopped <=> Want(c)
  /\ Goto(c, "switch")
  /\ UNCHANGED <<cm, node, kind, reply, seen, switched, answer>>

\* Mutant: the topic is published first, as the docstring has it.
Acquire_PublishFirst(c) ==
  /\ pc[c] = "waiting"
  /\ lock = NoClient
  /\ stopped <=> Want(c)
  /\ lock' = c
  /\ estop' = ~Want(c)
  /\ Goto(c, "switch")
  /\ UNCHANGED <<cm, stopped, kind, reply, seen, switched, answer>>

Acquire(c) ==
  /\ pc[c] = "waiting"
  /\ lock = NoClient
  /\ stopped <=> Want(c)
  /\ lock' = c
  /\ Goto(c, "switch")
  /\ UNCHANGED <<cm, stopped, estop, kind, reply, seen, switched, answer>>

\* _switch: the service is there, call_async sends the request.
CallSwitch(c) ==
  /\ pc[c] = "switch"
  /\ cmQueue' = Append(cmQueue, c)
  /\ reply' = [reply EXCEPT ![c] = "none"]
  /\ Goto(c, "awaitSwitch")
  /\ UNCHANGED <<active, spawned, node, kind, seen, switched, answer>>

\* _switch: wait_for_service gives up; nothing is verified on this path.
SwitchUnavailable(c) ==
  /\ pc[c] = "switch"
  /\ RpcMayFail
  /\ lock' = NoClient
  /\ answer' = [answer EXCEPT ![c] = "failure"]
  /\ Goto(c, "idle")
  /\ UNCHANGED <<cm, stopped, estop, kind, reply, seen, switched>>

TakeSwitchReply(c) ==
  /\ pc[c] = "awaitSwitch"
  /\ reply[c] # "none"
  /\ WorkerFree
  /\ switched' = [switched EXCEPT ![c] = reply[c] = "ok"]
  /\ Goto(c, "list")
  /\ UNCHANGED <<cm, node, kind, reply, seen, answer>>

GiveUpSwitch(c) ==
  /\ pc[c] = "awaitSwitch"
  /\ \/ RpcMayBeLate
     \/ WaitElapses /\ \A i \in 1..Len(cmQueue) : cmQueue[i] # c
  /\ switched' = [switched EXCEPT ![c] = FALSE]
  /\ Goto(c, "list")
  /\ UNCHANGED <<cm, node, kind, reply, seen, answer>>

\* _controller_is_active: the request for the list is sent.
CallList(c) ==
  /\ pc[c] = "list"
  /\ reply' = [reply EXCEPT ![c] = "none"]
  /\ Goto(c, "awaitList")
  /\ UNCHANGED <<cm, node, kind, seen, switched, answer>>

TakeListReply(c) ==
  /\ pc[c] = "awaitList"
  /\ reply[c] # "none"
  /\ WorkerFree
  /\ seen' = [seen EXCEPT ![c] = reply[c] = "active"]
  /\ Goto(c, "decide")
  /\ UNCHANGED <<cm, node, kind, reply, switched, answer>>

\* Mutant: no answer counts as the state that was asked for.
GiveUpList_Optimistic(c) ==
  /\ \/ pc[c] = "list" /\ RpcMayFail
     \/ pc[c] = "awaitList" /\ WaitElapses
  /\ seen' = [seen EXCEPT ![c] = Want(c)]
  /\ Goto(c, "decide")
  /\ UNCHANGED <<cm, node, kind, reply, switched, answer>>

\* No service, or no answer in time: the code returns False, "not active".
GiveUpList(c) ==
  /\ \/ pc[c] = "list" /\ RpcMayFail
     \/ pc[c] = "awaitList" /\ WaitElapses
  /\ seen' = [seen EXCEPT ![c] = FALSE]
  /\ Goto(c, "decide")
  /\ UNCHANGED <<cm, node, kind, reply, switched, answer>>

\* Mutant: the state is not verified after the call.
Achieved_ReplyOnly(c) == switched[c]

\* _switch's verdict: the answer was ok, or the list agrees with the request.
Achieved(c) == switched[c] \/ (seen[c] <=> Want(c))

\* Mutant: the topic is published, the flag is not set.
Succeed_FlagForgotten(c) ==
  /\ pc[c] = "decide"
  /\ Achieved(c)
  /\ estop' = ~Want(c)
  /\ lock' = NoClient
  /\ answer' = [answer EXCEPT ![c] = "success"]
  /\ Goto(c, "idle")
  /\ UNCHANGED <<cm, stopped, kind, reply, seen, switched>>

\* Mutant: the handler answers with what the manager said.
Succeed_RelaysReply(c) ==
  /\ pc[c] = "decide"
  /\ Achieved(c)
  /\ stopped' = ~Want(c)
  /\ estop' = ~Want(c)
  /\ lock' = NoClient
  /\ answer' = [answer EXCEPT ![c] = reply[c]]
  /\ Goto(c, "idle")
  /\ UNCHANGED <<cm, kind, reply, seen, switched>>

Succeed(c) ==
  /\ pc[c] = "decide"
  /\ Achieved(c)
  /\ stopped' = ~Want(c)
  /\ estop' = ~Want(c)
  /\ lock' = NoClient
  /\ answer' = [answer EXCEPT ![c] = "success"]
  /\ Goto(c, "idle")
  /\ UNCHANGED <<cm, kind, reply, seen, switched>>

\* Mutant: a call that failed is tried again until it succeeds.
Fail_Retries(c) ==
  /\ pc[c] = "decide"
  /\ ~Achieved(c)
  /\ Goto(c, "switch")
  /\ UNCHANGED <<cm, node, kind, reply, seen, switched, answer>>

Fail(c) ==
  /\ pc[c] = "decide"
  /\ ~Achieved(c)
  /\ lock' = NoClient
  /\ answer' = [answer EXCEPT ![c] = "failure"]
  /\ Goto(c, "idle")
  /\ UNCHANGED <<cm, stopped, estop, kind, reply, seen, switched>>

-----------------------------------------------------------------------------
(***************************************************************************)
(* The controller manager, as this node uses it.  A STRICT switch of a     *)
(* controller that is already in the requested state is an error.          *)
(***************************************************************************)
ExecuteSwitch ==
  /\ cmQueue # <<>>
  /\ LET c == Head(cmQueue) IN
       /\ active' = Want(c)
       /\ reply' = [reply EXCEPT ![c] = IF pc[c] # "awaitSwitch" THEN @
                                        ELSE IF active <=> Want(c) THEN "error" ELSE "ok"]
  /\ cmQueue' = Tail(cmQueue)
  /\ UNCHANGED <<spawned, node, pc, kind, seen, switched, answer>>

\* The request is lost on the way, or the manager cannot carry it out.
LoseSwitch ==
  /\ cmQueue # <<>>
  /\ RpcMayFail
  /\ LET c == Head(cmQueue) IN
       \/ UNCHANGED reply
       \/ pc[c] = "awaitSwitch" /\ reply' = [reply EXCEPT ![c] = "error"]
  /\ cmQueue' = Tail(cmQueue)
  /\ UNCHANGED <<active, spawned, node, pc, kind, seen, switched, answer>>

AnswerList(c) ==
  /\ pc[c] = "awaitList"
  /\ reply[c] = "none"
  /\ reply' = [reply EXCEPT ![c] = IF active THEN "active" ELSE "inactive"]
  /\ UNCHANGED <<cm, node, pc, kind, seen, switched, answer>>

\* The spawner of plan_group_controller finishes after the node is up.
Spawn ==
  /\ ~spawned
  /\ spawned' = TRUE
  /\ active' = TRUE
  /\ UNCHANGED <<cmQueue, node, handler>>

-----------------------------------------------------------------------------
Handle(c) ==
  \/ Dispatch(c) \/ AlreadyThere(c) \/ Acquire(c)
  \/ CallSwitch(c) \/ SwitchUnavailable(c) \/ TakeSwitchReply(c) \/ GiveUpSwitch(c)
  \/ CallList(c) \/ TakeListReply(c) \/ GiveUpList(c)
  \/ Succeed(c) \/ Fail(c)

Manager == ExecuteSwitch \/ LoseSwitch \/ Spawn \/ \E c \in Clients : AnswerList(c)

Next ==
  \/ \E c \in Clients, k \in {"trigger", "clear"} : Request(c, k)
  \/ \E c \in Clients : Handle(c)
  \/ Manager

Spec == Init /\ [][Next]_vars

(***************************************************************************)
(* A running handler keeps running and the manager keeps serving; nobody   *)
(* is obliged to call, and the lock is not a fair one.                     *)
(***************************************************************************)
FairSpec ==
  /\ Spec
  /\ \A c \in Clients : WF_vars(pc[c] \in Critical /\ Handle(c))
  /\ WF_vars(Manager)

-----------------------------------------------------------------------------
TypeOK ==
  /\ active \in BOOLEAN /\ spawned \in BOOLEAN
  /\ cmQueue \in Seq(Clients)
  /\ stopped \in BOOLEAN /\ estop \in BOOLEAN
  /\ lock \in Clients \cup {NoClient}
  /\ pc \in [Clients -> Running \cup {"idle", "queued"}]
  /\ kind \in [Clients -> {"trigger", "clear"}]
  /\ reply \in [Clients -> {"none", "ok", "error", "active", "inactive"}]
  /\ seen \in [Clients -> BOOLEAN]
  /\ switched \in [Clients -> BOOLEAN]
  /\ answer \in [Clients -> {"none", "success", "failure"}]

(***************************************************************************)
(* Once no handler is inside the lock, the node's flag, the latched topic  *)
(* and the controller say the same thing: stopped exactly when the         *)
(* trajectory controller is inactive.                                      *)
(***************************************************************************)
SettledAgree == lock = NoClient => stopped = ~active /\ estop = stopped

(***************************************************************************)
(* A trigger is answered with success only while the controller is         *)
(* inactive: the "already stopped" shortcut included.                      *)
(***************************************************************************)
Answers(c, a) == answer[c] = "none" /\ answer'[c] = a

TriggerAnswerTrue ==
  [][\A c \in Clients : Answers(c, "success") /\ kind[c] = "trigger" => ~active]_vars

(***************************************************************************)
(* A clear that had a stop to lift is answered with success only while the *)
(* controller is active, even when calls are lost or refused: an unknown   *)
(* state counts as inactive, which is the safe side of a clear.            *)
(***************************************************************************)
ClearAnswerTrue ==
  [][\A c \in Clients : Answers(c, "success") /\ kind[c] = "clear" /\ stopped => active]_vars

(***************************************************************************)
(* Lost, refused and unanswered calls can make the node claim a stop that  *)
(* did not happen, never hide one that did: once no handler is inside the  *)
(* lock, a controller that is inactive is announced as stopped.            *)
(***************************************************************************)
NeverSilentlyStopped == lock = NoClient /\ spawned /\ ~active => estop

(***************************************************************************)
(* Every handler that gets the lock returns, whatever becomes of its       *)
(* remote calls and however many others block the executor's workers.      *)
(***************************************************************************)
HolderReturns == \A c \in Clients : (lock = c) ~> (lock # c)

(***************************************************************************)
(* Why NeverSilentlyStopped and ClearAnswerTrue hold, as an inductive      *)
(* invariant: one handler inside the lock, at most one switch in flight    *)
(* and it is the holder's, and every piece of evidence that the controller *)
(* is active (an ok to a clear, an "active" in the list) stays true while  *)
(* the holder keeps the lock, since nobody else can take motion away.      *)
(***************************************************************************)
LockHeld == \A c \in Clients : pc[c] \in Critical <=> lock = c

OneInFlight ==
  cmQueue # <<>> => \E c \in Clients : /\ lock = c /\ cmQueue = <<c>>
                                       /\ pc[c] = "awaitSwitch" /\ reply[c] = "none"

Evidence(c) ==
  \/ pc[c] = "awaitSwitch" /\ reply[c] = "ok" /\ Want(c)
  \/ pc[c] \in {"list", "awaitList", "decide"} /\ switched[c] /\ Want(c)
  \/ pc[c] = "awaitList" /\ reply[c] = "active"
  \/ pc[c] = "decide" /\ seen[c]

Untouched(c) == pc[c] = "switch" \/ cmQueue # <<>>

HolderInv ==
  \A c \in Clients : lock = c => /\ stopped <=> Want(c)
                                 /\ Evidence(c) => active
                                 /\ Untouched(c) /\ spawned /\ ~active => stopped

SafeInv ==
  /\ LockHeld /\ OneInFlight /\ HolderInv
  /\ estop = stopped
  /\ lock = NoClient /\ spawned /\ ~active => stopped

(***************************************************************************)
(* Why the rest holds when calls are neither lost nor late and a worker is *)
(* always left: the controller and the flag disagree exactly between the   *)
(* execution of the holder's switch and the holder's verdict.              *)
(***************************************************************************)
Undone(c) == \/ pc[c] = "switch"
             \/ pc[c] = "awaitSwitch" /\ cmQueue # <<>>

Done(c)   == \/ pc[c] = "awaitSwitch" /\ cmQueue = <<>> /\ reply[c] = "ok"
             \/ pc[c] \in {"list", "awaitList", "decide"} /\ switched[c]

ReliableInv ==
  /\ spawned
  /\ lock = NoClient => (stopped <=> ~active)
  /\ \A c \in Clients :
       lock = c => \/ Undone(c) /\ (stopped <=> ~active)
                   \/ Done(c) /\ (stopped <=> active)

(***************************************************************************)
(* The promise of EstopCycle.                                              *)
(***************************************************************************)
Cycle == INSTANCE EstopCycle WITH motion <- active, latched <- estop
ImplementsCycle == Cycle!Spec
=============================================================================
