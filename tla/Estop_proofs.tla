---------------------------- MODULE Estop_proofs ----------------------------
(***************************************************************************)
(* Theorems about the software emergency stop, for any number of clients   *)
(* and worker threads.                                                     *)
(***************************************************************************)
EXTENDS Estop, FiniteSetTheorems, TLAPS

(***************************************************************************)
(* What a queue of switch requests looks like after one is taken from it.  *)
(***************************************************************************)
LEMMA OneRequest ==
  ASSUME NEW c
  PROVE  /\ Head(<<c>>) = c /\ Tail(<<c>>) = <<>> /\ <<c>> # <<>>
         /\ Len(<<c>>) = 1 /\ Append(<<>>, c) = <<c>>
  OBVIOUS

(***************************************************************************)
(* Type correctness, in every environment.                                 *)
(***************************************************************************)
THEOREM TypeCorrect == Spec => []TypeOK
<1> USE EstopAssumption
<1>1. Init => TypeOK
  <2> SUFFICES ASSUME Init PROVE TypeOK
    OBVIOUS
  <2>1. spawned \in BOOLEAN /\ active \in BOOLEAN
    BY Zenon DEF Init
  <2>2. cmQueue \in Seq(Clients)
    BY DEF Init
  <2>3. stopped \in BOOLEAN /\ estop \in BOOLEAN /\ lock \in Clients \cup {NoClient}
    BY DEF Init
  <2>4. /\ pc \in [Clients -> Running \cup {"idle", "queued"}]
        /\ kind \in [Clients -> {"trigger", "clear"}]
        /\ reply \in [Clients -> {"none", "ok", "error", "active", "inactive"}]
    BY DEF Init
  <2>5. /\ seen \in [Clients -> BOOLEAN]
        /\ switched \in [Clients -> BOOLEAN]
        /\ answer \in [Clients -> {"none", "success", "failure"}]
    BY DEF Init
  <2>6. QED BY <2>1, <2>2, <2>3, <2>4, <2>5 DEF TypeOK
<1>2. TypeOK /\ [Next]_vars => TypeOK'
  <2> SUFFICES ASSUME TypeOK, [Next]_vars PROVE TypeOK'
    OBVIOUS
  <2> USE DEF TypeOK, Running, Critical, Goto, cm, node, handler
  <2>1. ASSUME NEW c \in Clients, NEW k \in {"trigger", "clear"}, Request(c, k)
        PROVE  TypeOK'
    BY <2>1 DEF Request
  <2>2. ASSUME NEW c \in Clients, Handle(c) PROVE TypeOK'
    <3>1. CASE Dispatch(c) \/ AlreadyThere(c) \/ Acquire(c)
      BY <3>1 DEF Dispatch, AlreadyThere, Acquire
    <3>2. CASE CallSwitch(c)
      BY <3>2 DEF CallSwitch
    <3>5. CASE SwitchUnavailable(c)
      BY <3>5 DEF SwitchUnavailable
    <3>6. CASE TakeSwitchReply(c) \/ GiveUpSwitch(c)
      BY <3>6 DEF TakeSwitchReply, GiveUpSwitch
    <3>3. CASE CallList(c) \/ TakeListReply(c) \/ GiveUpList(c)
      BY <3>3 DEF CallList, TakeListReply, GiveUpList
    <3>4. CASE Succeed(c) \/ Fail(c)
      BY <3>4 DEF Succeed, Fail, Want
    <3>7. QED BY <2>2, <3>1, <3>2, <3>3, <3>4, <3>5, <3>6 DEF Handle
  <2>3. CASE Manager
    <3>1. CASE ExecuteSwitch
      BY <3>1 DEF ExecuteSwitch, Want
    <3>2. CASE LoseSwitch
      BY <3>2 DEF LoseSwitch
    <3>3. CASE Spawn \/ \E c \in Clients : AnswerList(c)
      BY <3>3 DEF Spawn, AnswerList
    <3>4. QED BY <2>3, <3>1, <3>2, <3>3 DEF Manager
  <2>4. CASE UNCHANGED vars
    BY <2>4 DEF vars
  <2>5. QED BY <2>1, <2>2, <2>3, <2>4 DEF Next
<1>3. QED BY <1>1, <1>2, PTL DEF Spec

-----------------------------------------------------------------------------
(***************************************************************************)
(* One handler at a time is inside the lock, in every environment.         *)
(***************************************************************************)
LEMMA LockStep ==
  ASSUME TypeOK, LockHeld, [Next]_vars
  PROVE  LockHeld'
<1> USE EstopAssumption DEF TypeOK, LockHeld, Running, Critical, Goto, cm, node, handler
<1>1. ASSUME NEW c \in Clients, NEW k \in {"trigger", "clear"}, Request(c, k)
      PROVE  LockHeld'
  BY <1>1 DEF Request
<1>2. ASSUME NEW c \in Clients, Handle(c) PROVE LockHeld'
  <2>1. CASE Dispatch(c) \/ AlreadyThere(c) \/ Acquire(c)
    BY <2>1 DEF Dispatch, AlreadyThere, Acquire
  <2>2. CASE CallSwitch(c)
    BY <2>2 DEF CallSwitch
  <2>3. CASE SwitchUnavailable(c) \/ Succeed(c) \/ Fail(c)
    BY <2>3 DEF SwitchUnavailable, Succeed, Fail
  <2>4. CASE TakeSwitchReply(c) \/ GiveUpSwitch(c)
    BY <2>4 DEF TakeSwitchReply, GiveUpSwitch
  <2>5. CASE CallList(c) \/ TakeListReply(c) \/ GiveUpList(c)
    BY <2>5 DEF CallList, TakeListReply, GiveUpList
  <2>6. QED BY <1>2, <2>1, <2>2, <2>3, <2>4, <2>5 DEF Handle
<1>3. CASE Manager
  <2>1. pc' = pc /\ lock' = lock
    BY <1>3 DEF Manager, ExecuteSwitch, LoseSwitch, Spawn, AnswerList
  <2>2. QED BY <2>1
<1>4. CASE UNCHANGED vars
  BY <1>4 DEF vars
<1>5. QED BY <1>1, <1>2, <1>3, <1>4 DEF Next

(***************************************************************************)
(* The steps of a handler preserve the invariant.  A step of c in the lock *)
(* is the holder's; the switch in flight, if any, is its own.              *)
(***************************************************************************)
LEMMA HandleSafe ==
  ASSUME TypeOK, SafeInv, LockHeld', ~RpcMayBeLate, NEW c \in Clients, Handle(c)
  PROVE  SafeInv'
<1> USE EstopAssumption DEF TypeOK, SafeInv, Running, Critical, Goto, cm, node, handler, Want
<1>1. CASE Dispatch(c) \/ AlreadyThere(c)
  BY <1>1 DEF Dispatch, AlreadyThere, LockHeld, OneInFlight, HolderInv, Evidence, Untouched
<1>2. CASE Acquire(c)
  BY <1>2 DEF Acquire, LockHeld, OneInFlight, HolderInv, Evidence, Untouched
<1>3. CASE CallSwitch(c)
  <2>1. lock = c /\ cmQueue = <<>>
    BY <1>3 DEF CallSwitch, LockHeld, OneInFlight
  <2>2. cmQueue' = <<c>>
    BY <1>3, <2>1, OneRequest DEF CallSwitch
  <2>3. OneInFlight'
    BY <1>3, <2>1, <2>2 DEF CallSwitch, OneInFlight
  <2>4. HolderInv'
    BY <1>3, <2>1, <2>2 DEF CallSwitch, HolderInv, Evidence, Untouched
  <2>5. QED BY <1>3, <2>1, <2>3, <2>4 DEF CallSwitch
<1>4. CASE SwitchUnavailable(c)
  BY <1>4 DEF SwitchUnavailable, LockHeld, OneInFlight, HolderInv, Evidence, Untouched
<1>5. CASE TakeSwitchReply(c)
  BY <1>5 DEF TakeSwitchReply, LockHeld, OneInFlight, HolderInv, Evidence, Untouched
<1>6. CASE GiveUpSwitch(c)
  <2>1. cmQueue = <<>>
    BY <1>6, OneRequest DEF GiveUpSwitch, LockHeld, OneInFlight
  <2>2. QED
    BY <1>6, <2>1 DEF GiveUpSwitch, LockHeld, OneInFlight, HolderInv, Evidence, Untouched
<1>7. CASE CallList(c)
  BY <1>7 DEF CallList, LockHeld, OneInFlight, HolderInv, Evidence, Untouched
<1>8. CASE TakeListReply(c)
  BY <1>8 DEF TakeListReply, LockHeld, OneInFlight, HolderInv, Evidence, Untouched
<1>9. CASE GiveUpList(c)
  BY <1>9 DEF GiveUpList, LockHeld, OneInFlight, HolderInv, Evidence, Untouched
<1>10. CASE Succeed(c)
  BY <1>10 DEF Succeed, Achieved, LockHeld, OneInFlight, HolderInv, Evidence, Untouched
<1>11. CASE Fail(c)
  BY <1>11 DEF Fail, Achieved, LockHeld, OneInFlight, HolderInv, Evidence, Untouched
<1>12. QED
  BY <1>1, <1>2, <1>3, <1>4, <1>5, <1>6, <1>7, <1>8, <1>9, <1>10, <1>11, Handle(c) DEF Handle

(***************************************************************************)
(* So do the steps of the controller manager.                              *)
(***************************************************************************)
LEMMA ManagerSafe ==
  ASSUME TypeOK, SafeInv, LockHeld', Manager
  PROVE  SafeInv'
<1> USE EstopAssumption DEF TypeOK, SafeInv, Running, Critical, cm, node, handler, Want
<1>1. CASE ExecuteSwitch \/ LoseSwitch
  <2>1. PICK c \in Clients : /\ lock = c /\ cmQueue = <<c>>
                            /\ pc[c] = "awaitSwitch" /\ reply[c] = "none"
    BY <1>1 DEF ExecuteSwitch, LoseSwitch, OneInFlight
  <2>2. Head(cmQueue) = c /\ Tail(cmQueue) = <<>>
    BY <2>1, OneRequest
  <2>3. CASE ExecuteSwitch
    BY <2>1, <2>2, <2>3
       DEF ExecuteSwitch, LockHeld, OneInFlight, HolderInv, Evidence, Untouched
  <2>4. CASE LoseSwitch
    BY <2>1, <2>2, <2>4
       DEF LoseSwitch, LockHeld, OneInFlight, HolderInv, Evidence, Untouched
  <2>5. QED BY <1>1, <2>3, <2>4
<1>2. CASE Spawn
  BY <1>2 DEF Spawn, LockHeld, OneInFlight, HolderInv, Evidence, Untouched
<1>3. ASSUME NEW c \in Clients, AnswerList(c) PROVE SafeInv'
  BY <1>3 DEF AnswerList, LockHeld, OneInFlight, HolderInv, Evidence, Untouched
<1>4. QED BY <1>1, <1>2, <1>3, Manager DEF Manager

(***************************************************************************)
(* SafeInv is an invariant whenever a switch is not executed after its     *)
(* caller gave up on it, however many calls are lost, refused or starved.  *)
(***************************************************************************)
LEMMA SafeStep ==
  ASSUME ~RpcMayBeLate, TypeOK, SafeInv, [Next]_vars
  PROVE  SafeInv'
<1>1. LockHeld'
  BY LockStep DEF SafeInv
<1>2. ASSUME NEW c \in Clients, NEW k \in {"trigger", "clear"}, Request(c, k)
      PROVE  SafeInv'
  BY <1>2, <1>1, EstopAssumption
     DEF Request, TypeOK, SafeInv, Running, Critical, Goto, cm, node, handler, Want,
         LockHeld, OneInFlight, HolderInv, Evidence, Untouched
<1>3. CASE UNCHANGED vars
  BY <1>3, <1>1 DEF vars, cm, node, handler, SafeInv, OneInFlight, HolderInv,
                    Evidence, Untouched, Want
<1>4. QED BY <1>1, <1>2, <1>3, HandleSafe, ManagerSafe DEF Next

(***************************************************************************)
(* SafeInv is an invariant of every environment in which a switch is not   *)
(* executed after its caller gave up.                                      *)
(***************************************************************************)
THEOREM SafeInvariant ==
  ASSUME ~RpcMayBeLate
  PROVE  Spec => []SafeInv
<1>1. Init => SafeInv
  <2> SUFFICES ASSUME Init PROVE SafeInv
    OBVIOUS
  <2>1. spawned => active
    BY Zenon DEF Init
  <2>2. LockHeld /\ OneInFlight /\ HolderInv
    BY EstopAssumption DEF Init, LockHeld, OneInFlight, HolderInv, Critical
  <2>3. estop = stopped
    BY DEF Init
  <2>4. QED BY <2>1, <2>2, <2>3 DEF SafeInv
<1>2. TypeOK /\ SafeInv /\ [Next]_vars => SafeInv'
  BY SafeStep
<1>3. QED BY <1>1, <1>2, TypeCorrect, PTL DEF Spec

(***************************************************************************)
(* Whatever is lost, refused or starved, an inactive controller is always  *)
(* announced as stopped once no handler is inside the lock.                *)
(***************************************************************************)
THEOREM NoSilentStop ==
  ASSUME ~RpcMayBeLate
  PROVE  Spec => []NeverSilentlyStopped
<1>1. TypeOK /\ SafeInv => NeverSilentlyStopped
  BY DEF TypeOK, SafeInv, NeverSilentlyStopped
<1>2. QED BY <1>1, SafeInvariant, TypeCorrect, PTL

(***************************************************************************)
(* In the same environments a clear that lifts a stop is answered with     *)
(* success only while the controller is active.                            *)
(***************************************************************************)
THEOREM ClearIsTrue ==
  ASSUME ~RpcMayBeLate
  PROVE  Spec => ClearAnswerTrue
<1>1. ASSUME TypeOK, SafeInv, [Next]_vars, NEW c \in Clients,
             Answers(c, "success"), kind[c] = "clear", stopped
      PROVE  active
  <2>1. ASSUME NEW d \in Clients, Handle(d) PROVE active
    <3>1. c = d
      BY <2>1, <1>1 DEF Handle, Dispatch, AlreadyThere, Acquire, CallSwitch, SwitchUnavailable,
           TakeSwitchReply, GiveUpSwitch, CallList, TakeListReply, GiveUpList, Succeed, Fail,
           Answers, TypeOK
    <3>2. ~AlreadyThere(c)
      BY <1>1 DEF AlreadyThere, Want
    <3>3. Succeed(c)
      BY <2>1, <3>1, <3>2, <1>1 DEF Handle, Dispatch, Acquire, CallSwitch, SwitchUnavailable,
           TakeSwitchReply, GiveUpSwitch, CallList, TakeListReply, GiveUpList, Fail,
           Answers, TypeOK
    <3>4. QED
      BY <1>1, <3>3 DEF Succeed, Achieved, SafeInv, LockHeld, HolderInv, Evidence, Want, Critical,
                        TypeOK
  <2>2. ASSUME Manager \/ UNCHANGED vars PROVE FALSE
    BY <2>2, <1>1 DEF Manager, ExecuteSwitch, LoseSwitch, AnswerList, Spawn, vars, handler, Answers
  <2>3. ASSUME NEW d \in Clients, NEW k \in {"trigger", "clear"}, Request(d, k) PROVE FALSE
    BY <2>3, <1>1 DEF Request, Answers, TypeOK
  <2>4. QED BY <1>1, <2>1, <2>2, <2>3 DEF Next
<1>2. TypeOK /\ SafeInv /\ [Next]_vars
        => [\A c \in Clients : Answers(c, "success") /\ kind[c] = "clear" /\ stopped => active]_vars
  BY <1>1
<1>3. QED BY <1>2, SafeInvariant, TypeCorrect, PTL DEF Spec, ClearAnswerTrue

-----------------------------------------------------------------------------
(***************************************************************************)
(* A manager that is there, answers and obeys, a spawner that has run, and *)
(* a worker to spare: the environment in which the node keeps its promise. *)
(***************************************************************************)
Reliable ==
  /\ ~RpcMayFail /\ ~RpcMayBeLate /\ ~SpawnerRaces
  /\ IsFiniteSet(Clients) /\ Cardinality(Clients) < NumThreads

(***************************************************************************)
(* With fewer clients than workers, a worker is always left to take an     *)
(* answer, so that no wait elapses.                                        *)
(***************************************************************************)
LEMMA WorkerToSpare ==
  ASSUME Reliable
  PROVE  WorkerFree /\ ~WaitElapses
<1>1. Busy \subseteq Clients
  BY DEF Busy
<1>2. IsFiniteSet(Busy) /\ Cardinality(Busy) <= Cardinality(Clients)
  BY <1>1, FS_Subset DEF Reliable
<1>3. Cardinality(Busy) \in Nat /\ Cardinality(Clients) \in Nat
  BY <1>2, FS_CardinalityType DEF Reliable
<1>4. QED BY <1>2, <1>3, EstopAssumption DEF WorkerFree, WaitElapses, Reliable

(***************************************************************************)
(* The steps of a handler preserve ReliableInv: the switch it took is      *)
(* still the one its verdict is about.                                     *)
(***************************************************************************)
LEMMA ReliableHandle ==
  ASSUME Reliable, TypeOK, SafeInv, LockHeld', ReliableInv, NEW c \in Clients, Handle(c)
  PROVE  ReliableInv'
<1> USE EstopAssumption
    DEF TypeOK, SafeInv, LockHeld, Running, Critical, Goto, cm, node, handler, Want, Undone, Done
<1>1. CASE Dispatch(c) \/ AlreadyThere(c)
  <2>1. lock # c /\ UNCHANGED <<cm, node, kind, reply, switched>>
    BY <1>1 DEF Dispatch, AlreadyThere
  <2>2. \A d \in Clients : lock = d => pc'[d] = pc[d]
    BY <1>1, <2>1 DEF Dispatch, AlreadyThere
  <2>3. QED BY <2>1, <2>2 DEF ReliableInv
<1>2. CASE Acquire(c)
  <2>1. lock = NoClient /\ lock' = c /\ pc'[c] = "switch"
    BY <1>2 DEF Acquire
  <2>2. stopped <=> ~active
    BY <2>1 DEF ReliableInv
  <2>3. QED BY <1>2, <2>1, <2>2 DEF Acquire, ReliableInv
<1>3. CASE CallSwitch(c)
  <2>1. lock = c /\ cmQueue = <<>>
    BY <1>3 DEF CallSwitch, OneInFlight
  <2>2. cmQueue' = <<c>> /\ cmQueue' # <<>>
    BY <1>3, <2>1, OneRequest DEF CallSwitch
  <2>3. QED BY <1>3, <2>1, <2>2 DEF CallSwitch, ReliableInv
<1>4. CASE SwitchUnavailable(c) \/ GiveUpSwitch(c) \/ GiveUpList(c)
  BY <1>4, WorkerToSpare DEF SwitchUnavailable, GiveUpSwitch, GiveUpList, Reliable
<1>5. CASE TakeSwitchReply(c)
  <2>1. lock = c /\ cmQueue = <<>>
    BY <1>5 DEF TakeSwitchReply, OneInFlight
  <2>2. QED BY <1>5, <2>1 DEF TakeSwitchReply, ReliableInv
<1>6. CASE CallList(c)
  BY <1>6 DEF CallList, ReliableInv
<1>7. CASE TakeListReply(c)
  BY <1>7 DEF TakeListReply, ReliableInv
<1>8. CASE Succeed(c)
  BY <1>8 DEF Succeed, ReliableInv, HolderInv
<1>9. CASE Fail(c)
  BY <1>9 DEF Fail, Achieved, ReliableInv, HolderInv
<1>10. QED
  BY <1>1, <1>2, <1>3, <1>4, <1>5, <1>6, <1>7, <1>8, <1>9, Handle(c) DEF Handle

(***************************************************************************)
(* So do the steps of the controller manager.                              *)
(***************************************************************************)
LEMMA ReliableManager ==
  ASSUME Reliable, TypeOK, SafeInv, ReliableInv, Manager
  PROVE  ReliableInv'
<1> USE EstopAssumption
    DEF TypeOK, SafeInv, LockHeld, Running, Critical, cm, node, handler, Want, Undone, Done
<1>1. CASE ExecuteSwitch
  <2>1. PICK c \in Clients : /\ lock = c /\ cmQueue = <<c>>
                            /\ pc[c] = "awaitSwitch" /\ reply[c] = "none"
    BY <1>1 DEF ExecuteSwitch, OneInFlight
  <2>2. Head(cmQueue) = c /\ Tail(cmQueue) = <<>> /\ cmQueue # <<>>
    BY <2>1, OneRequest
  <2>3. stopped <=> Want(c)
    BY <2>1 DEF HolderInv
  <2>4. stopped <=> ~active
    BY <2>1, <2>2 DEF ReliableInv
  <2>5. QED BY <1>1, <2>1, <2>2, <2>3, <2>4 DEF ExecuteSwitch, ReliableInv
<1>2. CASE LoseSwitch \/ Spawn
  BY <1>2 DEF LoseSwitch, Spawn, Reliable, ReliableInv
<1>3. ASSUME NEW c \in Clients, AnswerList(c) PROVE ReliableInv'
  BY <1>3 DEF AnswerList, ReliableInv
<1>4. QED BY <1>1, <1>2, <1>3, Manager DEF Manager

(***************************************************************************)
(* Every step preserves ReliableInv.                                       *)
(***************************************************************************)
LEMMA ReliableStep ==
  ASSUME Reliable, TypeOK, SafeInv, ReliableInv, [Next]_vars
  PROVE  ReliableInv'
<1>1. LockHeld'
  BY LockStep DEF SafeInv
<1>2. ASSUME NEW c \in Clients, NEW k \in {"trigger", "clear"}, Request(c, k)
      PROVE  ReliableInv'
  BY <1>2, EstopAssumption
     DEF Request, TypeOK, SafeInv, LockHeld, Running, Critical, Goto, cm, node,
         ReliableInv, Undone, Done
<1>3. CASE UNCHANGED vars
  BY <1>3 DEF vars, cm, node, handler, ReliableInv, Undone, Done
<1>4. QED BY <1>1, <1>2, <1>3, ReliableHandle, ReliableManager DEF Next

(***************************************************************************)
(* In a reliable environment the controller and the flag disagree exactly  *)
(* between the execution of the switch and the verdict on it.              *)
(***************************************************************************)
THEOREM ReliableInvariant ==
  ASSUME Reliable
  PROVE  Spec => []ReliableInv
<1>1. Init => ReliableInv
  <2> SUFFICES ASSUME Init PROVE ReliableInv
    OBVIOUS
  <2>1. spawned /\ active
    BY Zenon DEF Init, Reliable
  <2>2. QED BY <2>1, EstopAssumption DEF Init, ReliableInv
<1>2. TypeOK /\ SafeInv /\ ReliableInv /\ [Next]_vars => ReliableInv'
  BY ReliableStep
<1>3. Spec => []SafeInv
  BY SafeInvariant DEF Reliable
<1>4. QED BY <1>1, <1>2, <1>3, TypeCorrect, PTL DEF Spec

(***************************************************************************)
(* In a reliable environment the flag, the topic and the controller agree  *)
(* whenever no handler is inside the lock.                                 *)
(***************************************************************************)
THEOREM SettledAgreement ==
  ASSUME Reliable
  PROVE  Spec => []SettledAgree
<1>1. TypeOK /\ SafeInv /\ ReliableInv => SettledAgree
  BY DEF TypeOK, SafeInv, ReliableInv, SettledAgree
<1>2. Spec => []SafeInv
  BY SafeInvariant DEF Reliable
<1>3. QED BY <1>1, <1>2, ReliableInvariant, TypeCorrect, PTL

(***************************************************************************)
(* In a reliable environment a trigger is answered with success only while *)
(* the controller is inactive: under the early return because the flag is  *)
(* right whenever the lock is free, after a switch because the holder's    *)
(* own request is the last one the manager executed.                       *)
(***************************************************************************)
THEOREM TriggerIsTrue ==
  ASSUME Reliable
  PROVE  Spec => TriggerAnswerTrue
<1>1. ASSUME TypeOK, SafeInv, ReliableInv, [Next]_vars, NEW c \in Clients,
             Answers(c, "success"), kind[c] = "trigger"
      PROVE  ~active
  <2>1. ASSUME NEW d \in Clients, Handle(d) PROVE ~active
    <3>1. c = d
      BY <2>1, <1>1 DEF Handle, Dispatch, AlreadyThere, Acquire, CallSwitch, SwitchUnavailable,
           TakeSwitchReply, GiveUpSwitch, CallList, TakeListReply, GiveUpList, Succeed, Fail,
           Answers, TypeOK
    <3>2. AlreadyThere(c) \/ Succeed(c)
      BY <2>1, <3>1, <1>1 DEF Handle, Dispatch, Acquire, CallSwitch, SwitchUnavailable,
           TakeSwitchReply, GiveUpSwitch, CallList, TakeListReply, GiveUpList, Fail,
           Answers, TypeOK
    <3>3. ~Want(c)
      BY <1>1 DEF Want
    <3>4. CASE AlreadyThere(c)
      BY <1>1, <3>3, <3>4 DEF AlreadyThere, ReliableInv, TypeOK
    <3>5. CASE Succeed(c)
      BY <1>1, <3>3, <3>5 DEF Succeed, SafeInv, LockHeld, Critical, HolderInv,
                              ReliableInv, Undone, Done, TypeOK
    <3>6. QED BY <3>2, <3>4, <3>5
  <2>2. ASSUME Manager \/ UNCHANGED vars PROVE FALSE
    BY <2>2, <1>1 DEF Manager, ExecuteSwitch, LoseSwitch, AnswerList, Spawn, vars, handler, Answers
  <2>3. ASSUME NEW d \in Clients, NEW k \in {"trigger", "clear"}, Request(d, k) PROVE FALSE
    BY <2>3, <1>1 DEF Request, Answers, TypeOK
  <2>4. QED BY <1>1, <2>1, <2>2, <2>3 DEF Next
<1>2. TypeOK /\ SafeInv /\ ReliableInv /\ [Next]_vars
        => [\A c \in Clients : Answers(c, "success") /\ kind[c] = "trigger" => ~active]_vars
  BY <1>1
<1>3. Spec => []SafeInv
  BY SafeInvariant DEF Reliable
<1>4. QED
  BY <1>2, <1>3, ReliableInvariant, TypeCorrect, PTL DEF Spec, TriggerAnswerTrue

(***************************************************************************)
(* In a reliable environment the node implements EstopCycle: the switch    *)
(* executed by the manager is the Halt or Resume, the holder's verdict the *)
(* Announce or Withdraw, every other step stutters.                        *)
(***************************************************************************)
THEOREM CycleRefinement ==
  ASSUME Reliable
  PROVE  Spec => ImplementsCycle
<1> USE DEF Cycle!Init, Cycle!Next, Cycle!Halt, Cycle!Announce, Cycle!Resume,
            Cycle!Withdraw, Cycle!cycle
<1>1. Init => Cycle!Init
  BY Zenon DEF Init, Reliable
<1>2. ASSUME TypeOK, SafeInv, ReliableInv, [Next]_vars
      PROVE  [Cycle!Next]_(Cycle!cycle)
  <2>1. ASSUME NEW c \in Clients, Succeed(c) PROVE Cycle!Announce \/ Cycle!Withdraw
    <3>1. lock = c /\ (stopped <=> active) /\ (stopped <=> Want(c)) /\ estop = stopped
      BY <1>2, <2>1 DEF Succeed, SafeInv, LockHeld, Critical, HolderInv, ReliableInv, Undone, Done
    <3>2. QED BY <1>2, <2>1, <3>1 DEF Succeed, cm, TypeOK, Want
  <2>2. CASE ExecuteSwitch
    <3>1. PICK c \in Clients : /\ lock = c /\ cmQueue = <<c>>
                              /\ pc[c] = "awaitSwitch" /\ reply[c] = "none"
      BY <1>2, <2>2 DEF ExecuteSwitch, SafeInv, OneInFlight
    <3>2. Head(cmQueue) = c /\ cmQueue # <<>>
      BY <3>1, OneRequest
    <3>3. (stopped <=> ~active) /\ (stopped <=> Want(c)) /\ estop = stopped
      BY <1>2, <3>1, <3>2 DEF SafeInv, HolderInv, ReliableInv, Undone, Done
    <3>4. QED BY <1>2, <2>2, <3>2, <3>3 DEF ExecuteSwitch, node, TypeOK, Want
  <2>3. ASSUME NEW c \in Clients, Handle(c), ~Succeed(c) PROVE UNCHANGED <<active, estop>>
    BY <2>3 DEF Handle, Dispatch, AlreadyThere, Acquire, CallSwitch, SwitchUnavailable,
         TakeSwitchReply, GiveUpSwitch, CallList, TakeListReply, GiveUpList, Fail, cm, node
  <2>4. ASSUME Manager, ~ExecuteSwitch PROVE UNCHANGED <<active, estop>>
    BY <1>2, <2>4 DEF Manager, LoseSwitch, AnswerList, Spawn, ReliableInv, cm, node
  <2>5. ASSUME NEW c \in Clients, NEW k \in {"trigger", "clear"}, Request(c, k)
        PROVE  UNCHANGED <<active, estop>>
    BY <2>5 DEF Request, cm, node
  <2>6. CASE UNCHANGED vars
    BY <2>6 DEF vars, cm, node
  <2>7. QED BY <1>2, <2>1, <2>2, <2>3, <2>4, <2>5, <2>6 DEF Next
<1>3. Spec => []SafeInv
  BY SafeInvariant DEF Reliable
<1>4. QED
  BY <1>1, <1>2, <1>3, ReliableInvariant, TypeCorrect, PTL
     DEF Spec, ImplementsCycle, Cycle!Spec
=============================================================================
