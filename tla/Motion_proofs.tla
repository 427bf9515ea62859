---------------------------- MODULE Motion_proofs ---------------------------
(***************************************************************************)
(* Theorems about everyone who moves the arm, for any callers, programs,   *)
(* poses, targets and boxes, and with a controller manager that may crash. *)
(***************************************************************************)
EXTENDS Motion, SequenceTheorems, TLAPS

-----------------------------------------------------------------------------
(***************************************************************************)
(* The operations of the trajectory action, each with the types it keeps.  *)
(***************************************************************************)
Operation ==
  \/ \E c \in Callers : ControllerStep(c) \/ Callback(c) \/ Forget(c)
  \/ \E c \in Callers, pose \in Poses : Send(c, pose)
  \/ Cancel(User)
  \/ Crash
  \/ \E on \in BOOLEAN : SwitchTo(on)
  \/ UNCHANGED action

LEMMA UserIsCaller == User \in Callers /\ User \notin Examples /\ Examples \subseteq Callers
BY ExamplesAssumption

LEMMA InitActionType == ActionInit => ActionTypeOK
BY DEF ActionInit, ActionTypeOK, Failed, Nobody

LEMMA OperationType == ActionTypeOK /\ Operation => ActionTypeOK'
<1> SUFFICES ASSUME ActionTypeOK, Operation PROVE ActionTypeOK'
  OBVIOUS
<1> USE DEF ActionTypeOK, Failed
<1>1. ASSUME NEW c \in Callers, Accept(c) PROVE ActionTypeOK'
  BY <1>1 DEF Accept, client
<1>2. ASSUME NEW c \in Callers, Reject(c) PROVE ActionTypeOK'
  BY <1>2 DEF Reject, client
<1>3. ASSUME NEW c \in Callers, Reach(c) PROVE ActionTypeOK'
  BY <1>3 DEF Reach, Ended, client
<1>4. ASSUME NEW c \in Callers, Abort(c) \/ CarryOutCancel(c) PROVE ActionTypeOK'
  BY <1>4 DEF Abort, CarryOutCancel, Ended, client
<1>5. ASSUME NEW c \in Callers, OnGoalResponse(c) PROVE ActionTypeOK'
  BY <1>5 DEF OnGoalResponse
<1>6. ASSUME NEW c \in Callers, OnResult(c) PROVE ActionTypeOK'
  BY <1>6 DEF OnResult
<1>7. ASSUME NEW c \in Callers, Forget(c) PROVE ActionTypeOK'
  BY <1>7 DEF Forget, server
<1>8. ASSUME NEW c \in Callers, NEW pose \in Poses, Send(c, pose) PROVE ActionTypeOK'
  BY <1>8 DEF Send
<1>9. CASE Cancel(User)
  BY <1>9, UserIsCaller DEF Cancel, server, client
<1>10. CASE Crash
  BY <1>10 DEF Crash, server, client
<1>11. ASSUME NEW on \in BOOLEAN, SwitchTo(on) PROVE ActionTypeOK'
  <2>1. CASE on
    BY <1>11, <2>1 DEF SwitchTo, client
  <2>2. CASE ~on
    BY <1>11, <2>2 DEF SwitchTo, Ended, client
  <2> QED BY <2>1, <2>2
<1>12. CASE UNCHANGED action
  BY <1>12 DEF action, server, client
<1> QED
  BY <1>1, <1>2, <1>3, <1>4, <1>5, <1>6, <1>7, <1>8, <1>9, <1>10, <1>11, <1>12
  DEF Operation, ControllerStep, Callback

-----------------------------------------------------------------------------
(***************************************************************************)
(* Facts about the programs: how long they are, that they go to poses, that*)
(* only a last step is unchecked, and that a grip follows a checked move.  *)
(***************************************************************************)
LEMMA Scripts ==
  ASSUME NEW j \in Jobs
  PROVE  /\ Len(Script(j)) \in 1..11
         /\ \A k \in 1..Len(Script(j)) :
              /\ Script(j)[k].do = "move" => Script(j)[k].to \in Poses
              /\ Script(j)[k].do = "grip" => /\ Script(j)[k].to \in {"open", "closed"}
                                             /\ k - 1 \in 1..Len(Script(j))
                                             /\ Script(j)[k - 1].do = "move"
                                             /\ Script(j)[k - 1].checked
              /\ ~Script(j)[k].checked => k = Len(Script(j))
<1>1. CASE j = "pick_and_place"
  <2>1. Script(j) = PickAndPlace /\ Len(PickAndPlace) = 11
    BY <1>1 DEF Script, PickAndPlace
  <2>2. /\ PickAndPlace[1] = Move("home") /\ PickAndPlace[2] = Grip("open")
        /\ PickAndPlace[3] = Move("overA") /\ PickAndPlace[4] = Move("a")
        /\ PickAndPlace[5] = Grip("closed") /\ PickAndPlace[6] = Move("overA")
        /\ PickAndPlace[7] = Move("overB") /\ PickAndPlace[8] = Move("b")
        /\ PickAndPlace[9] = Grip("open") /\ PickAndPlace[10] = Move("overB")
        /\ PickAndPlace[11] = Move("home")
    BY DEF PickAndPlace
  <2>3. \A k \in 1..11 : k = 1 \/ k = 2 \/ k = 3 \/ k = 4 \/ k = 5 \/ k = 6 \/ k = 7 \/ k = 8
                          \/ k = 9 \/ k = 10 \/ k = 11
    OBVIOUS
  <2> QED BY <2>1, <2>2, <2>3, ExamplesAssumption DEF Move, Grip
<1>2. CASE j = "teach_playback"
  <2>1. /\ Script(j) = TeachPlayback /\ Len(TeachPlayback) = 3
        /\ TeachPlayback[1] = Prompt /\ TeachPlayback[2] = Move("b") /\ TeachPlayback[3] = Move("b")
    BY <1>2 DEF Script, TeachPlayback
  <2>2. \A k \in 1..3 : k = 1 \/ k = 2 \/ k = 3
    OBVIOUS
  <2> QED BY <2>1, <2>2, ExamplesAssumption DEF Move, Prompt
<1>3. CASE j = "pose_grid"
  BY <1>3, ExamplesAssumption DEF Script, PoseGrid, Move, Lastly
<1>4. CASE j = "hello_world"
  BY <1>4, ExamplesAssumption DEF Script, HelloWorld, Move, Lastly
<1> QED BY <1>1, <1>2, <1>3, <1>4, ExamplesAssumption

-----------------------------------------------------------------------------
(***************************************************************************)
(* Type correctness.                                                       *)
(***************************************************************************)
\* Where the collector is in its round, and what it has.
Samples == [at : Poses \cup {"between", "None"},
            side : {"sample above", "sample below", "None"}, honest : BOOLEAN]

CollectorInv ==
  /\ CollectorTypeOK
  /\ leg = "begin" => current = 0
  /\ rows \in Seq(Samples)
  /\ {above, below} \subseteq Samples

MotionInv == ActionTypeOK /\ ExamplesTypeOK /\ CollectorInv /\ WorkspaceTypeOK

LEMMA InitInv == Init => MotionInv
<1> SUFFICES ASSUME Init PROVE MotionInv
  OBVIOUS
<1>1. ActionTypeOK
  BY InitActionType DEF Init
<1>2. ExamplesTypeOK
  BY ExamplesAssumption DEF Init, ExamplesInit, ExamplesTypeOK
<1>3. CollectorInv
  <2>1. rows = <<>> /\ above = None /\ below = None /\ current = 0 /\ leg \in {"begin", "end"}
        /\ bidirectional \in BOOLEAN
    BY DEF Init, CollectorInit
  <2>2. Len(Targets) \in Nat
    BY CollectorAssumption
  <2>3. None \in Samples
    BY DEF None, Samples
  <2>4. rows \in Seq(Samples) /\ DOMAIN rows = {}
    BY <2>1, EmptySeq
  <2>5. \A s \in {above, below} \cup {rows[i] : i \in DOMAIN rows} :
          s.at \in Poses \cup {"between", "None"}
    BY <2>1, <2>4 DEF None
  <2>6. current \in 0..Len(Targets) + 1
    BY <2>1, <2>2
  <2> QED BY <2>1, <2>3, <2>4, <2>5, <2>6 DEF CollectorInv, CollectorTypeOK
<1>4. WorkspaceTypeOK
  <2>1. tf \in Int /\ clears \in 0..Clears
    <3>1. Lower \in Int /\ Clears \in Nat
      BY WorkspaceAssumption
    <3>2. tf = Lower - 1000 /\ clears = 0
      BY DEF Init, WorkspaceInit, Unknown
    <3> QED BY <3>1, <3>2
  <2> QED BY <2>1 DEF Init, WorkspaceInit, WorkspaceTypeOK
<1> QED BY <1>1, <1>2, <1>3, <1>4 DEF MotionInv

LEMMA ProgramType ==
  ASSUME MotionInv, NEW p \in Examples, ProgramStep(p)
  PROVE  ExamplesTypeOK' /\ Operation
<1> USE DEF ExamplesTypeOK
<1>t. ExamplesTypeOK /\ job[p] \in Jobs /\ p \in Callers
  BY ExamplesAssumption DEF MotionInv
<1>s. /\ Len(Script(job[p])) \in 1..11
      /\ \A k \in 1..Len(Script(job[p])) :
           /\ Script(job[p])[k].do = "move" => Script(job[p])[k].to \in Poses
           /\ Script(job[p])[k].do = "grip" => Script(job[p])[k].to \in {"open", "closed"}
  BY <1>t, Scripts
<1>a. ASSUME step[p] \in 0..11, Advance(p) PROVE ExamplesTypeOK'
  <2>1. step[p] + 1 \in 0..12
    BY <1>a
  <2> QED BY <1>t, <1>a, <2>1 DEF Advance
<1>r. ASSUME NEW code \in 0..2, Return(p, code) PROVE ExamplesTypeOK'
  BY <1>t, <1>r DEF Return
<1>n. ASSUME NEW do, AtStep(p, do) PROVE step[p] \in 0..11 /\ Current(p) = Script(job[p])[step[p]]
  BY <1>s, <1>n DEF AtStep, Current
<1>1. CASE SeeJointState(p)
  BY <1>1, <1>a DEF SeeJointState, Operation
<1>2. CASE NoJointState(p)
  BY <1>2, <1>r DEF NoJointState, Operation
<1>3. CASE SendMove(p)
  <2>1. Current(p).to \in Poses
    BY <1>3, <1>s DEF SendMove, AtStep, Current
  <2>2. CASE alive
    BY <1>3, <1>t, <2>1, <2>2 DEF SendMove, Operation, examples
  <2>3. CASE ~alive
    BY <1>3, <1>r, <2>3 DEF SendMove, Operation
  <2> QED BY <2>2, <2>3
<1>4. CASE WaitOver(p)
  <2>1. (Advance(p) /\ Forget(p)) \/ (Return(p, 2) /\ UNCHANGED action)
    BY <1>4 DEF WaitOver
  <2>2. step[p] \in 0..11
    BY <1>4, <1>n DEF WaitOver
  <2> QED BY <1>t, <1>a, <1>r, <2>1, <2>2 DEF Operation
<1>5. CASE WaitElapses(p)
  <2>1. (Advance(p) /\ Forget(p)) \/ (Return(p, 2) /\ UNCHANGED action)
    BY <1>5 DEF WaitElapses
  <2>2. step[p] \in 0..11
    BY <1>5, <1>n DEF WaitElapses
  <2> QED BY <1>t, <1>a, <1>r, <2>1, <2>2 DEF Operation
<1>6. CASE MoveGripper(p)
  <2>1. step[p] \in 1..Len(Script(job[p])) /\ Script(job[p])[step[p]].do = "grip"
    BY <1>6 DEF MoveGripper, AtStep
  <2>2. Current(p).to \in {"open", "closed"}
    BY <1>s, <2>1 DEF Current
  <2>3. step[p] + 1 \in 0..12
    <3>1. step[p] \in 0..11
      BY <1>6, <1>n DEF MoveGripper
    <3> QED BY <3>1
  <2> QED BY <1>6, <1>t, <2>2, <2>3 DEF MoveGripper, Operation
<1>7. CASE Done(p)
  BY <1>7, <1>r DEF Done, Operation
<1>8. CASE Capture(p)
  <2>1. (Advance(p) \/ Return(p, 1)) /\ UNCHANGED action /\ step[p] \in 0..11
    BY <1>8, <1>n DEF Capture
  <2> QED BY <1>a, <1>r, <2>1 DEF Operation
<1> QED BY <1>1, <1>2, <1>3, <1>4, <1>5, <1>6, <1>7, <1>8 DEF ProgramStep, OwnStep

LEMMA UserType ==
  ASSUME MotionInv, UserCancels \/ \E pose \in UserPoses : UserMoves(pose)
  PROVE  ExamplesTypeOK' /\ Operation
<1>1. CASE UserCancels
  BY <1>1 DEF UserCancels, MotionInv, ExamplesTypeOK, examples, Operation
<1>2. ASSUME NEW pose \in UserPoses, UserMoves(pose) PROVE ExamplesTypeOK' /\ Operation
  <2>1. left - 1 \in 0..UserGoals
    BY <1>2, ExamplesAssumption DEF UserMoves, MotionInv, ExamplesTypeOK
  <2>2. Operation
    BY <1>2, ExamplesAssumption DEF UserMoves, Operation
  <2> QED BY <1>2, <2>1, <2>2 DEF UserMoves, MotionInv, ExamplesTypeOK
<1> QED BY <1>1, <1>2

LEMMA NextTargetType ==
  ASSUME MotionInv, leg \in {"begin", "record"}, NextTarget
  PROVE  /\ leg' \notin {"begin", "end"} => current' \in 1..Len(Targets)
         /\ leg' = "end" => current' \in 0..Len(Targets) + 1
         /\ leg' \in {"end", "via above", "to below"}
         /\ above' = None /\ below' = None
<1>1. Len(Targets) \in Nat
  BY CollectorAssumption
<1>2. /\ leg = "begin" => current = 0
      /\ leg = "record" => current \in 1..Len(Targets)
  BY DEF MotionInv, CollectorInv, CollectorTypeOK
<1>3. current' = current + 1
  BY DEF NextTarget
<1>c. current \in 0..Len(Targets)
  <2> DEFINE n == Len(Targets)
  <2>1. n \in Nat
    BY <1>1
  <2>2. leg = "record" => current \in 1..n
    BY <1>2
  <2> HIDE DEF n
  <2>3. current \in 0..n
    BY <1>2, <2>1, <2>2
  <2> QED BY <2>3 DEF n
<1>4. /\ leg' \in {"end", "via above", "to below"}
      /\ leg' = "end" <=> current = Len(Targets)
      /\ above' = None /\ below' = None
  BY DEF NextTarget
<1>5. CASE current = Len(Targets)
  BY <1>1, <1>c, <1>3, <1>4, <1>5
<1>6. CASE current # Len(Targets)
  <2>1. current + 1 \in 1..Len(Targets)
    BY <1>1, <1>c, <1>6
  <2> QED BY <1>3, <1>4, <1>6, <2>1
<1> QED BY <1>5, <1>6

LEMMA InSeq ==
  ASSUME NEW S
  PROVE  /\ \A q \in Seq(S) : \A i \in DOMAIN q : q[i] \in S
         /\ \A q, r \in Seq(S) : q \o r \in Seq(S)
         /\ <<>> \in Seq(S) /\ \A a \in S : <<a>> \in Seq(S)
         /\ \A a, b \in S : <<a, b>> \in Seq(S)
<1>1. \A q \in Seq(S) : \A i \in DOMAIN q : q[i] \in S
  OBVIOUS
<1>2. \A q, r \in Seq(S) : q \o r \in Seq(S)
  OBVIOUS
<1>3. <<>> \in Seq(S) /\ \A a \in S : <<a>> \in Seq(S)
  OBVIOUS
<1>4. \A a, b \in S : <<a, b>> \in Seq(S)
  OBVIOUS
<1> QED BY <1>1, <1>2, <1>3, <1>4

LEMMA CollectorType ==
  ASSUME MotionInv, CollectorStep
  PROVE  CollectorInv' /\ Operation
<1>t. /\ ActionTypeOK /\ bidirectional \in BOOLEAN
      /\ above \in Samples /\ below \in Samples /\ rows \in Seq(Samples)
      /\ leg = "begin" => current = 0
      /\ current \in (IF leg \in {"begin", "end"} THEN 0..Len(Targets) + 1 ELSE 1..Len(Targets))
      /\ leg \in {"begin", "end", "record", "sample above", "sample below"} \cup DOMAIN After
  BY DEF MotionInv, CollectorInv, CollectorTypeOK
<1>a. /\ DOMAIN After = {"via above", "to above", "via below", "to below"}
      /\ After["via above"] = "to above" /\ After["to above"] = "sample above"
      /\ After["via below"] = "to below" /\ After["to below"] = "sample below"
  BY DEF After
<1>n. Node \in Callers /\ None \in Samples /\ "aside" \in Poses /\ Targets \in Seq(Poses)
  BY CollectorAssumption DEF None, Samples
<1> DEFINE Place(c, l) == IF l \in {"begin", "end"} THEN c \in 0..Len(Targets) + 1
                                                  ELSE c \in 1..Len(Targets)
           Legs == {"begin", "end", "record", "sample above", "sample below"} \cup DOMAIN After
<1>g. ASSUME bidirectional' \in BOOLEAN, above' \in Samples, below' \in Samples,
             rows' \in Seq(Samples), leg' = "begin" => current' = 0,
             Place(current', leg'), leg' \in Legs
      PROVE  CollectorInv'
  <2>1. \A s \in {above', below'} \cup {rows'[i] : i \in DOMAIN rows'} :
          s.at \in Poses \cup {"between", "None"}
    <3>1. \A i \in DOMAIN rows' : rows'[i] \in Samples
      BY <1>g, InSeq
    <3> QED BY <1>g, <3>1 DEF Samples
  <2> QED BY <1>g, <2>1 DEF CollectorInv, CollectorTypeOK
<1>k. Skip(leg) \in {"via below", "record"} /\ "record" \in Legs
  BY <1>a DEF Skip
<1>1. CASE Begin
  <2>1. CASE alive
    BY <1>1, <1>t, <1>a, <1>n, <1>g, <2>1, NextTargetType DEF Begin, Operation
  <2>2. CASE ~alive
    BY <1>1, <1>t, <1>a, <1>g, <2>2 DEF Begin, Operation
  <2> QED BY <2>1, <2>2
<1>2. CASE SendPose
  <2>1. leg \in {"via above", "to above", "via below", "to below"}
    BY <1>2 DEF SendPose, Via, To
  <2>2. CollectorInv'
    BY <1>2, <1>t, <1>g DEF SendPose, collector
  <2>3. current \in 1..Len(Targets)
    BY <1>t, <2>1
  <2>4. Targets[current] \in Poses
    BY <1>n, <2>3
  <2>5. \E pose \in Poses : Send(Node, pose)
    BY <1>2, <1>n, <2>4 DEF SendPose
  <2> QED BY <1>n, <2>2, <2>5 DEF Operation
<1>3. CASE PoseReached
  <2>1. leg \in {"via above", "to above", "via below", "to below"}
    BY <1>3 DEF PoseReached, Via, To
  <2>2. leg' \in Legs /\ leg' \notin {"begin", "end"}
    BY <1>3, <1>a, <1>k, <2>1 DEF PoseReached
  <2>3. CollectorInv'
    BY <1>3, <1>t, <1>g, <2>1, <2>2 DEF PoseReached
  <2> QED BY <1>3, <1>n, <2>3 DEF PoseReached, Operation
<1>4. CASE CollectSample
  <2>1. [at : Averages, side : {leg}, honest : {mover = Node /\ goal[Node] = "succeeded"}]
          \subseteq Samples
    BY <1>4, <1>t DEF CollectSample, ActionTypeOK, Averages, Samples
  <2>2. above' \in Samples /\ below' \in Samples
    BY <1>4, <1>t, <1>n, <2>1 DEF CollectSample
  <2>3. leg' \in Legs /\ leg' \notin {"begin", "end"} /\ leg \notin {"begin", "end"}
    BY <1>4, <1>a, <1>k DEF CollectSample
  <2>4. CollectorInv'
    BY <1>4, <1>t, <1>g, <2>2, <2>3 DEF CollectSample
  <2> QED BY <1>4, <2>4 DEF CollectSample, Operation
<1>5. CASE Record
  <2>1. <<>> \in Seq(Samples) /\ <<above, below>> \in Seq(Samples) /\ <<below>> \in Seq(Samples)
    BY <1>t, InSeq
  <2>2. rows' \in Seq(Samples)
    <3>1. PICK more \in Seq(Samples) : rows' = rows \o more
      BY <1>5, <2>1 DEF Record
    <3> QED BY <1>t, <3>1, InSeq
  <2> QED BY <1>5, <1>t, <1>a, <1>n, <1>g, <2>2, NextTargetType DEF Record, Operation
<1> QED BY <1>1, <1>2, <1>3, <1>4, <1>5 DEF CollectorStep

LEMMA WorkspaceStepType ==
  ASSUME MotionInv, WorkspaceStep
  PROVE  WorkspaceTypeOK' /\ Operation
<1>t. /\ WorkspaceTypeOK /\ arm \in Poses \cup {"between"}
      /\ Position \in [Poses \cup {"between"} -> Int] /\ Clears \in Nat
  BY WorkspaceAssumption DEF MotionInv, ActionTypeOK
<1> USE DEF WorkspaceTypeOK
<1>1. CASE HearTransform
  BY <1>1, <1>t DEF HearTransform, Operation
<1>2. CASE Check
  <2>1. lastState' \in {"ok", "warning", "out_of_bounds"} /\ triggered' \in BOOLEAN
    BY <1>2, <1>t DEF Check, Classify
  <2> QED BY <1>2, <1>t, <2>1 DEF Check, Operation
<1>3. CASE EstopComesUp
  BY <1>3, <1>t DEF EstopComesUp, Operation
<1>4. CASE Trigger
  <2>1. stopped' \in BOOLEAN /\ triggered' = FALSE
    BY <1>4 DEF Trigger
  <2>2. SwitchTo(FALSE) \/ UNCHANGED action
    BY <1>4 DEF Trigger
  <2> QED BY <1>4, <1>t, <2>1, <2>2 DEF Trigger, Operation
<1>5. CASE Clear
  <2>1. clears' \in 0..Clears
    <3>1. clears \in 0..Clears /\ clears < Clears /\ clears' = clears + 1
      BY <1>5, <1>t DEF Clear
    <3>2. Clears \in Nat
      BY <1>t
    <3> HIDE DEF WorkspaceTypeOK
    <3> QED BY <3>1, <3>2
  <2>2. stopped' = FALSE /\ \E on \in BOOLEAN : SwitchTo(on)
    BY <1>5 DEF Clear
  <2> QED BY <1>5, <1>t, <2>1, <2>2 DEF Clear, Operation
<1> QED BY <1>1, <1>2, <1>3, <1>4, <1>5 DEF WorkspaceStep

\* Whoever moves, the trajectory action takes one of its operations or none.
LEMMA EveryStep == MotionInv /\ [Next]_vars => Operation /\ MotionInv'
<1> SUFFICES ASSUME MotionInv, [Next]_vars PROVE Operation /\ MotionInv'
  OBVIOUS
<1>t. ActionTypeOK /\ ExamplesTypeOK /\ CollectorInv /\ WorkspaceTypeOK
  BY DEF MotionInv
<1>e. UNCHANGED examples => ExamplesTypeOK'
  BY <1>t DEF examples, ExamplesTypeOK
<1>c. UNCHANGED collector => CollectorInv'
  BY <1>t DEF collector, CollectorInv, CollectorTypeOK
<1>w. UNCHANGED workspace => WorkspaceTypeOK'
  BY <1>t DEF workspace, WorkspaceTypeOK
<1>g. SUFFICES Operation /\ ExamplesTypeOK' /\ CollectorInv' /\ WorkspaceTypeOK'
  BY <1>t, OperationType DEF MotionInv
<1>1. ASSUME NEW c \in Callers, ControllerStep(c) \/ Callback(c),
             UNCHANGED <<examples, collector, workspace>>
      PROVE  Operation /\ ExamplesTypeOK' /\ CollectorInv' /\ WorkspaceTypeOK'
  BY <1>1, <1>e, <1>c, <1>w DEF Operation
<1>2. CASE Crash /\ UNCHANGED <<examples, collector, workspace>>
  BY <1>2, <1>e, <1>c, <1>w DEF Operation
<1>3. ASSUME NEW p \in Examples, ProgramStep(p), UNCHANGED <<collector, workspace>>
      PROVE  Operation /\ ExamplesTypeOK' /\ CollectorInv' /\ WorkspaceTypeOK'
  BY <1>3, <1>c, <1>w, ProgramType
<1>4. CASE /\ UserCancels \/ \E pose \in UserPoses : UserMoves(pose)
           /\ UNCHANGED <<collector, workspace>>
  BY <1>4, <1>c, <1>w, UserType
<1>5. CASE CollectorStep /\ UNCHANGED <<examples, workspace>>
  BY <1>5, <1>e, <1>w, CollectorType
<1>6. CASE WorkspaceStep /\ UNCHANGED <<examples, collector>>
  BY <1>6, <1>e, <1>c, WorkspaceStepType
<1>7. CASE UNCHANGED vars
  BY <1>7, <1>e, <1>c, <1>w DEF vars, Operation
<1> QED BY <1>1, <1>2, <1>3, <1>4, <1>5, <1>6, <1>7 DEF Next

(***************************************************************************)
(* Everything that takes part in a motion keeps its types.                 *)
(***************************************************************************)
THEOREM MotionType == Spec => []TypeOK
<1>1. Init => MotionInv
  BY InitInv
<1>2. MotionInv /\ [Next]_vars => MotionInv'
  BY EveryStep
<1>3. MotionInv => TypeOK
  BY DEF MotionInv, CollectorInv, TypeOK
<1> QED BY <1>1, <1>2, <1>3, PTL DEF Spec

-----------------------------------------------------------------------------
(***************************************************************************)
(* The verdicts.  Only one goal is executing, and it was accepted last; a  *)
(* result that says SUCCESSFUL is of a goal that was reached, or canceled  *)
(* because its caller asked.                                               *)
(***************************************************************************)
OneMover ==
  \A c \in Callers :
    /\ goal[c] = "executing" => mover = c
    /\ goal[c] = "succeeded" /\ mover = c => arm = target[c]

LEMMA VerdictInit == ActionInit => VerdictInv /\ OneMover
BY DEF ActionInit, VerdictInv, OneMover

LEMMA VerdictNext == ActionTypeOK /\ VerdictInv /\ OneMover /\ Operation => VerdictInv' /\ OneMover'
<1> SUFFICES ASSUME ActionTypeOK, VerdictInv, OneMover, Operation
             PROVE  VerdictInv' /\ OneMover'
  OBVIOUS
<1> USE DEF ActionTypeOK, VerdictInv, OneMover
<1>1. ASSUME NEW c \in Callers, Accept(c) PROVE VerdictInv' /\ OneMover'
  BY <1>1 DEF Accept, client, Executing
<1>2. ASSUME NEW c \in Callers, Reject(c) PROVE VerdictInv' /\ OneMover'
  BY <1>2 DEF Reject, client
<1>3. ASSUME NEW c \in Callers, Reach(c) PROVE VerdictInv' /\ OneMover'
  BY <1>3 DEF Reach, Ended, client
<1>4. ASSUME NEW c \in Callers, Abort(c) PROVE VerdictInv' /\ OneMover'
  BY <1>4 DEF Abort, Ended, client
<1>5. ASSUME NEW c \in Callers, CarryOutCancel(c) PROVE VerdictInv' /\ OneMover'
  BY <1>5 DEF CarryOutCancel, Ended, client
<1>6. ASSUME NEW c \in Callers, OnGoalResponse(c) \/ OnResult(c) PROVE VerdictInv' /\ OneMover'
  BY <1>6 DEF OnGoalResponse, OnResult
<1>7. ASSUME NEW c \in Callers, Forget(c) PROVE VerdictInv' /\ OneMover'
  BY <1>7 DEF Forget, server
<1>8. ASSUME NEW c \in Callers, NEW pose \in Poses, Send(c, pose) PROVE VerdictInv' /\ OneMover'
  BY <1>8 DEF Send
<1>9. CASE Cancel(User)
  BY <1>9, UserIsCaller DEF Cancel, server, client
<1>10. CASE Crash
  BY <1>10 DEF Crash, server, client
<1>11. ASSUME NEW on \in BOOLEAN, SwitchTo(on) PROVE VerdictInv' /\ OneMover'
  <2>1. CASE on
    BY <1>11, <2>1 DEF SwitchTo, client
  <2>2. CASE ~on
    BY <1>11, <2>2 DEF SwitchTo, Ended, Executing, client
  <2> QED BY <2>1, <2>2
<1>12. CASE UNCHANGED action
  BY <1>12 DEF action, server, client
<1> QED
  BY <1>1, <1>2, <1>3, <1>4, <1>5, <1>6, <1>7, <1>8, <1>9, <1>10, <1>11, <1>12
  DEF Operation, ControllerStep, Callback

(***************************************************************************)
(* A handle that reports success tells the truth, or its caller canceled.  *)
(***************************************************************************)
THEOREM VerdictsAreTrue == Spec => []VerdictsTrue
<1>1. Init => MotionInv /\ VerdictInv /\ OneMover
  BY InitInv, VerdictInit DEF Init
<1>2. (MotionInv /\ VerdictInv /\ OneMover) /\ [Next]_vars
        => (MotionInv /\ VerdictInv /\ OneMover)'
  BY EveryStep, VerdictNext DEF MotionInv
<1>3. VerdictInv => VerdictsTrue
  BY DEF VerdictInv, VerdictsTrue
<1> QED BY <1>1, <1>2, <1>3, PTL DEF Spec

-----------------------------------------------------------------------------
(***************************************************************************)
(* The programs.  What others do leaves a program's goal alone, but may    *)
(* end it while it executes.                                               *)
(***************************************************************************)
LeftAlone(p) ==
  /\ UNCHANGED <<job, step[p], exit[p], target[p], asked[p]>>
  /\ handle'[p] = "none" <=> handle[p] = "none"
  /\ goal[p] \in {"none", "succeeded"} => goal'[p] = goal[p]
  /\ goal'[p] = "sent" => goal[p] = "sent"

LEMMA QuietOperation ==
  ASSUME ActionTypeOK, NEW p \in Examples, UNCHANGED <<job, step[p], exit[p]>>,
         \/ \E c \in Callers : ControllerStep(c) \/ Callback(c)
         \/ \E c \in Callers \ {p} : Forget(c) \/ \E pose \in Poses : Send(c, pose)
         \/ Cancel(User)
         \/ Crash
         \/ \E on \in BOOLEAN : SwitchTo(on)
         \/ UNCHANGED action
  PROVE  LeftAlone(p)
<1> USE UserIsCaller DEF ActionTypeOK, LeftAlone
<1>1. ASSUME NEW c \in Callers, Accept(c) PROVE LeftAlone(p)
  BY <1>1 DEF Accept, client, Executing
<1>2. ASSUME NEW c \in Callers, Reject(c) PROVE LeftAlone(p)
  BY <1>2 DEF Reject, client
<1>3. ASSUME NEW c \in Callers, Reach(c) \/ Abort(c) \/ CarryOutCancel(c) PROVE LeftAlone(p)
  BY <1>3 DEF Reach, Abort, CarryOutCancel, Ended, client
<1>4. ASSUME NEW c \in Callers, OnGoalResponse(c) \/ OnResult(c) PROVE LeftAlone(p)
  BY <1>4 DEF OnGoalResponse, OnResult
<1>5. ASSUME NEW c \in Callers \ {p}, Forget(c) PROVE LeftAlone(p)
  BY <1>5 DEF Forget, server
<1>6. ASSUME NEW c \in Callers \ {p}, NEW pose \in Poses, Send(c, pose) PROVE LeftAlone(p)
  BY <1>6 DEF Send
<1>7. CASE Cancel(User)
  BY <1>7 DEF Cancel, server, client
<1>8. CASE Crash
  BY <1>8 DEF Crash, server, client
<1>9. ASSUME NEW on \in BOOLEAN, SwitchTo(on) PROVE LeftAlone(p)
  <2>1. CASE on
    BY <1>9, <2>1 DEF SwitchTo, client
  <2>2. CASE ~on
    BY <1>9, <2>2 DEF SwitchTo, Ended, Executing, client
  <2> QED BY <2>1, <2>2
<1>10. CASE UNCHANGED action
  BY <1>10 DEF action, server, client
<1> QED
  BY <1>1, <1>2, <1>3, <1>4, <1>5, <1>6, <1>7, <1>8, <1>9, <1>10 DEF ControllerStep, Callback

\* Nobody but the program itself works on its goal.
LEMMA OnlyItself ==
  ASSUME MotionInv, [Next]_vars, NEW p \in Examples
  PROVE  ProgramStep(p) \/ LeftAlone(p)
<1>t. /\ ActionTypeOK /\ ExamplesTypeOK /\ CollectorInv
      /\ p \in Callers /\ p # User /\ p # Node /\ User \in Callers /\ Node \in Callers
  BY UserIsCaller, CollectorAssumption, MotionAssumption DEF MotionInv
<1>e. UNCHANGED examples => UNCHANGED <<job, step[p], exit[p]>>
  BY DEF examples
<1>1. ASSUME NEW c \in Callers, ControllerStep(c) \/ Callback(c), UNCHANGED examples
      PROVE  LeftAlone(p)
  BY <1>1, <1>t, <1>e, QuietOperation
<1>2. CASE Crash /\ UNCHANGED examples
  BY <1>2, <1>t, <1>e, QuietOperation
<1>3. ASSUME NEW q \in Examples, q # p, ProgramStep(q) PROVE LeftAlone(p)
  <2>1. UNCHANGED <<job, step[p], exit[p]>>
    BY <1>3, <1>t DEF ExamplesTypeOK, ProgramStep, OwnStep, Capture, SeeJointState, NoJointState, SendMove, WaitOver,
         WaitElapses, MoveGripper, Done, Return, Advance, examples
  <2>2. \/ UNCHANGED action \/ Forget(q)
        \/ \E pose \in Poses : Send(q, pose)
    <3>1. CASE SendMove(q)
      <4>1. job[q] \in Jobs /\ Current(q) = Script(job[q])[step[q]]
            /\ step[q] \in 1..Len(Script(job[q])) /\ Script(job[q])[step[q]].do = "move"
        BY <3>1, <1>t DEF ExamplesTypeOK, SendMove, AtStep, Current
      <4>2. Current(q).to \in Poses
        BY <4>1, Scripts
      <4> QED BY <3>1, <4>2 DEF SendMove
    <3>2. CASE ~SendMove(q)
      BY <1>3, <3>2 DEF ProgramStep, OwnStep, Capture, SeeJointState, NoJointState, WaitOver, WaitElapses,
         MoveGripper, Done
    <3> QED BY <3>1, <3>2
  <2> QED BY <1>3, <1>t, <2>1, <2>2, QuietOperation, ExamplesAssumption
<1>4. CASE UserCancels
  BY <1>4, <1>t, <1>e, QuietOperation DEF UserCancels
<1>5. ASSUME NEW pose \in UserPoses, UserMoves(pose) PROVE LeftAlone(p)
  BY <1>5, <1>t, QuietOperation, ExamplesAssumption DEF UserMoves
<1>6. CASE CollectorStep /\ UNCHANGED examples
  <2>1. \/ UNCHANGED action \/ Forget(Node)
        \/ \E pose \in Poses : Send(Node, pose)
    <3>1. CASE SendPose
      <4>1. leg \in {"via above", "to above", "via below", "to below"}
        BY <3>1 DEF SendPose, Via, To
      <4>2. current \in 1..Len(Targets) /\ Targets \in Seq(Poses) /\ "aside" \in Poses
        BY <1>t, <4>1, CollectorAssumption DEF CollectorInv, CollectorTypeOK
      <4>3. Targets[current] \in Poses
        BY <4>2
      <4> QED BY <3>1, <4>2, <4>3 DEF SendPose
    <3>2. CASE ~SendPose
      BY <1>6, <3>2 DEF CollectorStep, Begin, PoseReached, CollectSample, Record
    <3> QED BY <3>1, <3>2
  <2> QED BY <1>6, <1>t, <1>e, <2>1, QuietOperation
<1>7. CASE WorkspaceStep /\ UNCHANGED examples
  <2>1. UNCHANGED action \/ \E on \in BOOLEAN : SwitchTo(on)
    BY <1>7 DEF WorkspaceStep, HearTransform, Check, EstopComesUp, Trigger, Clear
  <2> QED BY <1>7, <1>t, <1>e, <2>1, QuietOperation
<1>8. CASE UNCHANGED vars
  BY <1>8, <1>t, <1>e, QuietOperation DEF vars
<1> QED
  BY <1>1, <1>2, <1>3, <1>4, <1>5, <1>6, <1>7, <1>8 DEF Next

-----------------------------------------------------------------------------
(***************************************************************************)
(* A program that is about to send has had its last goal succeed; one at   *)
(* its gripper had it succeed where the step before sends it.              *)
(***************************************************************************)
ProgramInv(p) ==
  /\ ~asked[p]
  /\ Running(p) /\ handle[p] # "none" => AtStep(p, "move") /\ target[p] = Current(p).to
  /\ Running(p) /\ handle[p] = "none" /\ step[p] <= Len(Script(job[p]))
       => goal[p] \in {"none", "succeeded"}
  /\ AtStep(p, "grip") => goal[p] = "succeeded" /\ target[p] = Script(job[p])[step[p] - 1].to

ProgramsInv == \A p \in Examples : ProgramInv(p)

LEMMA ProgramsInit == Init => ProgramsInv
<1> SUFFICES ASSUME Init, NEW p \in Examples PROVE ProgramInv(p)
  BY DEF ProgramsInv
<1>1. p \in Callers /\ step[p] = 0
  BY ExamplesAssumption DEF Init, ExamplesInit
<1> QED BY <1>1 DEF Init, ActionInit, ProgramInv, AtStep

LEMMA AloneKeeps ==
  ASSUME MotionInv, NEW p \in Examples, ProgramInv(p), LeftAlone(p)
  PROVE  ProgramInv(p)'
BY DEF LeftAlone, ProgramInv, Running, AtStep, Current

LEMMA StepKeeps ==
  ASSUME MotionInv, VerdictInv, NEW p \in Examples, ProgramInv(p), ProgramStep(p)
  PROVE  ProgramInv(p)'
<1>t. /\ ActionTypeOK /\ ExamplesTypeOK /\ p \in Callers /\ job[p] \in Jobs /\ step[p] \in 0..12
      /\ exit[p] \in -1..2
  BY ExamplesAssumption DEF MotionInv, ExamplesTypeOK
<1> DEFINE n == Len(Script(job[p]))
           S == Script(job[p])
<1>s. /\ n \in 1..11
      /\ \A k \in 1..n :
           /\ S[k].do = "grip" => k - 1 \in 1..n /\ S[k - 1].do = "move" /\ S[k - 1].checked
           /\ ~S[k].checked => k = n
  BY <1>t, Scripts
<1>j. ASSUME UNCHANGED job PROVE Script(job[p])' = S /\ Len(Script(job[p]))' = n
  BY <1>j
<1>r. ASSUME NEW code \in 0..2, Return(p, code), UNCHANGED action PROVE ProgramInv(p)'
  <2>1. exit'[p] = code /\ ~Running(p)' /\ UNCHANGED asked
    BY <1>r, <1>t DEF Return, ExamplesTypeOK, Running, action
  <2> QED BY <2>1 DEF ProgramInv, AtStep
<1>f. ASSUME Advance(p), Forget(p), AtStep(p, "move"),
             goal[p] = "succeeded" \/ step[p] = n, target[p] = Current(p).to
      PROVE  ProgramInv(p)'
  <2>1. /\ step'[p] = step[p] + 1 /\ handle'[p] = "none" /\ UNCHANGED <<job, exit, goal, target, asked>>
    BY <1>f, <1>t DEF Advance, Forget, server, ExamplesTypeOK, ActionTypeOK
  <2>2. step[p] \in 1..n /\ S[step[p]].do = "move" /\ target[p] = S[step[p]].to
    BY <1>f DEF AtStep, Current
  <2>3. step'[p] \in Int /\ step'[p] - 1 = step[p] /\ (step'[p] <= n => step[p] # n)
    BY <1>s, <2>1, <2>2
  <2>4. AtStep(p, "grip")' => goal'[p] = "succeeded" /\ target'[p] = S[step'[p] - 1].to
    <3> SUFFICES ASSUME AtStep(p, "grip")' PROVE goal'[p] = "succeeded" /\ target'[p] = S[step'[p] - 1].to
      OBVIOUS
    <3>1. step'[p] \in 1..n
      BY <2>1 DEF AtStep
    <3> QED BY <1>f, <1>s, <2>1, <2>2, <2>3, <3>1
  <2> QED BY <1>f, <2>1, <2>3, <2>4 DEF ProgramInv
<1>1. CASE SeeJointState(p)
  <2>1. step'[p] = 1 /\ UNCHANGED <<job, exit, action>>
    BY <1>1, <1>t DEF SeeJointState, Advance, ExamplesTypeOK
  <2>2. handle[p] = "none"
    BY <1>1 DEF ProgramInv, SeeJointState, AtStep
  <2>3. ~AtStep(p, "grip")'
    <3>1. S[1].do # "grip"
      BY <1>s
    <3> QED BY <2>1, <3>1 DEF AtStep
  <2>4. goal[p] \in {"none", "succeeded"}
    BY <1>1, <1>s, <2>2 DEF ProgramInv, SeeJointState
  <2> QED BY <2>1, <2>2, <2>3, <2>4 DEF ProgramInv, action, server, client
<1>2. CASE NoJointState(p)
  BY <1>2, <1>r DEF NoJointState
<1>3. CASE SendMove(p)
  <2>1. CASE alive
    <3>1. Send(p, Current(p).to) /\ UNCHANGED examples /\ AtStep(p, "move")
      BY <1>3, <2>1 DEF SendMove
    <3>2. /\ handle'[p] = "sent" /\ target'[p] = Current(p).to /\ ~asked'[p]
          /\ UNCHANGED <<job, step, exit>>
      BY <1>t, <3>1 DEF Send, ActionTypeOK, examples
    <3>3. AtStep(p, "move")' /\ ~AtStep(p, "grip")' /\ Current(p)' = Current(p)
      BY <3>1, <3>2 DEF AtStep, Current, Running
    <3> QED BY <3>2, <3>3 DEF ProgramInv
  <2>2. CASE ~alive
    BY <1>3, <1>r, <2>2 DEF SendMove
  <2> QED BY <2>1, <2>2
<1>4. CASE WaitOver(p)
  <2>1. CASE Return(p, 2) /\ UNCHANGED action
    BY <1>r, <2>1
  <2>2. CASE Advance(p) /\ Forget(p) /\ (WaitReturns(p) \/ ~Current(p).checked)
    <3>1. AtStep(p, "move") /\ target[p] = Current(p).to
      BY <1>4 DEF WaitOver, ProgramInv, AtStep
    <3>2. WaitReturns(p) => goal[p] = "succeeded"
      BY <1>t DEF WaitReturns, VerdictInv, ProgramInv
    <3>3. ~Current(p).checked => step[p] = n
      BY <1>s, <3>1 DEF AtStep, Current
    <3> QED BY <1>f, <2>2, <3>1, <3>2, <3>3
  <2> QED BY <1>4, <2>1, <2>2 DEF WaitOver
<1>5. CASE WaitElapses(p)
  <2>1. CASE Return(p, 2) /\ UNCHANGED action
    BY <1>r, <2>1
  <2>2. CASE Advance(p) /\ Forget(p) /\ ~Current(p).checked
    <3>1. AtStep(p, "move") /\ target[p] = Current(p).to
      BY <1>5 DEF WaitElapses, ProgramInv, AtStep
    <3>2. step[p] = n
      BY <1>s, <2>2, <3>1 DEF AtStep, Current
    <3> QED BY <1>f, <2>2, <3>1, <3>2
  <2> QED BY <1>5, <2>1, <2>2 DEF WaitElapses
<1>6. CASE MoveGripper(p)
  <2>1. /\ AtStep(p, "grip") /\ step'[p] = step[p] + 1 /\ UNCHANGED <<job, exit, action>>
    BY <1>6, <1>t DEF MoveGripper, ExamplesTypeOK
  <2>2. step[p] \in 1..n /\ S[step[p]].do = "grip" /\ Running(p)
    BY <2>1 DEF AtStep
  <2>3. handle[p] = "none" /\ goal[p] = "succeeded"
    BY <2>1, <2>2 DEF ProgramInv, AtStep
  <2>4. step'[p] - 1 = step[p]
    BY <2>1, <2>2
  <2>5. ~AtStep(p, "grip")'
    <3>1. ASSUME AtStep(p, "grip")' PROVE FALSE
      <4>1. step'[p] \in 1..n /\ S[step'[p]].do = "grip"
        BY <2>1, <3>1 DEF AtStep
      <4> QED BY <1>s, <2>2, <2>4, <4>1
    <3> QED BY <3>1
  <2> QED BY <2>1, <2>3, <2>5 DEF ProgramInv, action, server, client
<1>7. CASE Done(p)
  BY <1>7, <1>r DEF Done
<1>8. CASE Capture(p)
  <2>1. CASE Return(p, 1) /\ UNCHANGED action
    BY <1>r, <2>1
  <2>2. CASE Advance(p) /\ UNCHANGED action
    <3>1. AtStep(p, "prompt") /\ step'[p] = step[p] + 1 /\ UNCHANGED <<job, exit, action>>
      BY <1>8, <1>t, <2>2 DEF Capture, Advance, ExamplesTypeOK
    <3>2. step[p] \in 1..n /\ S[step[p]].do = "prompt" /\ Running(p)
      BY <3>1 DEF AtStep
    <3>3. handle[p] = "none" /\ goal[p] \in {"none", "succeeded"}
      BY <1>s, <3>1, <3>2 DEF ProgramInv, AtStep
    <3>4. ~AtStep(p, "grip")'
      <4>1. ASSUME AtStep(p, "grip")' PROVE FALSE
        <5>1. step'[p] \in 1..n /\ S[step'[p]].do = "grip" /\ step'[p] - 1 = step[p]
          BY <1>t, <3>1, <3>2, <4>1 DEF AtStep
        <5> QED BY <1>s, <3>2, <5>1
      <4> QED BY <4>1
    <3> QED BY <3>1, <3>3, <3>4 DEF ProgramInv, action, server, client
  <2> QED BY <1>8, <2>1, <2>2 DEF Capture
<1> QED BY <1>1, <1>2, <1>3, <1>4, <1>5, <1>6, <1>7, <1>8 DEF ProgramStep, OwnStep

-----------------------------------------------------------------------------
MotionSafe == MotionInv /\ VerdictInv /\ OneMover /\ ProgramsInv

LEMMA MotionIsSafe == Spec => []MotionSafe
<1>1. Init => MotionSafe
  BY InitInv, VerdictInit, ProgramsInit DEF Init, MotionSafe
<1>2. MotionSafe /\ [Next]_vars => MotionSafe'
  <2> SUFFICES ASSUME MotionSafe, [Next]_vars PROVE MotionSafe'
    OBVIOUS
  <2>1. MotionInv' /\ VerdictInv' /\ OneMover'
    BY EveryStep, VerdictNext DEF MotionSafe, MotionInv
  <2>2. ASSUME NEW p \in Examples PROVE ProgramInv(p)'
    BY <2>2, OnlyItself, AloneKeeps, StepKeeps DEF MotionSafe, ProgramsInv
  <2> QED BY <2>1, <2>2 DEF MotionSafe, ProgramsInv
<1> QED BY <1>1, <1>2, PTL DEF Spec

(***************************************************************************)
(* One goal at a time is carried out, and the arm is where the last goal   *)
(* of its last mover sent it, if that goal succeeded.                      *)
(***************************************************************************)
THEOREM OneMovesAtATime ==
  Spec => [](/\ \A c, d \in Callers : goal[c] = "executing" /\ goal[d] = "executing" => c = d
             /\ mover \in Callers /\ goal[mover] = "succeeded" => arm = target[mover])
<1>1. MotionSafe => /\ \A c, d \in Callers : goal[c] = "executing" /\ goal[d] = "executing" => c = d
                    /\ mover \in Callers /\ goal[mover] = "succeeded" => arm = target[mover]
  BY DEF MotionSafe, OneMover
<1> QED BY <1>1, MotionIsSafe, PTL

(***************************************************************************)
(* A program whose trajectory was cut short does not send another one.     *)
(***************************************************************************)
THEOREM CutEndsProgram == Spec => CutMeansEnd
<1>1. ASSUME MotionSafe, [Next]_vars, NEW p \in Examples, goal[p] \in Failed
      PROVE  goal'[p] # "sent"
  <2>t. MotionInv /\ ProgramInv(p) /\ ActionTypeOK /\ p \in Callers /\ goal[p] # "sent"
        /\ goal[p] \notin {"none", "succeeded"}
    BY <1>1, ExamplesAssumption DEF MotionSafe, ProgramsInv, MotionInv, Failed
  <2>1. CASE LeftAlone(p)
    BY <2>t, <2>1 DEF LeftAlone
  <2>2. CASE ProgramStep(p)
    <3>1. CASE SendMove(p) /\ alive
      <4>1. AtStep(p, "move") /\ handle[p] = "none"
        BY <3>1 DEF SendMove
      <4>2. Running(p) /\ step[p] <= Len(Script(job[p]))
        <5>1. job[p] \in Jobs
          BY <2>t DEF MotionInv, ExamplesTypeOK
        <5>2. Len(Script(job[p])) \in 1..11
          BY <5>1, Scripts
        <5> QED BY <4>1, <5>2 DEF AtStep
      <4> QED BY <2>t, <4>1, <4>2 DEF ProgramInv
    <3>2. CASE ~(SendMove(p) /\ alive)
      <4>1. UNCHANGED goal
        BY <2>2, <3>2 DEF ProgramStep, OwnStep, Capture, SeeJointState, NoJointState, SendMove, WaitOver, WaitElapses,
           MoveGripper, Done, Forget, action, server
      <4> QED BY <2>t, <4>1
    <3> QED BY <3>1, <3>2
  <2> QED BY <1>1, <2>t, <2>1, <2>2, OnlyItself
<1>2. MotionSafe /\ [Next]_vars
        => [\A p \in Examples : goal[p] \in Failed => goal'[p] # "sent"]_<<action, examples>>
  BY <1>1
<1> QED BY <1>2, MotionIsSafe, PTL DEF Spec, CutMeansEnd

(***************************************************************************)
(* The gripper moves only where its program sent the arm, unless another   *)
(* program moved it since.                                                 *)
(***************************************************************************)
THEOREM GripsInPlace == Spec => GripperInPlace
<1>1. ASSUME MotionSafe, NEW p \in Examples, AtStep(p, "grip")
      PROVE  mover # p \/ arm = Script(job[p])[step[p] - 1].to
  <2>1. p \in Callers /\ ProgramInv(p)
    BY <1>1, ExamplesAssumption DEF MotionSafe, ProgramsInv
  <2>2. goal[p] = "succeeded" /\ target[p] = Script(job[p])[step[p] - 1].to
    BY <1>1, <2>1 DEF ProgramInv
  <2> QED BY <1>1, <2>1, <2>2 DEF MotionSafe, OneMover
<1>2. MotionSafe /\ [Next]_vars
        => [\A p \in Examples : AtStep(p, "grip") /\ gripper' # gripper /\ step'[p] # step[p] =>
              mover # p \/ arm = Script(job[p])[step[p] - 1].to]_<<action, examples>>
  BY <1>1
<1> QED BY <1>2, MotionIsSafe, PTL DEF Spec, GripperInPlace

-----------------------------------------------------------------------------
(***************************************************************************)
(* The collector.  Nobody but itself sends or drops its goal, so that      *)
(* while it takes a sample its last goal is the target it is at; a sample  *)
(* that is honest was then taken at this target.                           *)
(***************************************************************************)
LEMMA NodeSpared ==
  ASSUME MotionInv, [Next]_vars, ~CollectorStep
  PROVE  /\ UNCHANGED <<collector, target[Node]>>
         /\ handle'[Node] = "none" <=> handle[Node] = "none"
<1> DEFINE Spared == target'[Node] = target[Node] /\ (handle'[Node] = "none" <=> handle[Node] = "none")
<1>n. /\ ActionTypeOK /\ ExamplesTypeOK /\ Node \in Callers
      /\ Node # User /\ Node \notin Examples /\ User \in Callers /\ Examples \subseteq Callers
  BY UserIsCaller, CollectorAssumption, MotionAssumption DEF MotionInv
<1> USE <1>n DEF ActionTypeOK
<1>s. ASSUME NEW c \in Callers, c # Node, Forget(c) \/ \E pose : Send(c, pose) PROVE Spared
  BY <1>s DEF Forget, Send, server
<1>u. UNCHANGED action => Spared
  BY DEF action, server, client
<1>1. Spared
  <2>1. ASSUME NEW c \in Callers, ControllerStep(c) \/ Callback(c) PROVE Spared
    <3>1. CASE Accept(c) \/ Reject(c) \/ Reach(c) \/ Abort(c) \/ CarryOutCancel(c)
      BY <3>1 DEF Accept, Reject, Reach, Abort, CarryOutCancel, client
    <3>2. CASE OnGoalResponse(c) \/ OnResult(c)
      BY <3>2 DEF OnGoalResponse, OnResult
    <3> QED BY <2>1, <3>1, <3>2 DEF ControllerStep, Callback
  <2>2. CASE Crash
    BY <2>2 DEF Crash, server, client
  <2>3. ASSUME NEW p \in Examples, ProgramStep(p) PROVE Spared
    <3>1. UNCHANGED action \/ Forget(p) \/ \E pose : Send(p, pose)
      BY <2>3 DEF ProgramStep, OwnStep, Capture, SeeJointState, NoJointState, SendMove, WaitOver, WaitElapses,
         MoveGripper, Done
    <3> QED BY <1>s, <1>u, <3>1
  <2>4. CASE UserCancels
    BY <2>4 DEF UserCancels, Cancel, server, client
  <2>5. ASSUME NEW pose \in UserPoses, UserMoves(pose) PROVE Spared
    BY <2>5, <1>s DEF UserMoves
  <2>6. CASE WorkspaceStep
    <3>1. UNCHANGED action \/ \E on : SwitchTo(on)
      BY <2>6 DEF WorkspaceStep, HearTransform, Check, EstopComesUp, Trigger, Clear
    <3> QED BY <1>u, <3>1 DEF SwitchTo, client
  <2>7. CASE UNCHANGED vars
    BY <2>7, <1>u DEF vars
  <2> QED BY <2>1, <2>2, <2>3, <2>4, <2>5, <2>6, <2>7 DEF Next
<1>2. UNCHANGED collector
  BY DEF Next, vars
<1> QED BY <1>1, <1>2

Sampling == {"sample above", "sample below"}

AimInv ==
  /\ ~(Via(leg) \/ To(leg)) => handle[Node] = "none"
  /\ leg \in Sampling \/ (To(leg) /\ handle[Node] # "none") => target[Node] = Targets[current]

LEMMA AimInit == Init => AimInv
BY CollectorAssumption DEF Init, CollectorInit, ActionInit, AimInv, Sampling, Via, To

LEMMA AimStep ==
  ASSUME MotionInv, AimInv, [Next]_vars
  PROVE  AimInv'
<1>n. /\ ActionTypeOK /\ Node \in Callers
      /\ leg \in {"begin", "end", "record", "sample above", "sample below"} \cup DOMAIN After
  BY CollectorAssumption DEF MotionInv, CollectorInv, CollectorTypeOK
<1>a. /\ DOMAIN After = {"via above", "to above", "via below", "to below"}
      /\ After["via above"] = "to above" /\ After["to above"] = "sample above"
      /\ After["via below"] = "to below" /\ After["to below"] = "sample below"
  BY DEF After
<1> USE DEF AimInv, Sampling, Via, To
<1>1. CASE ~CollectorStep
  BY <1>1, NodeSpared DEF collector
<1>2. CASE Begin \/ Record
  <2>1. leg' \in {"end", "via above", "to below"} /\ UNCHANGED handle /\ handle[Node] = "none"
    BY <1>2 DEF Begin, Record, NextTarget, action, client
  <2> QED BY <2>1
<1>3. CASE SendPose
  <2>1. handle'[Node] = "sent" /\ UNCHANGED <<leg, current>>
        /\ target'[Node] = IF Via(leg) THEN "aside" ELSE Targets[current]
    BY <1>3, <1>n DEF SendPose, Send, ActionTypeOK, collector
  <2> QED BY <1>3, <2>1 DEF SendPose
<1>4. CASE PoseReached
  <2>1. handle'[Node] = "none" /\ UNCHANGED <<current, target>>
    BY <1>4, <1>n DEF PoseReached, Forget, ActionTypeOK
  <2>2. /\ leg' \in {Skip(leg), After[leg]} /\ handle[Node] # "none"
        /\ leg \in {"via above", "to above", "via below", "to below"}
    BY <1>4 DEF PoseReached
  <2>3. Skip(leg) \in {"via below", "record"}
    BY DEF Skip
  <2> QED BY <1>a, <2>1, <2>2, <2>3
<1>5. CASE CollectSample
  <2>1. leg' \in {"via below", "record"} /\ UNCHANGED handle /\ handle[Node] = "none"
    BY <1>5 DEF CollectSample, Skip, action, client
  <2> QED BY <2>1
<1> QED BY <1>1, <1>2, <1>3, <1>4, <1>5 DEF CollectorStep

\* What the two samples of this target say.
SamplesInv ==
  /\ above # None => above.side = "sample above"
  /\ below # None => below.side = "sample below"
  /\ \A s \in {above, below} : s.honest => s.at = Targets[current]

\* What the file says: two sides of one target, or targets passed so far.
TwoSides(a, b) ==
  /\ a.side = "sample above" /\ b.side = "sample below"
  /\ a.honest /\ b.honest => a.at = b.at

PairsInv ==
  bidirectional =>
    \E n \in Nat : /\ Len(rows) = 2 * n
                   /\ \A k \in 1..n : TwoSides(rows[2 * k - 1], rows[2 * k])

DistinctTargets == \A i, j \in 1..Len(Targets) : i # j => Targets[i] # Targets[j]

SinglesInv ==
  ~bidirectional =>
    /\ \A i \in 1..Len(rows) :
         rows[i].honest => \E m \in 1..Len(Targets) : m < current /\ rows[i].at = Targets[m]
    /\ \A i, j \in 1..Len(rows) :
         i # j /\ rows[i].honest /\ rows[j].honest => rows[i].at # rows[j].at

FileInv == SamplesInv /\ PairsInv /\ SinglesInv

LEMMA FileInit == Init => FileInv
<1> SUFFICES ASSUME Init PROVE FileInv
  OBVIOUS
<1>1. rows = <<>> /\ above = None /\ below = None
  BY DEF Init, CollectorInit
<1>2. SamplesInv
  BY <1>1 DEF SamplesInv, None
<1>3. Len(rows) = 2 * 0 /\ 1..0 = {} /\ 1..Len(rows) = {}
  BY <1>1
<1> QED BY <1>2, <1>3 DEF FileInv, PairsInv, SinglesInv

LEMMA SamplesStep ==
  ASSUME MotionInv, OneMover, AimInv, SamplesInv, [Next]_vars
  PROVE  SamplesInv'
<1>n. Node \in Callers /\ None.honest = FALSE
  BY CollectorAssumption DEF None
<1> USE DEF SamplesInv
<1>1. CASE ~CollectorStep
  BY <1>1, NodeSpared DEF collector
<1>2. CASE Begin \/ Record
  <2>1. (above' = None /\ below' = None) \/ UNCHANGED <<current, above, below>>
    BY <1>2 DEF Begin, Record, NextTarget
  <2> QED BY <1>n, <2>1
<1>3. CASE SendPose \/ PoseReached
  BY <1>3 DEF SendPose, PoseReached, collector
<1>4. CASE CollectSample
  <2> DEFINE S == [at : Averages, side : {leg},
                   honest : {mover = Node /\ goal[Node] = "succeeded"}]
  <2>1. \A s \in S : s.side = leg /\ (s.honest => s.at = Targets[current])
    BY <1>4, <1>n DEF CollectSample, AimInv, Sampling, OneMover, Averages
  <2>2. PICK s \in {None} \cup S :
          /\ UNCHANGED current
          /\ \/ leg = "sample above" /\ above' = s /\ UNCHANGED below
             \/ leg = "sample below" /\ below' = s /\ UNCHANGED above
    BY <1>4 DEF CollectSample
  <2>3. s = None \/ (s.side = leg /\ (s.honest => s.at = Targets[current]))
    BY <2>1
  <2> QED BY <1>n, <2>2, <2>3
<1> QED BY <1>1, <1>2, <1>3, <1>4 DEF CollectorStep

\* What a step adds to the file.
LEMMA Recorded ==
  ASSUME MotionInv, [Next]_vars
  PROVE  /\ UNCHANGED bidirectional
         /\ current \in Nat /\ current' \in Nat /\ current' >= current
         /\ \/ UNCHANGED rows
            \/ /\ current \in 1..Len(Targets) /\ current' = current + 1
               /\ bidirectional /\ above # None /\ below # None
               /\ rows' = rows \o <<above, below>>
            \/ /\ current \in 1..Len(Targets) /\ current' = current + 1
               /\ ~bidirectional /\ below # None
               /\ rows' = rows \o <<below>>
<1>1. /\ rows \in Seq(Samples)
      /\ current \in (IF leg \in {"begin", "end"} THEN 0..Len(Targets) + 1 ELSE 1..Len(Targets))
  BY DEF MotionInv, CollectorInv, CollectorTypeOK
<1>t. Len(Targets) \in Nat
  BY CollectorAssumption
<1>2. /\ current \in Nat
      /\ leg = "record" => current \in 1..Len(Targets)
  <2> DEFINE n == Len(Targets)
  <2>1. n \in Nat /\ current \in (IF leg \in {"begin", "end"} THEN 0..n + 1 ELSE 1..n)
    BY <1>1, <1>t
  <2> HIDE DEF n
  <2>2. current \in Nat
    BY <2>1
  <2> QED BY <1>1, <2>2
<1>3. CASE ~CollectorStep
  <2>1. UNCHANGED <<bidirectional, current, rows>>
    BY <1>3, NodeSpared DEF collector
  <2> QED BY <1>2, <2>1
<1>4. CASE Begin \/ SendPose \/ PoseReached \/ CollectSample
  <2>1. UNCHANGED <<bidirectional, rows>> /\ current' \in {current, current + 1}
    BY <1>4 DEF Begin, SendPose, PoseReached, CollectSample, NextTarget, collector
  <2>2. current' \in Nat /\ current' >= current
    BY <1>2, <2>1
  <2> QED BY <1>2, <2>1, <2>2
<1>5. CASE Record
  <2>1. current' = current + 1 /\ UNCHANGED bidirectional /\ current \in 1..Len(Targets)
    BY <1>2, <1>5 DEF Record, NextTarget
  <2>2. rows \o <<>> = rows
    BY <1>1, ConcatEmptySeq
  <2>3. current' \in Nat /\ current' >= current
    BY <1>2, <2>1
  <2>4. \/ UNCHANGED rows
        \/ bidirectional /\ above # None /\ below # None /\ rows' = rows \o <<above, below>>
        \/ ~bidirectional /\ below # None /\ rows' = rows \o <<below>>
    BY <1>5, <2>2 DEF Record
  <2> QED BY <1>2, <2>1, <2>3, <2>4
<1> QED BY <1>3, <1>4, <1>5 DEF CollectorStep

LEMMA PairsStep ==
  ASSUME MotionInv, SamplesInv, PairsInv, [Next]_vars
  PROVE  PairsInv'
<1> SUFFICES ASSUME bidirectional
             PROVE  \E n \in Nat : /\ Len(rows)' = 2 * n
                                   /\ \A k \in 1..n : TwoSides(rows[2 * k - 1], rows[2 * k])'
  BY Recorded DEF PairsInv
<1>1. PICK n \in Nat : /\ Len(rows) = 2 * n
                       /\ \A k \in 1..n : TwoSides(rows[2 * k - 1], rows[2 * k])
  BY DEF PairsInv
<1>2. CASE UNCHANGED rows
  BY <1>1, <1>2
<1>3. CASE above # None /\ below # None /\ rows' = rows \o <<above, below>>
  <2>1. rows \in Seq(Samples) /\ <<above, below>> \in Seq(Samples)
    BY InSeq DEF MotionInv, CollectorInv
  <2>2. TwoSides(above, below)
    BY <1>3 DEF SamplesInv, TwoSides
  <2> DEFINE pair == <<above, below>>
  <2>p. Len(pair) = 2 /\ pair[1] = above /\ pair[2] = below
    OBVIOUS
  <2>q. pair \in Seq(Samples) /\ rows' = rows \o pair
    BY <1>3, <2>1
  <2> HIDE DEF pair
  <2>c. /\ Len(rows') = Len(rows) + Len(pair)
        /\ \A i \in 1..Len(rows) + Len(pair) :
             rows'[i] = IF i <= Len(rows) THEN rows[i] ELSE pair[i - Len(rows)]
    BY <2>1, <2>q, ConcatProperties
  <2>3. /\ Len(rows') = 2 * n + 2
        /\ \A i \in 1..2 * n + 2 : rows'[i] = IF i <= 2 * n THEN rows[i] ELSE pair[i - 2 * n]
    BY <1>1, <2>p, <2>c
  <2>4. ASSUME NEW k \in 1..n + 1 PROVE TwoSides(rows'[2 * k - 1], rows'[2 * k])
    <3>1. CASE k \in 1..n
      <4>1. rows'[2 * k - 1] = rows[2 * k - 1] /\ rows'[2 * k] = rows[2 * k]
        BY <2>3, <3>1
      <4> QED BY <1>1, <3>1, <4>1
    <3>2. CASE k = n + 1
      <4>1. 2 * k - 1 = 2 * n + 1 /\ 2 * k = 2 * n + 2
        BY <3>2
      <4>2. rows'[2 * n + 1] = above /\ rows'[2 * n + 2] = below
        <5>1. /\ 2 * n + 1 \in 1..2 * n + 2 /\ ~(2 * n + 1 <= 2 * n) /\ 2 * n + 1 - 2 * n = 1
              /\ 2 * n + 2 \in 1..2 * n + 2 /\ ~(2 * n + 2 <= 2 * n) /\ 2 * n + 2 - 2 * n = 2
          OBVIOUS
        <5>2. rows'[2 * n + 1] = pair[1] /\ rows'[2 * n + 2] = pair[2]
          BY <2>3, <5>1
        <5> QED BY <2>p, <5>2
      <4> QED BY <2>2, <4>1, <4>2
    <3> QED BY <2>4, <3>1, <3>2
  <2>5. n + 1 \in Nat /\ Len(rows') = 2 * (n + 1)
    BY <2>3
  <2> QED BY <2>4, <2>5 DEF TwoSides
<1> QED BY <1>2, <1>3, Recorded

LEMMA SinglesStep ==
  ASSUME DistinctTargets, MotionInv, SamplesInv, SinglesInv, [Next]_vars
  PROVE  SinglesInv'
<1> SUFFICES ASSUME ~bidirectional
             PROVE  SinglesInv'
  BY Recorded DEF SinglesInv
<1>1. /\ rows \in Seq(Samples) /\ below \in Samples /\ Len(Targets) \in Nat
      /\ current \in Nat /\ current' \in Nat /\ current' >= current
  BY Recorded, CollectorAssumption DEF MotionInv, CollectorInv
<1>2. CASE UNCHANGED rows
  BY <1>1, <1>2, Recorded DEF SinglesInv
<1>3. CASE /\ current \in 1..Len(Targets) /\ current' = current + 1
           /\ below # None /\ rows' = rows \o <<below>>
  <2>1. /\ Len(rows) \in Nat /\ Len(rows') = Len(rows) + 1
        /\ \A i \in 1..Len(rows) : rows'[i] = rows[i]
        /\ rows'[Len(rows) + 1] = below
    BY <1>1, <1>3, InSeq
  <2>2. \A i \in 1..Len(rows') : i \in 1..Len(rows) \/ i = Len(rows) + 1
    BY <2>1
  <2>3. below.honest => below.at = Targets[current]
    BY DEF SamplesInv
  <2>4. ASSUME NEW i \in 1..Len(rows'), rows'[i].honest
        PROVE  \E m \in 1..Len(Targets) : m < current' /\ rows'[i].at = Targets[m]
    <3>1. CASE i \in 1..Len(rows)
      <4>1. PICK m \in 1..Len(Targets) : m < current /\ rows[i].at = Targets[m]
        BY <2>1, <2>4, <3>1 DEF SinglesInv
      <4> QED BY <1>1, <1>3, <2>1, <3>1, <4>1
    <3>2. CASE i = Len(rows) + 1
      BY <1>1, <1>3, <2>1, <2>3, <2>4, <3>2
    <3> QED BY <2>2, <3>1, <3>2
  <2>5. ASSUME NEW i \in 1..Len(rows), rows[i].honest, below.honest
        PROVE  rows[i].at # below.at
    <3>1. PICK m \in 1..Len(Targets) : m < current /\ rows[i].at = Targets[m]
      BY <2>5 DEF SinglesInv
    <3>2. m # current
      BY <1>1, <3>1
    <3> QED BY <1>3, <2>3, <2>5, <3>1, <3>2 DEF DistinctTargets
  <2>6. ASSUME NEW i \in 1..Len(rows'), NEW j \in 1..Len(rows'), i # j,
               rows'[i].honest, rows'[j].honest
        PROVE  rows'[i].at # rows'[j].at
    <3>1. CASE i \in 1..Len(rows) /\ j \in 1..Len(rows)
      BY <2>1, <2>6, <3>1 DEF SinglesInv
    <3>2. CASE i \in 1..Len(rows) /\ j = Len(rows) + 1
      BY <2>1, <2>5, <2>6, <3>2
    <3>3. CASE i = Len(rows) + 1 /\ j \in 1..Len(rows)
      BY <2>1, <2>5, <2>6, <3>3
    <3> QED BY <2>2, <2>6, <3>1, <3>2, <3>3
  <2> QED BY <2>4, <2>6 DEF SinglesInv
<1> QED BY <1>2, <1>3, Recorded

CollectorSafe == MotionSafe /\ AimInv /\ SamplesInv /\ PairsInv

LEMMA CollectorIsSafe == Spec => []CollectorSafe
<1>1. Init => AimInv /\ SamplesInv /\ PairsInv
  BY AimInit, FileInit DEF FileInv
<1>2. MotionSafe /\ AimInv /\ SamplesInv /\ PairsInv /\ [Next]_vars
        => AimInv' /\ SamplesInv' /\ PairsInv'
  BY AimStep, SamplesStep, PairsStep DEF MotionSafe
<1> QED BY <1>1, <1>2, MotionIsSafe, PTL DEF Spec, CollectorSafe

(***************************************************************************)
(* A file collected in both directions holds pairs, above before below,    *)
(* and the two of a pair are of one pose whenever the arm was where it was *)
(* sent: nothing that is skipped or fails puts the pairs out of step.      *)
(***************************************************************************)
THEOREM PairsStayPairs == Spec => []PairsInv
BY CollectorIsSafe, PTL DEF CollectorSafe

(***************************************************************************)
(* From the file alone it can be told how it was collected, if no target   *)
(* is visited twice.                                                       *)
(***************************************************************************)
THEOREM FileTellsPairs ==
  ASSUME DistinctTargets
  PROVE  Spec => []PairingTrue
<1>1. Init => SinglesInv
  BY FileInit DEF FileInv
<1>2. CollectorSafe /\ SinglesInv /\ [Next]_vars => SinglesInv'
  BY SinglesStep DEF CollectorSafe, MotionSafe
<1>3. CollectorSafe /\ SinglesInv => PairingTrue
  <2> SUFFICES ASSUME CollectorSafe, SinglesInv, Len(rows) >= 2,
                      \A i \in DOMAIN rows : rows[i].honest
               PROVE  /\ Paired(rows) = bidirectional
                      /\ bidirectional => \A k \in 1..(Len(rows) \div 2) :
                                            rows[2 * k - 1].side # rows[2 * k].side
    BY DEF PairingTrue
  <2>1. rows \in Seq(Samples) /\ bidirectional \in BOOLEAN
    BY DEF CollectorSafe, MotionSafe, MotionInv, CollectorInv, CollectorTypeOK
  <2>2. Len(rows) \in Nat /\ DOMAIN rows = 1..Len(rows)
    BY <2>1
  <2>3. CASE bidirectional
    <3>1. PICK n \in Nat : /\ Len(rows) = 2 * n
                           /\ \A k \in 1..n : TwoSides(rows[2 * k - 1], rows[2 * k])
      BY <2>3 DEF CollectorSafe, PairsInv
    <3>2. Len(rows) % 2 = 0 /\ Len(rows) \div 2 = n
      BY <3>1
    <3>3. \A k \in 1..n : 2 * k - 1 \in DOMAIN rows /\ 2 * k \in DOMAIN rows
      BY <2>2, <3>1
    <3>4. \A k \in 1..n : /\ rows[2 * k - 1].at = rows[2 * k].at
                          /\ rows[2 * k - 1].side # rows[2 * k].side
      BY <3>1, <3>3 DEF TwoSides
    <3> QED BY <2>3, <3>2, <3>4 DEF Paired
  <2>4. CASE ~bidirectional
    <3>1. 1 \in 1..Len(rows) /\ 2 \in 1..Len(rows) /\ 1 \in 1..(Len(rows) \div 2)
      BY <2>2
    <3>2. rows[1].at # rows[2].at
      BY <2>2, <2>4, <3>1 DEF SinglesInv
    <3>3. 2 * 1 - 1 = 1 /\ 2 * 1 = 2
      OBVIOUS
    <3>4. ~Paired(rows) /\ Paired(rows) \in BOOLEAN
      BY <3>1, <3>2, <3>3 DEF Paired
    <3> QED BY <2>1, <2>4, <3>4
  <2> QED BY <2>1, <2>3, <2>4
<1> QED BY <1>1, <1>2, <1>3, CollectorIsSafe, PTL DEF Spec
=============================================================================
