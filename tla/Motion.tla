------------------------------- MODULE Motion -------------------------------
(***************************************************************************)
(* Everyone who moves the arm through the trajectory action, together: the *)
(* example programs, a user, the collector, and the bounding box that may  *)
(* stop them all.                                                          *)
(***************************************************************************)
EXTENDS ExamplePrograms, Collector, Workspace

CONSTANT MayCrash \* the controller manager may die

ASSUME MotionAssumption ==
  /\ Callers = Examples \cup {User, Node}
  /\ Node \notin Examples \cup {User}
  /\ MayCrash \in BOOLEAN

vars == <<action, examples, collector, workspace>>

Init == ActionInit /\ ExamplesInit /\ CollectorInit /\ WorkspaceInit

Next ==
  \/ /\ \E c \in Callers : ControllerStep(c) \/ Callback(c)
     /\ UNCHANGED <<examples, collector, workspace>>
  \/ /\ MayCrash /\ Crash
     /\ UNCHANGED <<examples, collector, workspace>>
  \/ /\ \/ \E p \in Examples : ProgramStep(p)
        \/ UserCancels
        \/ \E pose \in UserPoses : UserMoves(pose)
     /\ UNCHANGED <<collector, workspace>>
  \/ CollectorStep /\ UNCHANGED <<examples, workspace>>
  \/ WorkspaceStep /\ UNCHANGED <<examples, collector>>

\* Programs go on, time limits elapse, but nobody need press Enter; the node's timer,
\* the transforms and the E-stop's service keep running.  Neither the arm nor
\* the collector needs to get anywhere.
Fairness ==
  /\ \A p \in Examples : WF_vars(OwnStep(p) /\ UNCHANGED <<collector, workspace>>)
  /\ WF_vars(HearTransform /\ UNCHANGED <<examples, collector>>)
  /\ WF_vars(Check /\ UNCHANGED <<examples, collector>>)
  /\ WF_vars(Trigger /\ UNCHANGED <<examples, collector>>)

Spec == Init /\ [][Next]_vars /\ Fairness

TypeOK == ActionTypeOK /\ ExamplesTypeOK /\ CollectorTypeOK /\ WorkspaceTypeOK

=============================================================================
