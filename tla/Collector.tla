----------------------------- MODULE Collector ------------------------------
(***************************************************************************)
(* Collecting samples for the identification of the gravity parameters:    *)
(* armv7_dyn_ident/collect_node.py over TrajectoryAction, and the pairing  *)
(* of the samples by identify.py.                                          *)
(*                                                                         *)
(* Each target pose is approached from above and from below, through a     *)
(* pose a little aside, and a sample is taken after each approach.  With   *)
(* the parameter bidirectional off it is approached once.  Only the wait   *)
(* for the action server has a time limit.                                 *)
(***************************************************************************)
EXTENDS TrajectoryAction, Sequences, Integers

CONSTANTS Node,    \* the caller that collects
          Targets  \* the poses it visits, a sequence

ASSUME CollectorAssumption ==
  /\ Node \in Callers
  /\ Targets \in Seq(Poses) /\ "aside" \in Poses

VARIABLES bidirectional, \* the parameter
          current,       \* index of the target; 0 before the first
          leg,           \* what it is at with this target
          above, below,  \* the two samples of this target
          rows           \* what will be written to the file

collector == <<bidirectional, current, leg, above, below, rows>>

None == [at |-> "None", side |-> "None", honest |-> FALSE]

CollectorInit ==
  /\ bidirectional \in BOOLEAN
  /\ current = 0 /\ leg \in {"begin", "end"}  \* "end": not started
  /\ above = None /\ below = None
  /\ rows = <<>>

-----------------------------------------------------------------------------
Via(l) == l \in {"via above", "via below"}
To(l)  == l \in {"to above", "to below"}

After == [l \in {"via above", "to above", "via below", "to below"} |->
            CASE l = "via above" -> "to above" [] l = "to above" -> "sample above"
              [] l = "via below" -> "to below" [] l = "to below" -> "sample below"]

\* Where a move that was rejected, or a sample, leads to.
Skip(l) == IF l \in {"via above", "to above", "sample above"} THEN "via below" ELSE "record"

\* Mutant: one target too many.
NextTarget_OffByOne ==
  /\ current' = current + 1
  /\ leg' = IF current > Len(Targets) THEN "end"
            ELSE IF bidirectional THEN "via above" ELSE "to below"
  /\ above' = None /\ below' = None

NextTarget ==
  /\ current' = current + 1
  /\ leg' = IF current = Len(Targets) THEN "end"
            ELSE IF bidirectional THEN "via above" ELSE "to below"
  /\ above' = None /\ below' = None

Begin ==
  /\ leg = "begin"
  /\ IF alive THEN NextTarget ELSE leg' = "end" /\ UNCHANGED <<current, above, below>>
  /\ UNCHANGED <<bidirectional, rows, action>>

\* _send_pose up to its first wait.
SendPose ==
  /\ Via(leg) \/ To(leg)
  /\ handle[Node] = "none"
  /\ Send(Node, IF Via(leg) THEN "aside" ELSE Targets[current])
  /\ UNCHANGED collector

\* Its end: a goal that was accepted counts, whatever became of it.
PoseReached ==
  /\ Via(leg) \/ To(leg)
  /\ handle[Node] = "done"
  /\ leg' = IF goal[Node] = "rejected" THEN Skip(leg) ELSE After[leg]
  /\ Forget(Node)
  /\ UNCHANGED <<bidirectional, current, above, below, rows>>

\* The joint states of about two seconds, averaged.  An arm that the collector
\* moved last is at rest; another caller's may be anywhere during that time.
Averages == IF mover = Node THEN {arm} ELSE Poses \cup {"between"}

\* _collect_sample; or no message has efforts.
CollectSample ==
  /\ leg \in {"sample above", "sample below"}
  /\ \E s \in {None} \cup [at : Averages, side : {leg},
                           honest : {mover = Node /\ goal[Node] = "succeeded"}] :
       IF leg = "sample above" THEN above' = s /\ UNCHANGED below
                               ELSE below' = s /\ UNCHANGED above
  /\ leg' = Skip(leg)
  /\ UNCHANGED <<bidirectional, current, rows, action>>

\* Mutant: the sample of one approach is kept without the other.
Record_Each ==
  /\ leg = "record"
  /\ rows' = rows \o SelectSeq(<<above, below>>, LAMBDA s : s # None)
  /\ NextTarget
  /\ UNCHANGED <<bidirectional, action>>

Record ==
  /\ leg = "record"
  /\ rows' = rows \o (IF bidirectional
                        THEN IF None \in {above, below} THEN <<>> ELSE <<above, below>>
                        ELSE IF below = None THEN <<>> ELSE <<below>>)
  /\ NextTarget
  /\ UNCHANGED <<bidirectional, action>>

CollectorStep == Begin \/ SendPose \/ PoseReached \/ CollectSample \/ Record

-----------------------------------------------------------------------------
\* identify.py: the rows are pairs if every second one has the position of its neighbour.
Paired(r) ==
  /\ Len(r) >= 2 /\ Len(r) % 2 = 0
  /\ \A k \in 1..(Len(r) \div 2) : r[2 * k - 1].at = r[2 * k].at

CollectorTypeOK ==
  /\ bidirectional \in BOOLEAN
  /\ current \in (IF leg \in {"begin", "end"} THEN 0..Len(Targets) + 1 ELSE 1..Len(Targets))
  /\ leg \in {"begin", "end", "record", "sample above", "sample below"} \cup DOMAIN After
  /\ \A s \in {above, below} \cup {rows[i] : i \in DOMAIN rows} :
       s.at \in Poses \cup {"between", "None"}

(***************************************************************************)
(* identify.py finds out from the file alone whether it was collected in   *)
(* pairs, and is right whenever the arm was where it was sent: pairs of    *)
(* one pose, once from above and once from below, whatever was skipped.    *)
(***************************************************************************)
PairingTrue ==
  (Len(rows) >= 2 /\ \A i \in DOMAIN rows : rows[i].honest) =>
    /\ Paired(rows) = bidirectional
    /\ bidirectional => \A k \in 1..(Len(rows) \div 2) : rows[2 * k - 1].side # rows[2 * k].side

=============================================================================
