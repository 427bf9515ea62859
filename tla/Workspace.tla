----------------------------- MODULE Workspace ------------------------------
(***************************************************************************)
(* The bounding box, armv7_safety/workspace_bbox_node.py, around the arm   *)
(* of TrajectoryAction, and the E-stop it triggers: here as EstopCycle     *)
(* promises it, in one step for each service.                              *)
(*                                                                         *)
(* The three axes of the box are alike; one is kept.  The node reads the   *)
(* latest transform, however old, and asks for a stop only when its own    *)
(* state changes and the service is there; it does not look at the answer. *)
(***************************************************************************)
EXTENDS TrajectoryAction, Integers

CONSTANTS Position,        \* the coordinate of each pose, and between poses
          Lower, Upper,    \* min and max
          Margin,
          AutoEstop,       \* auto_estop_on_exit
          Clears           \* bound on the stops the operator lifts

ASSUME WorkspaceAssumption ==
  /\ Position \in [Poses \cup {"between"} -> Int]
  /\ {Lower, Upper} \subseteq Int /\ {Margin, Clears} \subseteq Nat
  /\ AutoEstop \in BOOLEAN

VARIABLES boxUp,     \* the node was launched
          tf,        \* the latest transform: the coordinate of the arm then
          lastState, \* _last_state
          triggered, \* a call of estop_trigger is on its way
          estopUp,   \* the E-stop node is up
          stopped,   \* its flag
          clears     \* stops lifted so far

workspace == <<boxUp, tf, lastState, triggered, estopUp, stopped, clears>>

Classify(x) ==
  IF x \notin Lower..Upper THEN "out_of_bounds"
  ELSE IF x - Lower < Margin \/ Upper - x < Margin THEN "warning" ELSE "ok"

Unknown == Lower - 1000  \* no transform yet

WorkspaceInit ==
  /\ boxUp \in BOOLEAN
  /\ tf = Unknown /\ lastState = ""
  /\ triggered = FALSE /\ estopUp \in BOOLEAN
  /\ stopped = FALSE /\ clears = 0

-----------------------------------------------------------------------------
HearTransform ==
  /\ boxUp /\ alive
  /\ tf' = Position[arm]
  /\ UNCHANGED <<boxUp, lastState, triggered, estopUp, stopped, clears, action>>

\* Mutant: the state is remembered before it is compared.
Check_Remembered ==
  /\ tf # Unknown
  /\ lastState' = Classify(tf)
  /\ triggered' = (triggered \/ (/\ AutoEstop /\ estopUp /\ lastState' = "out_of_bounds"
                                 /\ lastState' # Classify(tf)))
  /\ UNCHANGED <<boxUp, tf, estopUp, stopped, clears, action>>

\* _tick.
Check ==
  /\ tf # Unknown
  /\ lastState' = Classify(tf)
  /\ triggered' = (triggered \/ (/\ AutoEstop /\ estopUp /\ lastState' = "out_of_bounds"
                                 /\ lastState' # lastState))
  /\ UNCHANGED <<boxUp, tf, estopUp, stopped, clears, action>>

EstopComesUp ==
  /\ ~estopUp
  /\ estopUp' = TRUE
  /\ UNCHANGED <<boxUp, tf, lastState, triggered, stopped, clears, action>>

\* Without a controller manager nothing is switched, and the answer is a failure.
Trigger ==
  /\ triggered
  /\ triggered' = FALSE
  /\ stopped' = (stopped \/ alive)
  /\ IF alive /\ ~stopped THEN SwitchTo(FALSE) ELSE UNCHANGED action
  /\ UNCHANGED <<boxUp, tf, lastState, estopUp, clears>>

Clear ==
  /\ stopped /\ alive /\ clears < Clears
  /\ stopped' = FALSE /\ clears' = clears + 1
  /\ SwitchTo(TRUE)
  /\ UNCHANGED <<boxUp, tf, lastState, triggered, estopUp>>

WorkspaceStep == HearTransform \/ Check \/ EstopComesUp \/ Trigger \/ Clear

WorkspaceTypeOK ==
  /\ tf \in Int
  /\ lastState \in {"", "ok", "warning", "out_of_bounds"}
  /\ {boxUp, triggered, estopUp, stopped} \subseteq BOOLEAN
  /\ clears \in 0..Clears

(***************************************************************************)
(* When the tool leaves the box, with the E-stop node up and the box not   *)
(* yet seen left, the arm is stopped, or comes back in before that.  The   *)
(* state the node is in matters: it asks once for each exit it sees.       *)
(***************************************************************************)
Outside == Position[arm] \notin Lower..Upper

ExitsStop ==
  boxUp /\ AutoEstop /\ estopUp /\ lastState # "out_of_bounds" /\ Outside
    ~> stopped \/ ~Outside \/ ~alive

=============================================================================
