------------------------------ MODULE MCMotion ------------------------------
(***************************************************************************)
(* Instance of Motion for TLC: a line with the poses on it, "b" outside    *)
(* the box.                                                                *)
(***************************************************************************)
EXTENDS Motion

MCPoses    == {"home", "a", "b", "overA", "overB", "aside"}
MCPosition == [p \in MCPoses \cup {"between"} |->
                 CASE p = "b" -> 9 [] p = "overB" -> 7 [] OTHER -> 4]
MCTargets  == <<"a", "b">>

\* The program or the collector runs, beside the user or under the box.
MCInit ==
  /\ Init
  /\ arm = "home" /\ gripper = "closed"
  /\ \/ leg = "end" /\ \A p \in Examples : exit[p] = -1
     \/ leg = "begin" /\ gripped /\ \A p \in Examples : exit[p] = 0 /\ job[p] = "hello_world"
  /\ boxUp = (left = 0)

MCSpec == MCInit /\ [][Next]_vars /\ Fairness
=============================================================================
