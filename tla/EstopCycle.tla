----------------------------- MODULE EstopCycle -----------------------------
(***************************************************************************)
(* What the software emergency stop of armv7_safety promises, seen from    *)
(* outside: the trajectory controller (motion) and the latched topic       *)
(* /safety/estop (latched) go round one cycle of four steps.  Motion is    *)
(* taken away before the stop is announced, and the announcement is        *)
(* withdrawn only once motion has been given back: while the topic says    *)
(* "stopped" nothing but a clear in progress may have enabled motion.      *)
(***************************************************************************)
VARIABLES motion,    \* the trajectory controller is active
          latched    \* the value last published on /safety/estop

cycle == <<motion, latched>>

Init == motion = TRUE /\ latched = FALSE

Halt     == ~latched /\ motion  /\ motion' = FALSE  /\ UNCHANGED latched
Announce == ~latched /\ ~motion /\ latched' = TRUE  /\ UNCHANGED motion
Resume   == latched  /\ ~motion /\ motion' = TRUE   /\ UNCHANGED latched
Withdraw == latched  /\ motion  /\ latched' = FALSE /\ UNCHANGED motion

Next == Halt \/ Announce \/ Resume \/ Withdraw

Spec == Init /\ [][Next]_cycle
=============================================================================
