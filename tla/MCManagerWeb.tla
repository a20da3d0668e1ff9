---------------------------- MODULE MCManagerWeb ----------------------------
(* The manager portal on small instances: two questions a screen can be    *)
(* asked, two visits, two findings, a few clicks on each.                   *)
EXTENDS ManagerWeb, TLC

CONSTANTS v1, v2, p1, f1, f2, k1, k2, r1, r2

\* Enough to plan and apply a repair twice; three on the run list, whose polls
\* and pages interleave most.
Clicks == [s \in ListPages \cup {"queue", "walk", "history", "publish", "editor", "desk"} |->
             CASE s = "desk" -> 7 [] s = "publish" -> 4 [] s \in {"history", "dispatch"} -> 3 [] OTHER -> 4]

=============================================================================
