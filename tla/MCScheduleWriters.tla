-------------------------- MODULE MCScheduleWriters --------------------------
(* The instance of ScheduleWriters that TLC checks: two runs whose dates      *)
(* overlap in one visit, and one employee short of serving a day alone.       *)
EXTENDS ScheduleWriters, TLC

CONSTANTS v1, v2, e1, e2, d1, d2, r1, r2, m1

MCCrews == {{e1}, {e2}}
MCHorizons == (r1 :> {{v1, v2}, {v1}}) @@ (r2 :> {{v2}})
MCFirstDay == (v1 :> d1) @@ (v2 :> d1)
MCLegal == (v1 :> {d1, d2}) @@ (v2 :> {d1, d2})
MCWork == (v1 :> 2) @@ (v2 :> 1)
MCCap == (d1 :> 3) @@ (d2 :> 2)
\* Nothing tells the two employees apart.
MCSymmetry == Permutations({e1, e2})
=============================================================================
