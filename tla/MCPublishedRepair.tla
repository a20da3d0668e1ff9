-------------------------- MODULE MCPublishedRepair --------------------------
(* The instance of PublishedRepair that TLC checks: a visit with two          *)
(* published assignments from before the guards, and one not yet staffed.     *)
EXTENDS ReadModels, TLC

CONSTANTS v1, v2, e1, e2, c1, c2, k1, k2

MCCrews == {{e1}, {e2}}
MCDayOf == (v1 :> 1) @@ (v2 :> 1)
MCLegacy == (v1 :> <<{e1}, {e1}>>) @@ (v2 :> <<>>)
MCSymmetry == Permutations({c1, c2}) \cup Permutations({k1, k2})
=============================================================================
