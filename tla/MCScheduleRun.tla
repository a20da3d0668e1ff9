--------------------------- MODULE MCScheduleRun ---------------------------
(* The instances of ScheduleRun that TLC checks; the constants are in the  *)
(* cfg files.  Deliveries are alike, and so are requests that reconcile.   *)
EXTENDS ScheduleRun, TLC

Symmetry == Permutations(Worker) \cup Permutations(Reconciler)
=============================================================================
