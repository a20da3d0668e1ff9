---------------------------- MODULE RunLifecycle ----------------------------
(***************************************************************************)
(* What a schedule run promises the manager who polls it, with no worker,  *)
(* lease, outbox or queue in sight: the status machine of one ScheduleRun  *)
(* row, the cancel flag, and whether a schedule has been written for it.   *)
(* ScheduleRun.tla implements this specification.                          *)
(***************************************************************************)

VARIABLES
  status,           \* the status column of the run
  cancelRequested,  \* cancelRequestedAt is set
  results           \* the draft assignments of the solve are in the database

vars == <<status, cancelRequested, results>>

Settled == {"SUCCEEDED", "FAILED", "CANCELLED"}

TypeOK ==
  /\ status \in {"QUEUED", "RUNNING"} \cup Settled
  /\ cancelRequested \in BOOLEAN
  /\ results \in BOOLEAN

Init ==
  /\ status = "QUEUED"
  /\ cancelRequested = FALSE
  /\ results = FALSE

\* A delivery starts to work on the run, or takes it over from a dead owner.
Start ==
  /\ status \in {"QUEUED", "RUNNING"} /\ ~cancelRequested
  /\ status' = "RUNNING"
  /\ UNCHANGED <<cancelRequested, results>>

\* The attempt is given up and the run waits for another delivery.
Requeue ==
  /\ status \in {"QUEUED", "RUNNING"} /\ ~cancelRequested
  /\ status' = "QUEUED"
  /\ UNCHANGED <<cancelRequested, results>>

\* The whole schedule is written and the run succeeds, in one step.
Finish ==
  /\ status = "RUNNING" /\ ~cancelRequested
  /\ status' = "SUCCEEDED"
  /\ results' = TRUE
  /\ UNCHANGED cancelRequested

Fail ==
  /\ status \in {"QUEUED", "RUNNING"} /\ ~cancelRequested
  /\ status' = "FAILED"
  /\ UNCHANGED <<cancelRequested, results>>

\* The request reads the row first and writes it later, so it may still land
\* on a run that has settled meanwhile.
RequestCancel ==
  /\ cancelRequested' = TRUE
  /\ status' \in {status, "CANCELLED"}
  /\ UNCHANGED results

Stop ==
  /\ status = "RUNNING" /\ cancelRequested
  /\ status' = "CANCELLED"
  /\ UNCHANGED <<cancelRequested, results>>

Next == Start \/ Requeue \/ Finish \/ Fail \/ RequestCancel \/ Stop

Spec == Init /\ [][Next]_vars

=============================================================================
