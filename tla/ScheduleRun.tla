---------------------------- MODULE ScheduleRun ----------------------------
(***************************************************************************)
(* One schedule run from the queue to its end: the ScheduleRun row and its *)
(* dispatch outbox row in PostgreSQL, the queue (BullMQ or QStash) that    *)
(* delivers it at least once, the workers that solve it under an execution *)
(* lease, the reconcilers that publish, redrive and settle it, and the     *)
(* managers who cancel it (apps/api/src/scheduling/optimizer).             *)
(*                                                                         *)
(* One action is one SQL statement or one transaction, the reads a handler *)
(* takes a decision from included: whatever another process may do between *)
(* two statements of a handler, it may do between two actions here.        *)
(*                                                                         *)
(* Time is abstracted to what the code compares: a lease is live or it is  *)
(* not, the last dispatch attempt is stale or it is not.  An event that    *)
(* only a fault brings about (a crash, a lost reply, a delivery handed out *)
(* twice, a lease that lapses under a worker that still runs) spends one   *)
(* of MaxFaults; that is the only bound the specification has.             *)
(***************************************************************************)
EXTENDS Naturals, Sequences, FiniteSets

CONSTANTS
  Worker,         \* deliveries that can be in progress at once
  Reconciler,     \* requests that can run the recovery code at once
  Manager,        \* managers who may cancel the run
  Provider,       \* the queue: "BULLMQ" or "QSTASH"
  MaxDeliveries,  \* deliveries the queue makes of one message before giving up
  MaxFaults

ASSUME ProviderAssumption == Provider \in {"BULLMQ", "QSTASH"}
ASSUME DeliveriesAssumption == MaxDeliveries \in Nat \ {0}
ASSUME FaultsAssumption == MaxFaults \in Nat

VARIABLES
  run,        \* the ScheduleRun row
  outbox,     \* its ScheduleRunDispatchOutbox row
  wk,         \* wk[w]: the delivery worker w is handling
  rc,         \* rc[r]: the recovery code r is in the middle of
  mgr,        \* mgr[m]: the cancel request of manager m
  queue,      \* messages the queue still holds: deliveries, or the callback
  sent,       \* sent[i]: the dispatch generation of the i-th message published
  committed,  \* leases (execution attempts) whose result has been committed
  faults      \* faults spent

vars == <<run, outbox, wk, rc, mgr, queue, sent, committed, faults>>

---------------------------------------------------------------------------
(* The rows.  A lease is named by the execution attempt that claimed it; 0 *)
(* is NULL for lease, jobId and messageId.                                 *)

Settled == {"SUCCEEDED", "FAILED", "CANCELLED"}
Active == {"QUEUED", "RUNNING"}
Open == {"PENDING", "PUBLISHED"}
Nobody == "nobody"

RunRow == [status : Active \cup Settled, cancel : BOOLEAN, lease : Nat,
           live : BOOLEAN, jobId : Nat, attempt : Nat]

\* terminal: who recorded the pending terminal-failure callback (this stands
\* for its timestamp), terminalMsg: the message it is about.
OutboxRow == [gen : Nat, status : Open \cup {"CANCELLED"}, msg : Nat,
              terminal : Reconciler \cup {Nobody}, terminalMsg : Nat,
              stale : BOOLEAN]

Message == [id : Nat, left : Nat]

InitRun == [status |-> "QUEUED", cancel |-> FALSE, lease |-> 0,
            live |-> FALSE, jobId |-> 0, attempt |-> 0]
InitOutbox == [gen |-> 1, status |-> "PENDING", msg |-> 0,
               terminal |-> Nobody, terminalMsg |-> 0, stale |-> TRUE]

---------------------------------------------------------------------------
(* The processes.                                                          *)

Leased == {"prep", "check1", "load", "solve", "check2", "write", "mark",
           "done", "caught"}
WorkerPC == {"idle", "read", "settle", "afterSettle", "claim", "afterClaim"}
              \cup Leased
WorkerState == [pc : WorkerPC, msg : Nat, left : Nat, lease : Nat,
                held : BOOLEAN]
IdleWorker == [pc |-> "idle", msg |-> 0, left |-> 0, lease |-> 0,
               held |-> FALSE]

RecoveryPC == {"idle", "dispatch", "enqueue", "record", "attempt", "redrive",
               "settle", "closeOutbox", "terminal", "failRun", "failCancel",
               "failRead", "consume"}
\* gen, msg: the outbox generation and message id the code holds on to.
\* dead: the lease that had expired when it looked at the clock (0: none).
\* cancel: the cancel flag it read.  cb: it serves a failure callback.
RecoveryState == [pc : RecoveryPC, gen : Nat, msg : Nat, dead : Nat,
                  cancel : BOOLEAN, cb : BOOLEAN]
IdleRecovery == [pc |-> "idle", gen |-> 0, msg |-> 0, dead |-> 0,
                 cancel |-> FALSE, cb |-> FALSE]

ManagerState == [pc : {"idle", "write", "outbox", "remote"},
                 saw : {"QUEUED", "RUNNING"}, job : Nat]
IdleManager == [pc |-> "idle", saw |-> "QUEUED", job |-> 0]

TypeOK ==
  /\ run \in RunRow
  /\ outbox \in OutboxRow
  /\ wk \in [Worker -> WorkerState]
  /\ rc \in [Reconciler -> RecoveryState]
  /\ mgr \in [Manager -> ManagerState]
  /\ queue \subseteq Message
  /\ sent \in Seq(Nat)
  /\ committed \subseteq Nat
  /\ faults \in 0..MaxFaults

Init ==
  /\ run = InitRun
  /\ outbox = InitOutbox
  /\ wk = [w \in Worker |-> IdleWorker]
  /\ rc = [r \in Reconciler |-> IdleRecovery]
  /\ mgr = [m \in Manager |-> IdleManager]
  /\ queue = {}
  /\ sent = <<>>
  /\ committed = {}
  /\ faults = 0

Fault ==
  /\ faults < MaxFaults
  /\ faults' = faults + 1

---------------------------------------------------------------------------
(* Workers: ScheduleRunProcessor.process and the QStash execute route, and  *)
(* ScheduleRunService.deliver under them.                                   *)

Dead == run.status = "RUNNING" /\ ~run.live

\* leaseWhere(allowCancellation = true), and without it.
Holds(w) == run.status = "RUNNING" /\ run.lease = wk[w].lease /\ run.live

\* Mutants: the status, and the cancel flag, left out of the fence.
MayWriteAnyStatus(w) == run.lease = wk[w].lease /\ run.live /\ ~run.cancel
MayWriteCancelled(w) == Holds(w)
MayWrite(w) == Holds(w) /\ ~run.cancel

IsCurrentDispatch(gen) ==
  /\ outbox.gen = gen /\ outbox.status \in Open /\ outbox.terminal = Nobody
  /\ run.status \in Active /\ ~run.cancel

Goto(w, pc) == wk' = [wk EXCEPT ![w].pc = pc]

\* The provider hears that the delivery is done with.
Ack(w) ==
  /\ wk' = [wk EXCEPT ![w] = IdleWorker]
  /\ UNCHANGED queue

\* It hears of a failure: it delivers again, or it has given up, which QStash
\* follows with a failure callback (left = 0).
Nack(w) ==
  /\ wk' = [wk EXCEPT ![w] = IdleWorker]
  /\ queue' = queue \cup
       {x \in {[id |-> wk[w].msg, left |-> wk[w].left - 1]} :
          wk[w].held /\ (x.left > 0 \/ Provider = "QSTASH")}

Deliver(w, x) ==
  /\ wk[w].pc = "idle" /\ x.left > 0
  /\ queue' = queue \ {x}
  /\ wk' = IF IsCurrentDispatch(sent[x.id])
             THEN [wk EXCEPT ![w] = [pc |-> "read", msg |-> x.id,
                                     left |-> x.left, lease |-> 0,
                                     held |-> TRUE]]
             ELSE wk
  /\ UNCHANGED <<run, outbox, rc, mgr, sent, committed, faults>>

\* claimExecutionLease reads the row before it tries to claim it.
ReadRun(w) ==
  /\ wk[w].pc = "read"
  /\ \/ /\ run.status \in Settled \/ (run.cancel /\ run.status = "QUEUED")
        /\ Ack(w)
     \/ /\ run.status = "RUNNING" /\ run.cancel
        /\ Goto(w, "settle") /\ UNCHANGED queue
     \/ /\ run.status \in Active /\ ~run.cancel
        /\ Goto(w, "claim") /\ UNCHANGED queue
  /\ UNCHANGED <<run, outbox, rc, mgr, sent, committed, faults>>

\* settleExpiredScheduleRunCancellation.
CancelDeadRun ==
  IF Dead /\ run.cancel
    THEN run' = [run EXCEPT !.status = "CANCELLED", !.lease = 0]
    ELSE UNCHANGED run

SettleCancelled(w) ==
  /\ wk[w].pc = "settle"
  /\ CancelDeadRun
  /\ IF Dead /\ run.cancel
       THEN Ack(w)
       ELSE Goto(w, "afterSettle") /\ UNCHANGED queue
  /\ UNCHANGED <<outbox, rc, mgr, sent, committed, faults>>

\* Mutants: the claim that does not look at the generation, or at the cancel
\* flag.
ClaimableAnyGeneration(w) ==
  /\ ~run.cancel
  /\ outbox.status \in Open /\ outbox.terminal = Nobody
  /\ run.status = "QUEUED" \/ Dead
ClaimableCancelled(w) ==
  /\ outbox.gen = sent[wk[w].msg]
  /\ outbox.status \in Open /\ outbox.terminal = Nobody
  /\ run.status = "QUEUED" \/ Dead

Claimable(w) ==
  /\ ~run.cancel /\ outbox.gen = sent[wk[w].msg]
  /\ outbox.status \in Open /\ outbox.terminal = Nobody
  /\ run.status = "QUEUED" \/ Dead

\* One conditional UPDATE of the run, fenced by the outbox generation.
Claim(w) ==
  /\ wk[w].pc = "claim"
  /\ IF Claimable(w)
       THEN /\ run' = [run EXCEPT !.status = "RUNNING", !.live = TRUE,
                                  !.lease = run.attempt + 1,
                                  !.attempt = run.attempt + 1]
            /\ wk' = [wk EXCEPT ![w].pc = "prep", ![w].lease = run.attempt + 1]
       ELSE Goto(w, "afterClaim") /\ UNCHANGED run
  /\ UNCHANGED <<outbox, rc, mgr, queue, sent, committed, faults>>

\* The row is read again to tell a settled run from a busy one.
ReadAgain(w) ==
  /\ wk[w].pc \in {"afterSettle", "afterClaim"}
  /\ IF run.status \in Settled \/ (run.cancel /\ wk[w].pc = "afterClaim")
       THEN Ack(w)
       ELSE Nack(w)
  /\ UNCHANGED <<run, outbox, rc, mgr, sent, committed, faults>>

\* executeLeased up to a point where it writes its progress under the lease;
\* the write refuses when the lease is lost or a cancel is requested.
AfterProgress == [prep |-> "check1", load |-> "solve", solve |-> "check2"]

Progress(w) ==
  /\ wk[w].pc \in DOMAIN AfterProgress
  /\ Goto(w, IF MayWrite(w) THEN AfterProgress[wk[w].pc] ELSE "caught")
  /\ UNCHANGED <<run, outbox, rc, mgr, queue, sent, committed, faults>>

\* Anything the code between two writes may throw: the solver refuses or
\* times out, the snapshot has gone stale, the budget is exceeded.
Throw(w) ==
  /\ wk[w].pc \in {"prep", "load", "solve", "write"}
  /\ Goto(w, "caught")
  /\ UNCHANGED <<run, outbox, rc, mgr, queue, sent, committed, faults>>

CheckCancelled(w) ==
  /\ wk[w].pc \in {"check1", "check2"}
  /\ Goto(w, IF run.cancel THEN "mark"
             ELSE IF wk[w].pc = "check1" THEN "load" ELSE "write")
  /\ UNCHANGED <<run, outbox, rc, mgr, queue, sent, committed, faults>>

MarkCancelled(w) ==
  /\ wk[w].pc = "mark"
  /\ IF Holds(w)
       THEN run' = [run EXCEPT !.status = "CANCELLED"] /\ Goto(w, "done")
       ELSE UNCHANGED run /\ Goto(w, "caught")
  /\ UNCHANGED <<outbox, rc, mgr, queue, sent, committed, faults>>

\* persistResult and finish in one transaction, or finish alone ("solve")
\* when there is no visit to solve.
Commit(w) ==
  /\ wk[w].pc \in {"solve", "write"}
  /\ IF MayWrite(w)
       THEN /\ run' = [run EXCEPT !.status = "SUCCEEDED"]
            /\ committed' = committed \cup {wk[w].lease}
            /\ Goto(w, "done")
       ELSE UNCHANGED <<run, committed>> /\ Goto(w, "caught")
  /\ UNCHANGED <<outbox, rc, mgr, queue, sent, faults>>

Done(w) ==
  /\ wk[w].pc = "done"
  /\ Ack(w)
  /\ UNCHANGED <<run, outbox, rc, mgr, sent, committed, faults>>

\* A renewal that was in flight when the run settled finds no RUNNING row:
\* assertActive throws although the result is in (only BullMQ renews).
HeartbeatMissed(w) ==
  /\ wk[w].pc = "done" /\ Provider = "BULLMQ"
  /\ Goto(w, "caught")
  /\ UNCHANGED <<run, outbox, rc, mgr, queue, sent, committed, faults>>

\* deliver's catch: give the lease back when the provider will deliver again,
\* otherwise fail the run; either write is fenced and may itself be refused.
RetryOnFailure(w) == Provider = "QSTASH" \/ wk[w].left > 1

GiveUp(w) ==
  /\ wk[w].pc = "caught"
  /\ run' = IF ~MayWrite(w) THEN run
            ELSE IF RetryOnFailure(w)
                   THEN [run EXCEPT !.status = "QUEUED", !.lease = 0,
                                    !.live = FALSE]
                   ELSE [run EXCEPT !.status = "FAILED"]
  /\ Nack(w)
  /\ UNCHANGED <<outbox, rc, mgr, sent, committed, faults>>

\* The process dies.  QStash counts the delivery; BullMQ finds the job stalled
\* and delivers it again, or gives it up after maxStalledCount.
Crash(w) ==
  /\ wk[w].pc # "idle"
  /\ Fault
  /\ \/ Nack(w)
     \/ Ack(w) /\ Provider = "BULLMQ"
  /\ UNCHANGED <<run, outbox, rc, mgr, sent, committed>>

\* The provider stops waiting for a delivery that is still being worked on
\* (request timeout, stalled job) and hands the message out again.
Redeliver(w) ==
  /\ wk[w].pc # "idle" /\ wk[w].held
  /\ Fault
  /\ wk' = [wk EXCEPT ![w].held = FALSE]
  /\ queue' = queue \cup
       {[id |-> wk[w].msg,
         left |-> IF Provider = "QSTASH" THEN wk[w].left - 1 ELSE wk[w].left]}
  /\ UNCHANGED <<run, outbox, rc, mgr, sent, committed>>

Owned == \E w \in Worker : wk[w].pc \in Leased /\ wk[w].lease = run.lease

\* The lease runs out.  That is a fault while its owner still runs: the budget
\* and the heartbeat are there to prevent it.
LeaseExpires ==
  /\ run.status = "RUNNING" /\ run.live
  /\ run' = [run EXCEPT !.live = FALSE]
  /\ IF Owned THEN Fault ELSE UNCHANGED faults
  /\ UNCHANGED <<outbox, wk, rc, mgr, queue, sent, committed>>

---------------------------------------------------------------------------
(* Reconcilers: ScheduleRunDispatchService, entered from the start request, *)
(* from the polling endpoints (BullMQ) or from the reconcile route (QStash),*)
(* and failScheduleRunForQStash, entered from the failure route as well.    *)

At(r, pc) == rc[r].pc = pc
Continue(r, pc) == rc' = [rc EXCEPT ![r].pc = pc]
Return(r) == rc' = [rc EXCEPT ![r] = IdleRecovery]

Dispatchable ==
  /\ outbox.status = "PENDING" /\ outbox.terminal = Nobody
  /\ run.status = "QUEUED" /\ ~run.cancel

DeadLease == IF Dead THEN run.lease ELSE 0

\* reconcilePending reads the rows it will look at, reconcileDispatch decides
\* on what was read: a recorded terminal failure first, then a cancel, then a
\* first publish, then a redrive of a dispatch that has gone stale.
\* Mutant: the sweep does not select a dead run with a cancel requested.
DueUncancelled(pc) ==
  /\ outbox.status \in Open
  /\ \/ pc = "terminal" /\ outbox.terminal # Nobody
     \/ pc = "dispatch" /\ Dispatchable
     \/ /\ pc = "redrive" /\ outbox.terminal = Nobody /\ ~run.cancel
        /\ ~Dispatchable /\ outbox.stale /\ (run.status = "QUEUED" \/ Dead)

Due(pc) ==
  /\ outbox.status \in Open
  /\ \/ pc = "terminal" /\ outbox.terminal # Nobody
     \/ pc = "settle" /\ outbox.terminal = Nobody /\ run.cancel /\ Dead
     \/ pc = "dispatch" /\ Dispatchable
     \/ /\ pc = "redrive" /\ outbox.terminal = Nobody /\ ~run.cancel
        /\ ~Dispatchable /\ outbox.stale /\ (run.status = "QUEUED" \/ Dead)

Sweep(r) ==
  /\ At(r, "idle")
  /\ \E pc \in {"terminal", "settle", "dispatch", "redrive"} :
       /\ Due(pc)
       /\ rc' = [rc EXCEPT ![r] =
                   [pc |-> pc, gen |-> outbox.gen,
                    msg |-> IF pc = "terminal" THEN outbox.terminalMsg
                            ELSE outbox.msg,
                    dead |-> DeadLease, cancel |-> run.cancel, cb |-> FALSE]]
  /\ UNCHANGED <<run, outbox, wk, mgr, queue, sent, committed, faults>>

ReadDispatch(r) ==
  /\ At(r, "dispatch")
  /\ IF Dispatchable
       THEN rc' = [rc EXCEPT ![r] =
                    [pc |-> "enqueue", gen |-> outbox.gen, msg |-> 0,
                     dead |-> 0, cancel |-> FALSE, cb |-> FALSE]]
       ELSE Return(r)
  /\ UNCHANGED <<run, outbox, wk, mgr, queue, sent, committed, faults>>

Published(gen) == {i \in DOMAIN sent : sent[i] = gen}

Publish(r) ==
  /\ rc' = [rc EXCEPT ![r].pc = "record", ![r].msg = Len(sent) + 1]
  /\ sent' = Append(sent, rc[r].gen)
  /\ queue' = queue \cup {[id |-> Len(sent) + 1, left |-> MaxDeliveries]}

\* The dispatch id is the deduplication id: a second publish of a generation
\* yields the message of the first one, unless QStash has forgotten it.
Enqueue(r) ==
  /\ At(r, "enqueue")
  /\ \/ /\ Published(rc[r].gen) = {}
        /\ Publish(r) /\ UNCHANGED faults
     \/ /\ \E i \in Published(rc[r].gen) :
             rc' = [rc EXCEPT ![r].pc = "record", ![r].msg = i]
        /\ UNCHANGED <<queue, sent, faults>>
     \/ /\ Published(rc[r].gen) # {} /\ Provider = "QSTASH"
        /\ Publish(r) /\ Fault
  /\ UNCHANGED <<run, outbox, wk, mgr, committed>>

\* The publish fails, its reply is lost, or the transaction below fails.
EnqueueFails(r) ==
  /\ At(r, "enqueue") \/ At(r, "record")
  /\ Fault
  /\ Continue(r, "attempt")
  /\ UNCHANGED <<run, outbox, wk, mgr, queue, sent, committed>>

\* Mutant: the run takes the message id although the outbox had moved on.
RecordPublishedAnyway(r) ==
  /\ At(r, "record")
  /\ run' = [run EXCEPT !.jobId = rc[r].msg]
  /\ outbox' = IF /\ outbox.gen = rc[r].gen /\ outbox.status = "PENDING"
                  /\ outbox.terminal = Nobody
                THEN [outbox EXCEPT !.status = "PUBLISHED",
                                    !.msg = rc[r].msg, !.stale = FALSE]
                ELSE outbox
  /\ Return(r)
  /\ UNCHANGED <<wk, mgr, queue, sent, committed, faults>>

RecordPublished(r) ==
  /\ At(r, "record")
  /\ IF /\ outbox.gen = rc[r].gen /\ outbox.status = "PENDING"
        /\ outbox.terminal = Nobody
       THEN /\ outbox' = [outbox EXCEPT !.status = "PUBLISHED",
                                        !.msg = rc[r].msg, !.stale = FALSE]
            /\ run' = [run EXCEPT !.jobId = rc[r].msg]
       ELSE UNCHANGED <<run, outbox>>
  /\ Return(r)
  /\ UNCHANGED <<wk, mgr, queue, sent, committed, faults>>

RecordAttemptFailure(r) ==
  /\ At(r, "attempt")
  /\ outbox' = IF outbox.gen = rc[r].gen /\ outbox.status = "PENDING"
                THEN [outbox EXCEPT !.stale = FALSE]
                ELSE outbox
  /\ Return(r)
  /\ UNCHANGED <<run, wk, mgr, queue, sent, committed, faults>>

\* Mutants: the redrive that trusts what the sweep read of the lease, or of
\* the status, or that leaves the run of a dead worker alone.
RedrivableQueued(r) ==
  /\ ~run.cancel /\ run.status = "QUEUED"
  /\ outbox.gen = rc[r].gen /\ outbox.status \in Open
  /\ outbox.msg = rc[r].msg /\ outbox.terminal = Nobody
RedrivableAnyLease(r) ==
  /\ ~run.cancel /\ run.status \in Active
  /\ outbox.gen = rc[r].gen /\ outbox.status \in Open
  /\ outbox.msg = rc[r].msg /\ outbox.terminal = Nobody

Redrivable(r) ==
  /\ ~run.cancel
  /\ run.status = "QUEUED" \/ (run.status = "RUNNING" /\ run.lease = rc[r].dead)
  /\ outbox.gen = rc[r].gen /\ outbox.status \in Open
  /\ outbox.msg = rc[r].msg /\ outbox.terminal = Nobody

\* Both rows or neither: the run goes back to the queue and the outbox turns
\* to a new generation, if neither has moved since the sweep read them.
Redrive(r) ==
  /\ At(r, "redrive")
  /\ IF Redrivable(r)
       THEN /\ run' = [run EXCEPT !.status = "QUEUED", !.jobId = 0,
                                  !.lease = 0, !.live = FALSE]
            /\ outbox' = [outbox EXCEPT !.gen = outbox.gen + 1,
                                        !.status = "PENDING", !.msg = 0]
            /\ Continue(r, "dispatch")
       ELSE Return(r) /\ UNCHANGED <<run, outbox>>
  /\ UNCHANGED <<wk, mgr, queue, sent, committed, faults>>

SettleCancellation(r) ==
  /\ At(r, "settle")
  /\ CancelDeadRun
  /\ IF Dead /\ run.cancel THEN Continue(r, "closeOutbox") ELSE Return(r)
  /\ UNCHANGED <<outbox, wk, mgr, queue, sent, committed, faults>>

CloseOutbox(r) ==
  /\ At(r, "closeOutbox")
  /\ outbox' = IF outbox.gen = rc[r].gen /\ outbox.status \in Open
                THEN [outbox EXCEPT !.status = "CANCELLED"]
                ELSE outbox
  /\ Return(r)
  /\ UNCHANGED <<run, wk, mgr, queue, sent, committed, faults>>

\* failScheduleRunForQStash: the callback of a message given up, or a sweep
\* that finds the callback recorded earlier, runs the same statements.
Callback(r, x) ==
  /\ At(r, "idle") /\ x.left = 0
  /\ rc' = [rc EXCEPT ![r] =
              [pc |-> "terminal", gen |-> sent[x.id], msg |-> x.id,
               dead |-> 0, cancel |-> FALSE, cb |-> TRUE]]
  /\ UNCHANGED <<run, outbox, wk, mgr, queue, sent, committed, faults>>

\* QStash gives up a callback as well.
CallbackLost(x) ==
  /\ x.left = 0
  /\ Fault
  /\ queue' = queue \ {x}
  /\ UNCHANGED <<run, outbox, wk, rc, mgr, sent, committed>>

\* The end of the statements.  The route answers 204, unless the outcome is
\* "deferred"; the sweep goes on to a cancel it had seen.
Outcome(r, deferred) ==
  /\ queue' = IF rc[r].cb /\ ~deferred
              THEN queue \ {[id |-> rc[r].msg, left |-> 0]} ELSE queue
  /\ IF rc[r].cancel /\ ~deferred THEN Continue(r, "settle") ELSE Return(r)

RecordTerminal(r) ==
  /\ At(r, "terminal")
  /\ IF /\ outbox.gen = rc[r].gen /\ outbox.status \in Open
        /\ outbox.msg \in {0, rc[r].msg}
       THEN /\ outbox' = [outbox EXCEPT !.terminal = r,
                                        !.terminalMsg = rc[r].msg]
            /\ rc' = [rc EXCEPT ![r].pc = "failRun", ![r].dead = DeadLease]
            /\ UNCHANGED queue
       ELSE Outcome(r, FALSE) /\ UNCHANGED outbox
  /\ UNCHANGED <<run, wk, mgr, sent, committed, faults>>

\* consumeTerminalFailure clears the marker its caller recorded, no other.
Consume(r) ==
  outbox' = IF /\ outbox.gen = rc[r].gen /\ outbox.terminal = r
               /\ outbox.terminalMsg = rc[r].msg
            THEN [outbox EXCEPT !.status = "CANCELLED", !.terminal = Nobody,
                                !.terminalMsg = 0]
            ELSE outbox

\* The three statements of the transaction (READ COMMITTED): each sees what
\* was committed before it, not what the one before it saw.
FailRun(r) ==
  /\ At(r, "failRun")
  /\ IF /\ run.status \in Active /\ ~run.cancel
        /\ run.jobId \in {0, rc[r].msg}
        /\ run.lease \in {0, rc[r].dead}
       THEN /\ run' = [run EXCEPT !.status = "FAILED", !.jobId = rc[r].msg]
            /\ Consume(r)
            /\ Outcome(r, FALSE)
       ELSE Continue(r, "failCancel") /\ UNCHANGED <<run, outbox, queue>>
  /\ UNCHANGED <<wk, mgr, sent, committed, faults>>

FailCancel(r) ==
  /\ At(r, "failCancel")
  /\ IF run.status = "RUNNING" /\ run.cancel /\ run.lease = rc[r].dead
       THEN /\ run' = [run EXCEPT !.status = "CANCELLED", !.lease = 0]
            /\ Consume(r)
            /\ Outcome(r, FALSE)
       ELSE Continue(r, "failRead") /\ UNCHANGED <<run, outbox, queue>>
  /\ UNCHANGED <<wk, mgr, sent, committed, faults>>

FailRead(r) ==
  /\ At(r, "failRead")
  /\ IF run.status = "RUNNING" /\ run.lease # rc[r].dead
       THEN Outcome(r, TRUE)
       ELSE Continue(r, "consume") /\ UNCHANGED queue
  /\ UNCHANGED <<run, outbox, wk, mgr, sent, committed, faults>>

ConsumeIgnored(r) ==
  /\ At(r, "consume")
  /\ Consume(r)
  /\ Outcome(r, FALSE)
  /\ UNCHANGED <<run, wk, mgr, sent, committed, faults>>

ReconcilerCrash(r) ==
  /\ ~At(r, "idle")
  /\ Fault
  /\ Return(r)
  /\ UNCHANGED <<run, outbox, wk, mgr, queue, sent, committed>>

\* Five minutes pass since the last attempt to dispatch: what happens when a
\* message was lost, a fault while a message of this generation is under way.
InFlight ==
  \/ \E x \in queue : sent[x.id] = outbox.gen
  \/ \E w \in Worker : wk[w].held /\ sent[wk[w].msg] = outbox.gen

BecomeStale ==
  /\ ~outbox.stale /\ outbox.status \in Open
  /\ run.status \in Active /\ ~run.cancel
  /\ outbox' = [outbox EXCEPT !.stale = TRUE]
  /\ IF InFlight THEN Fault ELSE UNCHANGED faults
  /\ UNCHANGED <<run, wk, rc, mgr, queue, sent, committed>>

---------------------------------------------------------------------------
(* Managers: POST schedule-runs/:id/cancel.                                 *)

\* Mutant: the outbox is closed before the flag is in the row.
RequestCancelOutboxFirst(m) ==
  /\ mgr[m].pc = "idle" /\ run.status \in Active
  /\ mgr' = [mgr EXCEPT ![m] = [pc |-> "write", saw |-> run.status, job |-> 0]]
  /\ outbox' = IF outbox.status = "PENDING" /\ run.status # "RUNNING"
                THEN [outbox EXCEPT !.status = "CANCELLED"]
                ELSE outbox
  /\ UNCHANGED <<run, wk, rc, queue, sent, committed, faults>>

\* requestCancel reads the row and refuses a settled run ...
RequestCancel(m) ==
  /\ mgr[m].pc = "idle" /\ run.status \in Active
  /\ mgr' = [mgr EXCEPT ![m] = [pc |-> "write", saw |-> run.status, job |-> 0]]
  /\ UNCHANGED <<run, outbox, wk, rc, queue, sent, committed, faults>>

\* ... and then updates it by its id alone, on the strength of what it read.
WriteCancel(m) ==
  /\ mgr[m].pc = "write"
  /\ run' = [run EXCEPT !.cancel = TRUE,
               !.status = IF mgr[m].saw = "QUEUED" THEN "CANCELLED" ELSE @]
  /\ mgr' = [mgr EXCEPT ![m].pc = "outbox", ![m].job = run.jobId]
  /\ UNCHANGED <<outbox, wk, rc, queue, sent, committed, faults>>

CancelOutbox(m) ==
  /\ mgr[m].pc = "outbox"
  /\ outbox' = IF outbox.status = "PENDING" /\ run.status # "RUNNING"
                THEN [outbox EXCEPT !.status = "CANCELLED"]
                ELSE outbox
  /\ mgr' = [mgr EXCEPT ![m].pc = "remote"]
  /\ UNCHANGED <<run, wk, rc, queue, sent, committed, faults>>

\* Advisory: the waiting message of the job may be removed, or not.
CancelRemote(m) ==
  /\ mgr[m].pc = "remote"
  /\ mgr' = [mgr EXCEPT ![m] = IdleManager]
  /\ \/ UNCHANGED queue
     \/ queue' = {x \in queue : x.id # mgr[m].job}
  /\ UNCHANGED <<run, outbox, wk, rc, sent, committed, faults>>

---------------------------------------------------------------------------

WorkerStep(w) ==
  \/ \E x \in queue : Deliver(w, x)
  \/ ReadRun(w) \/ SettleCancelled(w) \/ Claim(w) \/ ReadAgain(w)
  \/ Progress(w) \/ Throw(w) \/ CheckCancelled(w) \/ MarkCancelled(w)
  \/ Commit(w) \/ Done(w) \/ HeartbeatMissed(w) \/ GiveUp(w)

RecoveryStep(r) ==
  \/ Sweep(r) \/ ReadDispatch(r) \/ Enqueue(r) \/ RecordPublished(r)
  \/ RecordAttemptFailure(r) \/ Redrive(r)
  \/ SettleCancellation(r) \/ CloseOutbox(r)
  \/ \E x \in queue : Callback(r, x)
  \/ RecordTerminal(r) \/ FailRun(r) \/ FailCancel(r) \/ FailRead(r)
  \/ ConsumeIgnored(r)

ManagerStep(m) ==
  RequestCancel(m) \/ WriteCancel(m) \/ CancelOutbox(m) \/ CancelRemote(m)

Next ==
  \/ \E w \in Worker : WorkerStep(w) \/ Crash(w) \/ Redeliver(w)
  \/ \E r \in Reconciler :
       RecoveryStep(r) \/ EnqueueFails(r) \/ ReconcilerCrash(r)
  \/ \E m \in Manager : ManagerStep(m)
  \/ \E x \in queue : CallbackLost(x)
  \/ LeaseExpires \/ BecomeStale

Spec == Init /\ [][Next]_vars

\* Workers and queue keep delivering, a started request or sweep carries on,
\* sweeps recur, and time passes.  Faults and managers are never owed.
Fairness ==
  /\ \A w \in Worker : WF_vars(WorkerStep(w))
  /\ \A r \in Reconciler : WF_vars(RecoveryStep(r))
  /\ \A m \in Manager :
       WF_vars(WriteCancel(m) \/ CancelOutbox(m) \/ CancelRemote(m))
  /\ WF_vars(LeaseExpires /\ ~Owned)
  /\ WF_vars(BecomeStale /\ ~InFlight)

FairSpec == Spec /\ Fairness

---------------------------------------------------------------------------
(* What must hold.                                                          *)

\* However often the run is delivered, redriven and taken over, at most one
\* attempt gets its drafts into the database (schedule-run.service.ts, the
\* lease fence of finish inside persistResult's transaction).
AtMostOneResult == \A a, b \in committed : a = b

\* Drafts in the database mean the run is over: no later delivery, redrive or
\* failure callback turns a run that wrote its result back into work, or fails
\* it.  CANCELLED is a cancel that was written after the result.
ResultEndsRun == committed # {} => run.status \in {"SUCCEEDED", "CANCELLED"}

\* "A cancel can never leave half a schedule behind": once the flag is in the
\* row no attempt commits a result, whatever it had checked before.
NoWriteAfterCancel == [][run.cancel => committed' = committed]_vars

\* A live lease belongs to a delivery of the current dispatch generation: a
\* redrive never leaves the old generation's worker able to write, and a late
\* worker of it never gets a lease (schedule-run.processor.ts, enqueue).
LiveLeaseIsCurrent ==
  \A w \in Worker :
    wk[w].pc \in Leased /\ Holds(w) => sent[wk[w].msg] = outbox.gen

\* The job id by which a cancel finds the remote message is the message the
\* outbox has on record for as long as the run is to be worked on (a failure
\* callback then stores the id of the message it is about).
JobIsOutboxMessage == run.status \in Active => run.jobId = outbox.msg

\* While a lease is live only its owner, or a manager's cancel, takes the run
\* out of RUNNING, and the dispatch is not redriven: a sweep or callback that
\* saw a dead lease does no harm to the attempt that replaced it.
LiveRunIsOwners ==
  [][run.status = "RUNNING" /\ run.live =>
       /\ outbox'.gen = outbox.gen
       /\ \/ run'.status = "RUNNING" /\ run'.lease = run.lease
          \/ run'.cancel
          \/ \E w \in Worker : wk[w].lease = run.lease /\ wk'[w] # wk[w]]_vars

\* A run that still has to be worked on keeps an outbox row the sweep selects:
\* without one no delivery is accepted and nothing redrives it.
NoStrandedRun ==
  run.status \in Active /\ ~run.cancel => outbox.status \in Open

\* Every run comes to an end, or hangs as the queued run with a cancel flag
\* that the cancel race leaves behind (see CancelSettles).
EveryRunEnds ==
  <>[](run.status \in Settled \/ (run.status = "QUEUED" /\ run.cancel))

\* A cancelled run stops: it does not stay RUNNING because its worker died, or
\* because its worker trips over the flag in a progress write.
CancelStopsRun == run.cancel ~> run.status # "RUNNING"

\* requestCancel: "A queued run never reaches the worker, so it is settled
\* here": whatever the run was doing, a cancel that was written settles it.
CancelSettles == run.cancel ~> run.status \in Settled

\* The run as its manager sees it.
Lifecycle == INSTANCE RunLifecycle WITH
  status <- run.status, cancelRequested <- run.cancel,
  results <- committed # {}

ImplementsLifecycle == Lifecycle!Spec

=============================================================================
