------------------------- MODULE ScheduleRunProofs -------------------------
(***************************************************************************)
(* Theorems about ScheduleRun for every number of workers, reconcilers,    *)
(* managers, deliveries and faults, and for both queues.                   *)
(***************************************************************************)
EXTENDS ScheduleRun, TLAPS

\* Every message that is queued or being delivered was published, and a
\* delivery that is being handled has not been counted yet.
MessagesOK ==
  /\ \A x \in queue : x.id \in DOMAIN sent
  /\ \A w \in Worker : wk[w].pc # "idle" =>
       wk[w].msg \in DOMAIN sent /\ wk[w].left > 0

TypeInv == TypeOK /\ MessagesOK

LEMMA TypeInit == Init => TypeInv
  BY FaultsAssumption
  DEF Init, TypeInv, TypeOK, MessagesOK, InitRun, InitOutbox, IdleWorker,
      IdleRecovery, IdleManager, RunRow, OutboxRow, WorkerState, WorkerPC,
      RecoveryState, RecoveryPC, ManagerState, Message, Active, Settled, Open,
      Nobody, Leased

\* A worker that finishes a delivery, one way or the other, leaves the types
\* intact: the deliveries that are left are counted down from at least one.
LEMMA AckType ==
  ASSUME TypeInv, NEW w \in Worker, Ack(w), UNCHANGED sent
  PROVE  /\ wk' \in [Worker -> WorkerState] /\ queue' \subseteq Message
         /\ MessagesOK'
  BY DEF Ack, TypeInv, TypeOK, MessagesOK, IdleWorker, WorkerState, WorkerPC

LEMMA NackType ==
  ASSUME TypeInv, NEW w \in Worker, wk[w].pc # "idle", Nack(w), UNCHANGED sent
  PROVE  /\ wk' \in [Worker -> WorkerState] /\ queue' \subseteq Message
         /\ MessagesOK'
  <1>1. wk' \in [Worker -> WorkerState]
    BY DEF Nack, TypeInv, TypeOK, IdleWorker, WorkerState, WorkerPC
  <1>2. [id |-> wk[w].msg, left |-> wk[w].left - 1] \in Message
        /\ wk[w].msg \in DOMAIN sent
    BY DEF TypeInv, TypeOK, MessagesOK, WorkerState, Message
  <1>3. queue' \subseteq Message
    BY <1>2 DEF Nack, TypeInv, TypeOK
  <1>4. \A x \in queue' : x.id \in DOMAIN sent
    BY <1>2 DEF Nack, TypeInv, TypeOK, MessagesOK
  <1>5. QED
    BY <1>1, <1>3, <1>4 DEF Nack, TypeInv, TypeOK, MessagesOK, IdleWorker

LEMMA GotoType ==
  ASSUME TypeInv, NEW w \in Worker, NEW pc \in WorkerPC, Goto(w, pc),
         wk[w].pc # "idle", UNCHANGED <<sent, queue>>
  PROVE  /\ wk' \in [Worker -> WorkerState] /\ queue' \subseteq Message
         /\ MessagesOK'
  BY DEF Goto, TypeInv, TypeOK, MessagesOK, WorkerState


LEMMA CancelDeadRunType ==
  ASSUME TypeInv, CancelDeadRun
  PROVE  run' \in RunRow
  <1>1. CASE Dead /\ run.cancel
    <2>1. run' = [run EXCEPT !.status = "CANCELLED", !.lease = 0]
      BY <1>1 DEF CancelDeadRun
    <2>2. QED
      BY <2>1 DEF TypeInv, TypeOK, RunRow, Active, Settled
  <1>2. CASE ~(Dead /\ run.cancel)
    BY <1>2 DEF CancelDeadRun, TypeInv, TypeOK
  <1>3. QED
    BY <1>1, <1>2

LEMMA WorkerType ==
  ASSUME TypeInv, NEW w \in Worker, WorkerStep(w)
  PROVE  TypeInv'
  <1> USE DEF TypeInv, TypeOK
  <1>1. ASSUME NEW x \in queue, Deliver(w, x) PROVE TypeInv'
    <2>1. /\ x \in Message /\ x.id \in DOMAIN sent /\ x.left > 0
      BY <1>1 DEF Deliver, MessagesOK
    <2>2. wk' \in [Worker -> WorkerState]
      BY <1>1, <2>1 DEF Deliver, WorkerState, WorkerPC, Message
    <2>3. MessagesOK'
      BY <1>1, <2>1 DEF Deliver, MessagesOK
    <2>4. QED
      BY <1>1, <2>2, <2>3 DEF Deliver
  <1>2. CASE ReadRun(w)
    <2>1. CASE Ack(w)
      BY <1>2, <2>1, AckType DEF ReadRun
    <2>2. CASE Goto(w, "settle") /\ UNCHANGED queue
      BY <1>2, <2>2, GotoType DEF ReadRun, WorkerPC
    <2>3. CASE Goto(w, "claim") /\ UNCHANGED queue
      BY <1>2, <2>3, GotoType DEF ReadRun, WorkerPC
    <2>4. QED
      BY <1>2, <2>1, <2>2, <2>3 DEF ReadRun
  <1>3. CASE SettleCancelled(w)
    <2>1. run' \in RunRow
      BY <1>3, CancelDeadRunType DEF SettleCancelled
    <2>2. wk' \in [Worker -> WorkerState] /\ queue' \subseteq Message /\ MessagesOK'
      <3>1. CASE Ack(w)
        BY <1>3, <3>1, AckType DEF SettleCancelled
      <3>2. CASE Goto(w, "afterSettle") /\ UNCHANGED queue
        BY <1>3, <3>2, GotoType DEF SettleCancelled, WorkerPC
      <3>3. QED
        BY <1>3, <3>1, <3>2 DEF SettleCancelled
    <2>3. QED
      BY <1>3, <2>1, <2>2 DEF SettleCancelled
  <1>4. CASE Claim(w)
    <2> DEFINE next == run.attempt + 1
    <2>1. next \in Nat
      BY DEF RunRow
    <2>2. /\ run' \in RunRow
          /\ wk' \in [Worker -> WorkerState]
      <3> HIDE DEF next
      <3>1. CASE /\ run' = [run EXCEPT !.status = "RUNNING", !.live = TRUE,
                                       !.lease = next, !.attempt = next]
                 /\ wk' = [wk EXCEPT ![w].pc = "prep", ![w].lease = next]
        <4>1. run' \in RunRow
          BY <2>1, <3>1 DEF RunRow, Active
        <4>2. [wk[w] EXCEPT !.pc = "prep", !.lease = next] \in WorkerState
          BY <2>1 DEF WorkerState, WorkerPC, Leased
        <4>3. wk' = [wk EXCEPT ![w] = [wk[w] EXCEPT !.pc = "prep", !.lease = next]]
          BY <3>1
        <4>4. QED
          BY <4>1, <4>2, <4>3
      <3>2. CASE Goto(w, "afterClaim") /\ UNCHANGED run
        BY <3>2 DEF Goto, WorkerState, WorkerPC
      <3>3. QED
        BY <1>4, <3>1, <3>2 DEF Claim, next
    <2>3. ASSUME NEW v \in Worker
          PROVE  /\ wk'[v].msg = wk[v].msg /\ wk'[v].left = wk[v].left
                 /\ wk'[v].pc # "idle" => wk[v].pc # "idle"
      <3>1. CASE v = w
        BY <1>4, <3>1 DEF Claim, Goto, WorkerState
      <3>2. CASE v # w
        BY <1>4, <3>2 DEF Claim, Goto
      <3>3. QED
        BY <3>1, <3>2
    <2>4. MessagesOK'
      BY <1>4, <2>3 DEF Claim, MessagesOK
    <2>5. QED
      BY <1>4, <2>2, <2>4 DEF Claim
  <1>5. CASE ReadAgain(w)
    <2>1. CASE Ack(w)
      BY <1>5, <2>1, AckType DEF ReadAgain
    <2>2. CASE Nack(w)
      BY <1>5, <2>2, NackType DEF ReadAgain
    <2>3. QED
      BY <1>5, <2>1, <2>2 DEF ReadAgain
  <1>6. CASE Progress(w)
    <2> DEFINE pc == IF MayWrite(w) THEN AfterProgress[wk[w].pc] ELSE "caught"
    <2>1. pc \in WorkerPC
      BY <1>6 DEF Progress, AfterProgress, WorkerPC, Leased
    <2>2. Goto(w, pc) /\ wk[w].pc # "idle"
      BY <1>6 DEF Progress, AfterProgress
    <2> HIDE DEF pc
    <2>3. QED
      BY <1>6, <2>1, <2>2, GotoType DEF Progress
  <1>7. CASE Throw(w)
    BY <1>7, GotoType DEF Throw, WorkerPC, Leased
  <1>8. CASE CheckCancelled(w)
    <2> DEFINE pc == IF run.cancel THEN "mark"
                     ELSE IF wk[w].pc = "check1" THEN "load" ELSE "write"
    <2>1. pc \in WorkerPC
      BY DEF WorkerPC, Leased
    <2>2. Goto(w, pc) /\ wk[w].pc # "idle"
      BY <1>8 DEF CheckCancelled
    <2> HIDE DEF pc
    <2>3. QED
      BY <1>8, <2>1, <2>2, GotoType DEF CheckCancelled
  <1>9. CASE MarkCancelled(w)
    <2>1. run' \in RunRow
      BY <1>9 DEF MarkCancelled, RunRow, Settled
    <2>2. wk[w].pc # "idle" /\ (Goto(w, "done") \/ Goto(w, "caught"))
      BY <1>9 DEF MarkCancelled
    <2>3. QED
      BY <1>9, <2>1, <2>2, GotoType DEF MarkCancelled, WorkerPC, Leased
  <1>10. CASE Commit(w)
    <2>1. run' \in RunRow
      BY <1>10 DEF Commit, RunRow, Settled
    <2>2. committed' \subseteq Nat
      BY <1>10 DEF Commit, WorkerState
    <2>3. wk[w].pc # "idle" /\ (Goto(w, "done") \/ Goto(w, "caught"))
      BY <1>10 DEF Commit
    <2>4. QED
      BY <1>10, <2>1, <2>2, <2>3, GotoType DEF Commit, WorkerPC, Leased
  <1>11. CASE Done(w)
    BY <1>11, AckType DEF Done
  <1>12. CASE HeartbeatMissed(w)
    BY <1>12, GotoType DEF HeartbeatMissed, WorkerPC, Leased
  <1>13. CASE GiveUp(w)
    <2>1. run' \in RunRow
      BY <1>13 DEF GiveUp, RunRow, Active, Settled
    <2>2. QED
      BY <1>13, <2>1, NackType DEF GiveUp
  <1>14. QED
    BY <1>1, <1>2, <1>3, <1>4, <1>5, <1>6, <1>7, <1>8, <1>9, <1>10, <1>11,
       <1>12, <1>13
    DEF WorkerStep


LEMMA FaultType ==
  ASSUME TypeInv, Fault
  PROVE  faults' \in 0..MaxFaults
  BY FaultsAssumption DEF Fault, TypeInv, TypeOK

LEMMA ReturnType ==
  ASSUME TypeInv, NEW r \in Reconciler, Return(r)
  PROVE  rc' \in [Reconciler -> RecoveryState]
  BY DEF Return, TypeInv, TypeOK, IdleRecovery, RecoveryState, RecoveryPC

LEMMA ContinueType ==
  ASSUME TypeInv, NEW r \in Reconciler, NEW pc \in RecoveryPC, Continue(r, pc)
  PROVE  rc' \in [Reconciler -> RecoveryState]
  BY DEF Continue, TypeInv, TypeOK, RecoveryState

LEMMA OutcomeType ==
  ASSUME TypeInv, NEW r \in Reconciler, NEW deferred \in BOOLEAN,
         Outcome(r, deferred)
  PROVE  /\ rc' \in [Reconciler -> RecoveryState]
         /\ queue' \subseteq queue
  <1>1. queue' \subseteq queue
    BY DEF Outcome
  <1>2. Continue(r, "settle") \/ Return(r)
    BY DEF Outcome
  <1>3. QED
    BY <1>1, <1>2, ContinueType, ReturnType DEF RecoveryPC

LEMMA ConsumeType ==
  ASSUME TypeInv, NEW r \in Reconciler, Consume(r)
  PROVE  outbox' \in OutboxRow
  <1>1. \/ outbox' = outbox
        \/ outbox' = [outbox EXCEPT !.status = "CANCELLED", !.terminal = Nobody,
                                    !.terminalMsg = 0]
    BY DEF Consume
  <1>2. CASE outbox' = outbox
    BY <1>2 DEF TypeInv, TypeOK
  <1>3. CASE outbox' = [outbox EXCEPT !.status = "CANCELLED",
                                      !.terminal = Nobody, !.terminalMsg = 0]
    BY <1>3 DEF TypeInv, TypeOK, OutboxRow
  <1>4. QED
    BY <1>1, <1>2, <1>3

\* MessagesOK depends on three variables, and survives a smaller queue.
LEMMA MessagesKept ==
  ASSUME MessagesOK, UNCHANGED <<wk, sent>>, queue' \subseteq queue
  PROVE  MessagesOK'
  BY DEF MessagesOK

\* Holding on to the id of a message that was just published, or was before.
LEMMA RecordType ==
  ASSUME NEW x \in RecoveryState, NEW i \in Nat
  PROVE  [x EXCEPT !.pc = "record", !.msg = i] \in RecoveryState
  BY DEF RecoveryState, RecoveryPC

LEMMA PublishType ==
  ASSUME TypeInv, NEW r \in Reconciler, Publish(r), UNCHANGED wk
  PROVE  /\ rc' \in [Reconciler -> RecoveryState]
         /\ sent' \in Seq(Nat) /\ queue' \subseteq Message /\ MessagesOK'
  <1> USE DEF TypeInv, TypeOK
  <1> DEFINE id == Len(sent) + 1
  <1>1. id \in Nat /\ rc[r].gen \in Nat
    BY DEF RecoveryState
  <1>2. sent' \in Seq(Nat) /\ Len(sent') = id /\ DOMAIN sent' = DOMAIN sent \cup {id}
    BY <1>1 DEF Publish
  <1>3. queue' = queue \cup {[id |-> id, left |-> MaxDeliveries]}
    BY DEF Publish
  <1>4. rc' = [rc EXCEPT ![r].pc = "record", ![r].msg = id]
    BY DEF Publish
  <1> HIDE DEF id
  <1>5. rc' \in [Reconciler -> RecoveryState]
    <2>1. [rc[r] EXCEPT !.pc = "record", !.msg = id] \in RecoveryState
      BY <1>1, RecordType
    <2>2. rc' = [rc EXCEPT ![r] = [rc[r] EXCEPT !.pc = "record", !.msg = id]]
      BY <1>4
    <2>3. QED
      BY <2>1, <2>2
  <1>6. queue' \subseteq Message
    BY <1>1, <1>3, DeliveriesAssumption DEF Message
  <1>7. MessagesOK'
    BY <1>2, <1>3 DEF MessagesOK
  <1>8. QED
    BY <1>2, <1>5, <1>6, <1>7


LEMMA RecoveryType ==
  ASSUME TypeInv, NEW r \in Reconciler, RecoveryStep(r)
  PROVE  TypeInv'
  <1> USE DEF TypeInv, TypeOK
  <1>0. run \in RunRow /\ outbox \in OutboxRow /\ rc[r] \in RecoveryState
        /\ DeadLease \in Nat
    BY DEF DeadLease, RunRow
  <1>1. CASE Sweep(r)
    <2>1. PICK pc \in {"terminal", "settle", "dispatch", "redrive"} :
            rc' = [rc EXCEPT ![r] =
                    [pc |-> pc, gen |-> outbox.gen,
                     msg |-> IF pc = "terminal" THEN outbox.terminalMsg
                             ELSE outbox.msg,
                     dead |-> DeadLease, cancel |-> run.cancel, cb |-> FALSE]]
      BY <1>1 DEF Sweep
    <2>2. rc' \in [Reconciler -> RecoveryState]
      BY <1>0, <2>1 DEF RecoveryState, RecoveryPC, OutboxRow, RunRow
    <2>3. QED
      BY <1>1, <2>2, MessagesKept DEF Sweep
  <1>2. CASE ReadDispatch(r)
    <2>1. rc' \in [Reconciler -> RecoveryState]
      <3>1. CASE Return(r)
        BY <3>1, ReturnType
      <3>2. CASE rc' = [rc EXCEPT ![r] =
                    [pc |-> "enqueue", gen |-> outbox.gen, msg |-> 0,
                     dead |-> 0, cancel |-> FALSE, cb |-> FALSE]]
        BY <1>0, <3>2 DEF RecoveryState, RecoveryPC, OutboxRow
      <3>3. QED
        BY <1>2, <3>1, <3>2 DEF ReadDispatch
    <2>2. QED
      BY <1>2, <2>1, MessagesKept DEF ReadDispatch
  <1>3. CASE Enqueue(r)
    <2>1. CASE Publish(r)
      <3>1. faults' \in 0..MaxFaults
        BY <1>3, FaultType DEF Enqueue
      <3>2. QED
        BY <1>3, <2>1, <3>1, PublishType DEF Enqueue
    <2>2. CASE /\ \E i \in Published(rc[r].gen) :
                   rc' = [rc EXCEPT ![r].pc = "record", ![r].msg = i]
               /\ UNCHANGED <<queue, sent, faults>>
      <3>1. PICK i \in DOMAIN sent :
              rc' = [rc EXCEPT ![r].pc = "record", ![r].msg = i]
        BY <2>2 DEF Published
      <3>2. i \in Nat
        OBVIOUS
      <3>3. rc' \in [Reconciler -> RecoveryState]
        <4>1. [rc[r] EXCEPT !.pc = "record", !.msg = i] \in RecoveryState
          BY <3>2, RecordType
        <4>2. rc' = [rc EXCEPT ![r] = [rc[r] EXCEPT !.pc = "record", !.msg = i]]
          <5>1. rc = [x \in Reconciler |-> rc[x]]
            OBVIOUS
          <5>2. QED
            BY <3>1, <5>1
        <4>3. QED
          BY <4>1, <4>2
      <3>4. MessagesOK'
        BY <1>3, <2>2, MessagesKept DEF Enqueue
      <3>5. QED
        BY <1>3, <2>2, <3>3, <3>4 DEF Enqueue
    <2>3. QED
      BY <1>3, <2>1, <2>2 DEF Enqueue
  <1>4. CASE RecordPublished(r)
    <2>1. CASE UNCHANGED <<run, outbox>>
      BY <1>4, <2>1, ReturnType, MessagesKept DEF RecordPublished
    <2>2. CASE /\ outbox' = [outbox EXCEPT !.status = "PUBLISHED",
                                           !.msg = rc[r].msg, !.stale = FALSE]
               /\ run' = [run EXCEPT !.jobId = rc[r].msg]
      <3>1. rc[r].msg \in Nat
        BY <1>0 DEF RecoveryState
      <3>2. outbox' \in OutboxRow
        BY <1>0, <2>2, <3>1 DEF OutboxRow, Open
      <3>3. run' \in RunRow
        BY <1>0, <2>2, <3>1 DEF RunRow
      <3>4. QED
        BY <1>4, <3>2, <3>3, ReturnType, MessagesKept DEF RecordPublished
    <2>3. QED
      BY <1>4, <2>1, <2>2 DEF RecordPublished
  <1>5. CASE RecordAttemptFailure(r)
    <2>1. outbox' = outbox \/ outbox' = [outbox EXCEPT !.stale = FALSE]
      BY <1>5 DEF RecordAttemptFailure
    <2>2. outbox' \in OutboxRow
      BY <1>0, <2>1 DEF OutboxRow
    <2>3. QED
      BY <1>5, <2>2, ReturnType, MessagesKept DEF RecordAttemptFailure
  <1>6. CASE Redrive(r)
    <2>1. CASE Return(r) /\ UNCHANGED <<run, outbox>>
      BY <1>6, <2>1, ReturnType, MessagesKept DEF Redrive
    <2>2. CASE /\ run' = [run EXCEPT !.status = "QUEUED", !.jobId = 0,
                                     !.lease = 0, !.live = FALSE]
               /\ outbox' = [outbox EXCEPT !.gen = outbox.gen + 1,
                                           !.status = "PENDING", !.msg = 0]
               /\ Continue(r, "dispatch")
      <3>1. run' \in RunRow
        BY <1>0, <2>2 DEF RunRow, Active
      <3>2. outbox.gen + 1 \in Nat
        BY <1>0 DEF OutboxRow
      <3>3. outbox' \in OutboxRow
        BY <1>0, <2>2, <3>2 DEF OutboxRow, Open
      <3>4. QED
        BY <1>6, <2>2, <3>1, <3>3, ContinueType, MessagesKept
        DEF Redrive, RecoveryPC
    <2>3. QED
      BY <1>6, <2>1, <2>2 DEF Redrive
  <1>7. CASE SettleCancellation(r)
    <2>1. rc' \in [Reconciler -> RecoveryState]
      BY <1>7, ContinueType, ReturnType DEF SettleCancellation, RecoveryPC
    <2>2. QED
      BY <1>7, <2>1, CancelDeadRunType, MessagesKept DEF SettleCancellation
  <1>8. CASE CloseOutbox(r)
    <2>1. outbox' = outbox \/ outbox' = [outbox EXCEPT !.status = "CANCELLED"]
      BY <1>8 DEF CloseOutbox
    <2>2. outbox' \in OutboxRow
      BY <1>0, <2>1 DEF OutboxRow
    <2>3. QED
      BY <1>8, <2>2, ReturnType, MessagesKept DEF CloseOutbox
  <1>9. ASSUME NEW x \in queue, Callback(r, x) PROVE TypeInv'
    <2>1. x.id \in Nat /\ sent[x.id] \in Nat
      BY DEF MessagesOK, Message
    <2>2. rc' = [rc EXCEPT ![r] = [pc |-> "terminal", gen |-> sent[x.id],
                   msg |-> x.id, dead |-> 0, cancel |-> FALSE, cb |-> TRUE]]
      BY <1>9 DEF Callback
    <2>3. rc' \in [Reconciler -> RecoveryState]
      BY <2>1, <2>2 DEF RecoveryState, RecoveryPC
    <2>4. QED
      BY <1>9, <2>3, MessagesKept DEF Callback
  <1>10. CASE RecordTerminal(r)
    <2>1. CASE Outcome(r, FALSE) /\ UNCHANGED outbox
      BY <1>10, <2>1, OutcomeType, MessagesKept DEF RecordTerminal
    <2>2. CASE /\ outbox' = [outbox EXCEPT !.terminal = r,
                                           !.terminalMsg = rc[r].msg]
               /\ rc' = [rc EXCEPT ![r].pc = "failRun", ![r].dead = DeadLease]
               /\ UNCHANGED queue
      <3>1. rc[r].msg \in Nat
        BY <1>0 DEF RecoveryState
      <3>2. outbox' \in OutboxRow
        BY <1>0, <2>2, <3>1 DEF OutboxRow
      <3>3. rc' \in [Reconciler -> RecoveryState]
        BY <1>0, <2>2 DEF RecoveryState, RecoveryPC
      <3>4. QED
        BY <1>10, <2>2, <3>2, <3>3, MessagesKept DEF RecordTerminal
    <2>3. QED
      BY <1>10, <2>1, <2>2 DEF RecordTerminal
  <1>11. CASE FailRun(r)
    <2>1. CASE Continue(r, "failCancel") /\ UNCHANGED <<run, outbox, queue>>
      BY <1>11, <2>1, ContinueType, MessagesKept DEF FailRun, RecoveryPC
    <2>2. CASE /\ run' = [run EXCEPT !.status = "FAILED", !.jobId = rc[r].msg]
               /\ Consume(r) /\ Outcome(r, FALSE)
      <3>1. rc[r].msg \in Nat
        BY <1>0 DEF RecoveryState
      <3>2. run' \in RunRow
        BY <1>0, <2>2, <3>1 DEF RunRow, Settled
      <3>3. QED
        BY <1>11, <2>2, <3>2, ConsumeType, OutcomeType, MessagesKept DEF FailRun
    <2>3. QED
      BY <1>11, <2>1, <2>2 DEF FailRun
  <1>12. CASE FailCancel(r)
    <2>1. CASE Continue(r, "failRead") /\ UNCHANGED <<run, outbox, queue>>
      BY <1>12, <2>1, ContinueType, MessagesKept DEF FailCancel, RecoveryPC
    <2>2. CASE /\ run' = [run EXCEPT !.status = "CANCELLED", !.lease = 0]
               /\ Consume(r) /\ Outcome(r, FALSE)
      <3>1. run' \in RunRow
        BY <1>0, <2>2 DEF RunRow, Settled
      <3>2. QED
        BY <1>12, <2>2, <3>1, ConsumeType, OutcomeType, MessagesKept
        DEF FailCancel
    <2>3. QED
      BY <1>12, <2>1, <2>2 DEF FailCancel
  <1>13. CASE FailRead(r)
    <2>1. CASE Outcome(r, TRUE)
      BY <1>13, <2>1, OutcomeType, MessagesKept DEF FailRead
    <2>2. CASE Continue(r, "consume") /\ UNCHANGED queue
      BY <1>13, <2>2, ContinueType, MessagesKept DEF FailRead, RecoveryPC
    <2>3. QED
      BY <1>13, <2>1, <2>2 DEF FailRead
  <1>14. CASE ConsumeIgnored(r)
    BY <1>14, ConsumeType, OutcomeType, MessagesKept DEF ConsumeIgnored
  <1>15. QED
    BY <1>1, <1>2, <1>3, <1>4, <1>5, <1>6, <1>7, <1>8, <1>9, <1>10, <1>11,
       <1>12, <1>13, <1>14
    DEF RecoveryStep


LEMMA ManagerType ==
  ASSUME TypeInv, NEW m \in Manager, ManagerStep(m)
  PROVE  TypeInv'
  <1> USE DEF TypeInv, TypeOK
  <1>1. CASE RequestCancel(m)
    BY <1>1, MessagesKept DEF RequestCancel, ManagerState, Active
  <1>2. CASE WriteCancel(m)
    <2>1. run' \in RunRow
      <3>1. \/ run' = [run EXCEPT !.cancel = TRUE, !.status = "CANCELLED"]
            \/ run' = [run EXCEPT !.cancel = TRUE]
        BY <1>2 DEF WriteCancel, RunRow
      <3>2. QED
        BY <3>1 DEF RunRow, Settled
    <2>2. run.jobId \in Nat
      BY DEF RunRow
    <2>3. mgr' \in [Manager -> ManagerState]
      BY <1>2, <2>2 DEF WriteCancel, ManagerState
    <2>4. QED
      BY <1>2, <2>1, <2>3, MessagesKept DEF WriteCancel
  <1>3. CASE CancelOutbox(m)
    <2>1. outbox' = outbox \/ outbox' = [outbox EXCEPT !.status = "CANCELLED"]
      BY <1>3 DEF CancelOutbox
    <2>2. outbox' \in OutboxRow
      BY <2>1 DEF OutboxRow
    <2>3. mgr' \in [Manager -> ManagerState]
      BY <1>3 DEF CancelOutbox, ManagerState
    <2>4. QED
      BY <1>3, <2>2, <2>3, MessagesKept DEF CancelOutbox
  <1>4. CASE CancelRemote(m)
    <2>1. mgr' \in [Manager -> ManagerState]
      BY <1>4 DEF CancelRemote, IdleManager, ManagerState
    <2>2. queue' \subseteq queue
      BY <1>4 DEF CancelRemote
    <2>3. QED
      BY <1>4, <2>1, <2>2, MessagesKept DEF CancelRemote
  <1>5. QED
    BY <1>1, <1>2, <1>3, <1>4 DEF ManagerStep

\* The steps that only a fault, or the clock, brings about.
Environment ==
  \/ \E w \in Worker : Crash(w) \/ Redeliver(w)
  \/ \E r \in Reconciler : EnqueueFails(r) \/ ReconcilerCrash(r)
  \/ \E x \in queue : CallbackLost(x)
  \/ LeaseExpires \/ BecomeStale

LEMMA EnvironmentType ==
  ASSUME TypeInv, Environment
  PROVE  TypeInv'
  <1> USE DEF TypeInv, TypeOK
  <1>1. ASSUME NEW w \in Worker, Crash(w) PROVE TypeInv'
    BY <1>1, AckType, NackType, FaultType DEF Crash
  <1>2. ASSUME NEW w \in Worker, Redeliver(w) PROVE TypeInv'
    <2> DEFINE left == IF Provider = "QSTASH" THEN wk[w].left - 1 ELSE wk[w].left
               copy == [id |-> wk[w].msg, left |-> left]
    <2>1. wk[w].msg \in DOMAIN sent /\ copy \in Message
      BY <1>2 DEF Redeliver, MessagesOK, Message, WorkerState
    <2>2. queue' = queue \cup {copy}
      BY <1>2 DEF Redeliver
    <2>3. copy.id = wk[w].msg
      OBVIOUS
    <2>4. wk' = [wk EXCEPT ![w].held = FALSE] /\ UNCHANGED sent
      BY <1>2 DEF Redeliver
    <2> HIDE DEF copy
    <2>5. wk' \in [Worker -> WorkerState]
      BY <2>4 DEF WorkerState
    <2>6. ASSUME NEW v \in Worker
          PROVE  /\ wk'[v].msg = wk[v].msg /\ wk'[v].left = wk[v].left
                 /\ wk'[v].pc = wk[v].pc
      BY <2>4 DEF WorkerState
    <2>7. MessagesOK'
      BY <2>1, <2>2, <2>3, <2>4, <2>6 DEF MessagesOK
    <2>8. queue' \subseteq Message
      BY <2>1, <2>2
    <2>9. QED
      BY <1>2, <2>5, <2>7, <2>8, FaultType DEF Redeliver
  <1>3. ASSUME NEW r \in Reconciler, EnqueueFails(r) PROVE TypeInv'
    BY <1>3, ContinueType, FaultType, MessagesKept DEF EnqueueFails, RecoveryPC
  <1>4. ASSUME NEW r \in Reconciler, ReconcilerCrash(r) PROVE TypeInv'
    BY <1>4, ReturnType, FaultType, MessagesKept DEF ReconcilerCrash
  <1>5. ASSUME NEW x \in queue, CallbackLost(x) PROVE TypeInv'
    BY <1>5, FaultType, MessagesKept DEF CallbackLost
  <1>6. CASE LeaseExpires
    <2>1. run' \in RunRow
      BY <1>6 DEF LeaseExpires, RunRow
    <2>2. faults' \in 0..MaxFaults
      BY <1>6, FaultType DEF LeaseExpires
    <2>3. QED
      BY <1>6, <2>1, <2>2, MessagesKept DEF LeaseExpires
  <1>7. CASE BecomeStale
    <2>1. outbox' \in OutboxRow
      BY <1>7 DEF BecomeStale, OutboxRow
    <2>2. faults' \in 0..MaxFaults
      BY <1>7, FaultType DEF BecomeStale
    <2>3. QED
      BY <1>7, <2>1, <2>2, MessagesKept DEF BecomeStale
  <1>8. QED
    BY <1>1, <1>2, <1>3, <1>4, <1>5, <1>6, <1>7 DEF Environment

\* Next, sorted by who takes the step.
LEMMA NextSplit ==
  ASSUME Next
  PROVE  \/ \E w \in Worker : WorkerStep(w)
         \/ \E r \in Reconciler : RecoveryStep(r)
         \/ \E m \in Manager : ManagerStep(m)
         \/ Environment
  BY DEF Next, Environment

LEMMA TypeStep == TypeInv /\ [Next]_vars => TypeInv'
  <1> SUFFICES ASSUME TypeInv, [Next]_vars PROVE TypeInv'
    OBVIOUS
  <1>1. CASE Next
    BY <1>1, NextSplit, WorkerType, RecoveryType, ManagerType, EnvironmentType
  <1>2. CASE UNCHANGED vars
    BY <1>2 DEF vars, TypeInv, TypeOK, MessagesOK
  <1>3. QED
    BY <1>1, <1>2

LEMMA TypeAlways == Spec => []TypeInv
  BY TypeInit, TypeStep, PTL DEF Spec

\* Every variable keeps its type, whatever is delivered, redelivered, lost or
\* interrupted; in particular no delivery count goes below zero.
THEOREM TypeCorrect == Spec => []TypeOK
  <1>1. TypeInv => TypeOK
    BY DEF TypeInv
  <1>2. QED
    BY <1>1, TypeAlways, PTL


---------------------------------------------------------------------------
(* The status machine.  StepEffect sorts the steps by what they do to the  *)
(* status, the cancel flag and the committed results; the results theorems *)
(* and the refinement of RunLifecycle follow from it.                      *)

\* A worker is about to mark the run cancelled only if that was asked for.
MarkMeansCancel == \A w \in Worker : wk[w].pc = "mark" => run.cancel

Becomes(status, cancel) ==
  /\ run'.status = status /\ run'.cancel = cancel
  /\ UNCHANGED committed

Keeps == Becomes(run.status, run.cancel)
Restarts == /\ run.status \in Active /\ ~run.cancel
            /\ \E s \in Active \cup {"FAILED"} : Becomes(s, FALSE)
Finishes == /\ run.status = "RUNNING" /\ ~run.cancel
            /\ run'.status = "SUCCEEDED" /\ ~run'.cancel
            /\ \E a \in Nat : committed' = committed \cup {a}
Asked == Becomes(run.status, TRUE) \/ Becomes("CANCELLED", TRUE)
Stops == run.status = "RUNNING" /\ run.cancel /\ Becomes("CANCELLED", TRUE)

StepEffect == Keeps \/ Restarts \/ Finishes \/ Asked \/ Stops

LEMMA CancelDeadRunEffect ==
  ASSUME TypeInv, CancelDeadRun, UNCHANGED committed
  PROVE  Keeps \/ Stops
  <1>1. CASE Dead /\ run.cancel
    <2>1. run' = [run EXCEPT !.status = "CANCELLED", !.lease = 0]
      BY <1>1 DEF CancelDeadRun
    <2>2. QED
      BY <1>1, <2>1 DEF Dead, Stops, Becomes, TypeInv, TypeOK, RunRow
  <1>2. CASE ~(Dead /\ run.cancel)
    BY <1>2 DEF CancelDeadRun, Keeps, Becomes
  <1>3. QED
    BY <1>1, <1>2

LEMMA WorkerEffect ==
  ASSUME TypeInv, MarkMeansCancel, NEW w \in Worker, WorkerStep(w)
  PROVE  StepEffect
  <1> run \in RunRow /\ wk[w] \in WorkerState
    BY DEF TypeInv, TypeOK
  <1>1. CASE UNCHANGED <<run, committed>>
    BY <1>1 DEF StepEffect, Keeps, Becomes
  <1>2. CASE SettleCancelled(w)
    BY <1>2, CancelDeadRunEffect DEF SettleCancelled, StepEffect
  <1>3. CASE Claim(w)
    <2>1. \/ UNCHANGED run
          \/ /\ run.status \in Active /\ ~run.cancel
             /\ run' = [run EXCEPT !.status = "RUNNING", !.live = TRUE,
                                   !.lease = run.attempt + 1,
                                   !.attempt = run.attempt + 1]
      BY <1>3 DEF Claim, Claimable, Dead, Active
    <2> DEFINE next == run.attempt + 1
    <2> HIDE DEF next
    <2>2. CASE UNCHANGED run
      BY <1>1, <1>3, <2>2 DEF Claim
    <2>3. CASE /\ run.status \in Active /\ ~run.cancel
               /\ run' = [run EXCEPT !.status = "RUNNING", !.live = TRUE,
                                     !.lease = next, !.attempt = next]
      <3>1. run'.status = "RUNNING" /\ run'.cancel = FALSE
        BY <2>3 DEF RunRow
      <3>2. QED
        BY <1>3, <2>3, <3>1 DEF Claim, StepEffect, Restarts, Becomes, Active
    <2>4. QED
      BY <2>1, <2>2, <2>3 DEF next
  <1>4. CASE MarkCancelled(w)
    <2>1. CASE Holds(w) /\ run' = [run EXCEPT !.status = "CANCELLED"]
      <3>1. run.cancel /\ run.status = "RUNNING"
        BY <1>4, <2>1 DEF MarkCancelled, MarkMeansCancel, Holds
      <3>2. run'.status = "CANCELLED" /\ run'.cancel = TRUE
        BY <2>1, <3>1 DEF RunRow
      <3>3. QED
        BY <1>4, <3>1, <3>2 DEF MarkCancelled, StepEffect, Stops, Becomes
    <2>2. QED
      BY <1>1, <1>4, <2>1 DEF MarkCancelled
  <1>5. CASE Commit(w)
    <2>1. CASE /\ MayWrite(w) /\ run' = [run EXCEPT !.status = "SUCCEEDED"]
               /\ committed' = committed \cup {wk[w].lease}
      <3>1. wk[w].lease \in Nat
        BY DEF WorkerState
      <3>2. /\ run.status = "RUNNING" /\ ~run.cancel
            /\ run'.status = "SUCCEEDED" /\ ~run'.cancel
        BY <2>1 DEF MayWrite, Holds, RunRow
      <3>3. QED
        BY <2>1, <3>1, <3>2 DEF StepEffect, Finishes
    <2>2. QED
      BY <1>1, <1>5, <2>1 DEF Commit
  <1>6. CASE GiveUp(w)
    <2>1. CASE MayWrite(w) /\ run' = [run EXCEPT !.status = "QUEUED",
                                        !.lease = 0, !.live = FALSE]
      <3>1. /\ run.status \in Active /\ ~run.cancel
            /\ run'.status = "QUEUED" /\ run'.cancel = FALSE
        BY <2>1 DEF MayWrite, Holds, RunRow, Active
      <3>2. QED
        BY <1>6, <3>1 DEF GiveUp, StepEffect, Restarts, Becomes, Active
    <2>2. CASE MayWrite(w) /\ run' = [run EXCEPT !.status = "FAILED"]
      <3>1. /\ run.status \in Active /\ ~run.cancel
            /\ run'.status = "FAILED" /\ run'.cancel = FALSE
        BY <2>2 DEF MayWrite, Holds, RunRow, Active
      <3>2. QED
        BY <1>6, <3>1 DEF GiveUp, StepEffect, Restarts, Becomes
    <2>3. QED
      BY <1>1, <1>6, <2>1, <2>2 DEF GiveUp
  <1>7. QED
    BY <1>1, <1>2, <1>3, <1>4, <1>5, <1>6
    DEF WorkerStep, Deliver, ReadRun, ReadAgain, Progress, Throw,
        CheckCancelled, Done, HeartbeatMissed

LEMMA RecoveryEffect ==
  ASSUME TypeInv, NEW r \in Reconciler, RecoveryStep(r)
  PROVE  StepEffect
  <1> run \in RunRow
    BY DEF TypeInv, TypeOK
  <1>1. CASE UNCHANGED <<run, committed>>
    BY <1>1 DEF StepEffect, Keeps, Becomes
  <1>2. CASE RecordPublished(r)
    <2>1. CASE run' = [run EXCEPT !.jobId = rc[r].msg]
      <3>1. run'.status = run.status /\ run'.cancel = run.cancel
        BY <2>1 DEF RunRow
      <3>2. QED
        BY <1>2, <3>1 DEF RecordPublished, StepEffect, Keeps, Becomes
    <2>2. QED
      BY <1>1, <1>2, <2>1 DEF RecordPublished
  <1>3. CASE Redrive(r)
    <2>1. CASE /\ run.status \in Active /\ ~run.cancel
               /\ run' = [run EXCEPT !.status = "QUEUED", !.jobId = 0,
                                     !.lease = 0, !.live = FALSE]
      <3>1. run'.status = "QUEUED" /\ run'.cancel = FALSE
        BY <2>1 DEF RunRow
      <3>2. QED
        BY <1>3, <2>1, <3>1 DEF Redrive, StepEffect, Restarts, Becomes, Active
    <2>2. QED
      BY <1>1, <1>3, <2>1 DEF Redrive, Redrivable, Active
  <1>4. CASE SettleCancellation(r)
    BY <1>4, CancelDeadRunEffect DEF SettleCancellation, StepEffect
  <1>5. CASE FailRun(r)
    <2>1. CASE /\ run.status \in Active /\ ~run.cancel
               /\ run' = [run EXCEPT !.status = "FAILED", !.jobId = rc[r].msg]
      <3>1. run'.status = "FAILED" /\ run'.cancel = FALSE
        BY <2>1 DEF RunRow
      <3>2. QED
        BY <1>5, <2>1, <3>1 DEF FailRun, StepEffect, Restarts, Becomes
    <2>2. QED
      BY <1>1, <1>5, <2>1 DEF FailRun
  <1>6. CASE FailCancel(r)
    <2>1. CASE /\ run.status = "RUNNING" /\ run.cancel
               /\ run' = [run EXCEPT !.status = "CANCELLED", !.lease = 0]
      <3>1. run'.status = "CANCELLED" /\ run'.cancel = TRUE
        BY <2>1 DEF RunRow
      <3>2. QED
        BY <1>6, <2>1, <3>1 DEF FailCancel, StepEffect, Stops, Becomes
    <2>2. QED
      BY <1>1, <1>6, <2>1 DEF FailCancel
  <1>7. QED
    BY <1>1, <1>2, <1>3, <1>4, <1>5, <1>6
    DEF RecoveryStep, Sweep, ReadDispatch, Enqueue, RecordAttemptFailure,
        CloseOutbox, Callback, RecordTerminal, FailRead, ConsumeIgnored


LEMMA OtherEffect ==
  ASSUME TypeInv, (\E m \in Manager : ManagerStep(m)) \/ Environment
  PROVE  StepEffect
  <1> run \in RunRow
    BY DEF TypeInv, TypeOK
  <1>1. CASE UNCHANGED <<run, committed>>
    BY <1>1 DEF StepEffect, Keeps, Becomes
  <1>2. ASSUME NEW m \in Manager, WriteCancel(m) PROVE StepEffect
    <2>1. \/ run' = [run EXCEPT !.cancel = TRUE, !.status = "CANCELLED"]
          \/ run' = [run EXCEPT !.cancel = TRUE]
      BY <1>2 DEF WriteCancel, RunRow
    <2>2. run'.cancel = TRUE /\ run'.status \in {run.status, "CANCELLED"}
      BY <2>1 DEF RunRow
    <2>3. QED
      BY <1>2, <2>2 DEF WriteCancel, StepEffect, Asked, Becomes
  <1>3. CASE LeaseExpires
    <2>1. run'.status = run.status /\ run'.cancel = run.cancel
      BY <1>3 DEF LeaseExpires, RunRow
    <2>2. QED
      BY <1>3, <2>1 DEF LeaseExpires, StepEffect, Keeps, Becomes
  <1>4. QED
    BY <1>1, <1>2, <1>3
    DEF ManagerStep, RequestCancel, CancelOutbox, CancelRemote, Environment,
        Crash, Redeliver, EnqueueFails, ReconcilerCrash, CallbackLost,
        BecomeStale

LEMMA Effect ==
  ASSUME TypeInv, MarkMeansCancel, [Next]_vars
  PROVE  StepEffect
  <1>1. CASE Next
    BY <1>1, NextSplit, WorkerEffect, RecoveryEffect, OtherEffect
  <1>2. CASE UNCHANGED vars
    BY <1>2 DEF vars, StepEffect, Keeps, Becomes
  <1>3. QED
    BY <1>1, <1>2

\* The flag is never taken back, and a worker goes to "mark" only on reading it.
LEMMA MarkStep == TypeInv /\ MarkMeansCancel /\ [Next]_vars => MarkMeansCancel'
  <1> SUFFICES ASSUME TypeInv, MarkMeansCancel, [Next]_vars,
                      NEW v \in Worker, wk'[v].pc = "mark"
               PROVE  run'.cancel
    BY DEF MarkMeansCancel
  <1> wk \in [Worker -> WorkerState]
    BY DEF TypeInv, TypeOK
  <1>1. run.cancel => run'.cancel
    BY Effect
    DEF StepEffect, Keeps, Restarts, Finishes, Asked, Stops, Becomes
  <1>2. wk[v].pc = "mark" => run'.cancel
    BY <1>1 DEF MarkMeansCancel
  <1>3. ASSUME wk[v].pc # "mark" PROVE run.cancel
    <2>1. wk' # wk
      BY <1>3
    <2>2. PICK w \in Worker : WorkerStep(w) \/ Crash(w) \/ Redeliver(w)
      BY <2>1
      DEF Next, vars, RecoveryStep, Sweep, ReadDispatch, Enqueue,
          RecordPublished, RecordAttemptFailure, Redrive, SettleCancellation,
          CloseOutbox, Callback, RecordTerminal, FailRun, FailCancel, FailRead,
          ConsumeIgnored, EnqueueFails, ReconcilerCrash, ManagerStep,
          RequestCancel, WriteCancel, CancelOutbox, CancelRemote, CallbackLost,
          LeaseExpires, BecomeStale
    <2>3. ASSUME NEW pc, Goto(w, pc) PROVE pc = "mark"
      BY <1>3, <2>3 DEF Goto, WorkerState
    <2>4. CASE CheckCancelled(w)
      BY <2>3, <2>4 DEF CheckCancelled
    <2>5. ~Ack(w) /\ ~Nack(w)
      BY <1>3 DEF Ack, Nack, IdleWorker, WorkerState
    <2>6. CASE Redeliver(w)
      BY <1>3, <2>6 DEF Redeliver, WorkerState
    <2>7. ASSUME NEW x \in queue, Deliver(w, x) PROVE FALSE
      BY <1>3, <2>7 DEF Deliver, WorkerState
    <2>8. CASE Claim(w)
      BY <1>3, <2>3, <2>8 DEF Claim, WorkerState
    <2>9. CASE Progress(w)
      BY <2>3, <2>9 DEF Progress, AfterProgress
    <2>10. QED
      BY <2>2, <2>3, <2>4, <2>5, <2>6, <2>7, <2>8, <2>9
      DEF WorkerStep, ReadRun, SettleCancelled, ReadAgain, Throw, MarkCancelled,
          Commit, Done, HeartbeatMissed, GiveUp, Crash
  <1>4. QED
    BY <1>2, <1>3, <1>1


\* The inductive invariant of the results: a result is committed by a RUNNING
\* run only, which therefore has none yet, and it ends the run for good.
ResultInv == TypeInv /\ MarkMeansCancel /\ ResultEndsRun /\ AtMostOneResult

LEMMA ResultInit == Init => ResultInv
  BY TypeInit
  DEF Init, ResultInv, MarkMeansCancel, ResultEndsRun, AtMostOneResult,
      IdleWorker

LEMMA ResultStep == ResultInv /\ [Next]_vars => ResultInv'
  <1> SUFFICES ASSUME ResultInv, [Next]_vars PROVE ResultInv'
    OBVIOUS
  <1>1. TypeInv' /\ MarkMeansCancel'
    BY TypeStep, MarkStep DEF ResultInv
  <1>2. ResultEndsRun' /\ AtMostOneResult'
    <2> USE DEF ResultInv, ResultEndsRun, AtMostOneResult
    <2>1. StepEffect
      BY Effect
    <2>2. CASE Keeps \/ Asked
      BY <2>2 DEF Keeps, Asked, Becomes
    <2>3. CASE Restarts
      BY <2>3 DEF Restarts, Becomes, Active
    <2>4. CASE Stops
      BY <2>4 DEF Stops, Becomes
    <2>5. CASE Finishes
      <3>1. committed = {}
        BY <2>5 DEF Finishes
      <3>2. QED
        BY <2>5, <3>1 DEF Finishes
    <2>6. QED
      BY <2>1, <2>2, <2>3, <2>4, <2>5 DEF StepEffect
  <1>3. QED
    BY <1>1, <1>2 DEF ResultInv

LEMMA ResultAlways == Spec => []ResultInv
  BY ResultInit, ResultStep, PTL DEF Spec

\* At most one attempt writes the drafts of the run, however many workers hold
\* a delivery of it and however often it is redriven.
THEOREM OneResult == Spec => []AtMostOneResult
  <1>1. ResultInv => AtMostOneResult
    BY DEF ResultInv
  <1>2. QED
    BY <1>1, ResultAlways, PTL

\* A run whose drafts are written never goes back to work and never fails.
THEOREM ResultIsFinal == Spec => []ResultEndsRun
  <1>1. ResultInv => ResultEndsRun
    BY DEF ResultInv
  <1>2. QED
    BY <1>1, ResultAlways, PTL

\* No attempt commits once the cancel flag is in the row, whichever check it
\* passed before the flag was set.
THEOREM NoResultAfterCancel == Spec => NoWriteAfterCancel
  <1>1. ResultInv /\ [Next]_vars => [run.cancel => committed' = committed]_vars
    BY Effect
    DEF ResultInv, StepEffect, Keeps, Restarts, Finishes, Asked, Stops, Becomes
  <1>2. QED
    BY <1>1, ResultAlways, PTL DEF Spec, NoWriteAfterCancel

\* The run with its workers, leases, outbox and queue implements the status
\* machine a manager is promised: each step is one of its steps or none.
THEOREM Refinement == Spec => ImplementsLifecycle
  <1>1. Init => Lifecycle!Init
    BY DEF Init, InitRun, Lifecycle!Init
  <1>2. ResultInv /\ [Next]_vars => [Lifecycle!Next]_(Lifecycle!vars)
    <2> SUFFICES ASSUME ResultInv, [Next]_vars
                 PROVE  [Lifecycle!Next]_(Lifecycle!vars)
      OBVIOUS
    <2> run \in RunRow
      BY DEF ResultInv, TypeInv, TypeOK
    <2>1. StepEffect
      BY Effect DEF ResultInv
    <2>2. CASE Keeps
      BY <2>2 DEF Keeps, Becomes, Lifecycle!vars
    <2>3. CASE Restarts
      <3>1. PICK s \in {"QUEUED", "RUNNING", "FAILED"} : Becomes(s, FALSE)
        BY <2>3 DEF Restarts, Active
      <3>2. /\ run.status \in {"QUEUED", "RUNNING"} /\ ~run.cancel
            /\ run'.cancel = run.cancel /\ committed' = committed
            /\ run'.status = s
        BY <2>3, <3>1 DEF Restarts, Becomes, Active, RunRow
      <3>3. s = "RUNNING" => Lifecycle!Start
        BY <3>2 DEF Lifecycle!Start
      <3>4. s = "QUEUED" => Lifecycle!Requeue
        BY <3>2 DEF Lifecycle!Requeue
      <3>5. s = "FAILED" => Lifecycle!Fail
        BY <3>2 DEF Lifecycle!Fail
      <3>6. QED
        BY <3>1, <3>3, <3>4, <3>5 DEF Lifecycle!Next
    <2>4. CASE Finishes
      <3>1. run'.cancel = run.cancel
        <4>1. run' \in RunRow
          BY TypeStep DEF ResultInv, TypeInv, TypeOK
        <4>2. QED
          BY <2>4, <4>1 DEF Finishes, RunRow
      <3>2. (committed' # {}) = TRUE
        BY <2>4 DEF Finishes
      <3>3. Lifecycle!Finish
        BY <2>4, <3>1, <3>2 DEF Finishes, Lifecycle!Finish
      <3>4. QED
        BY <3>3 DEF Lifecycle!Next
    <2>5. CASE Asked
      BY <2>5 DEF Asked, Becomes, Lifecycle!Next, Lifecycle!RequestCancel
    <2>6. CASE Stops
      BY <2>6 DEF Stops, Becomes, RunRow, Lifecycle!Next, Lifecycle!Stop
    <2>7. QED
      BY <2>1, <2>2, <2>3, <2>4, <2>5, <2>6 DEF StepEffect
  <1>3. QED
    BY <1>1, <1>2, ResultAlways, PTL DEF Spec, ImplementsLifecycle, Lifecycle!Spec

---------------------------------------------------------------------------
(* The execution lease (whose it is, and that nothing a sweep or a         *)
(* callback saw earlier is used against a later owner) and the dispatch    *)
(* row (what it has in common with the run row).                           *)


\* Leases are numbered by attempts, so a lease of the next attempt is new to
\* everyone: no worker and no reconciler holds its number.
LeasesNumbered ==
  /\ run.status = "RUNNING" => run.lease # 0
  /\ run.lease <= run.attempt
  /\ \A w \in Worker : wk[w].lease <= run.attempt
  /\ \A r \in Reconciler : rc[r].dead <= run.attempt

\* A lease a reconciler found expired is never live again.
DeadStaysDead ==
  \A r \in Reconciler :
    rc[r].dead # 0 /\ run.status = "RUNNING" /\ run.lease = rc[r].dead
      => ~run.live

\* The owner of the lease, live or not, was delivered by the current dispatch.
OwnerIsCurrent ==
  \A w \in Worker :
    wk[w].pc \in Leased /\ run.status = "RUNNING" /\ run.lease = wk[w].lease
      => sent[wk[w].msg] = outbox.gen

LeaseInv == TypeInv /\ LeasesNumbered /\ DeadStaysDead /\ OwnerIsCurrent

---------------------------------------------------------------------------
(* What a step does to the lease of the run, to the leases the processes   *)
(* hold, and to the dispatch generation.                                   *)

LeaseKept ==
  /\ run'.lease = run.lease /\ run'.attempt = run.attempt
  /\ run'.status = "RUNNING" => run.status = "RUNNING"
  /\ run'.live => run.live

LeaseDropped ==
  /\ run'.lease = 0 /\ run'.attempt = run.attempt /\ run'.status # "RUNNING"

LeaseClaimed ==
  /\ run'.lease = run.attempt + 1 /\ run'.attempt = run.attempt + 1

RunEffect == LeaseKept \/ LeaseDropped \/ LeaseClaimed

Carries(w) ==
  /\ wk[w].pc \in Leased
  /\ wk'[w].lease = wk[w].lease /\ wk'[w].msg = wk[w].msg

Takes(w) ==
  /\ wk'[w].lease = run.attempt + 1 /\ LeaseClaimed
  /\ wk'[w].msg = wk[w].msg /\ wk[w].msg \in DOMAIN sent
  /\ sent[wk[w].msg] = outbox.gen

WorkersEffect ==
  \A w \in Worker :
    /\ wk'[w].lease \in {0, wk[w].lease} \/ Takes(w)
    /\ wk'[w].pc \in Leased => Carries(w) \/ Takes(w)

ReconcilersEffect ==
  \A r \in Reconciler :
    \/ rc'[r].dead \in {0, rc[r].dead}
    \/ rc'[r].dead = DeadLease /\ UNCHANGED run

DispatchEffect ==
  /\ outbox'.gen = outbox.gen \/ run'.status # "RUNNING"
  /\ \A i \in DOMAIN sent : sent'[i] = sent[i]

LeaseEffect ==
  RunEffect /\ WorkersEffect /\ ReconcilersEffect /\ DispatchEffect

\* A step that leaves the rows and the reconcilers alone.
LEMMA RowsKept ==
  ASSUME UNCHANGED <<run, outbox, rc, sent>>
  PROVE  RunEffect /\ ReconcilersEffect /\ DispatchEffect
  BY DEF RunEffect, LeaseKept, ReconcilersEffect, DispatchEffect

LEMMA WorkersKept ==
  ASSUME UNCHANGED wk, TypeInv
  PROVE  WorkersEffect
  BY DEF WorkersEffect, Carries

\* A worker that is done drops its lease; one that goes on keeps it.
LEMMA LeaveEffect ==
  ASSUME TypeInv, NEW w \in Worker, Ack(w) \/ Nack(w)
  PROVE  WorkersEffect
  <1>1. wk' = [wk EXCEPT ![w] = IdleWorker]
    BY DEF Ack, Nack
  <1>2. IdleWorker.lease = 0 /\ IdleWorker.pc \notin Leased
    BY DEF IdleWorker, Leased
  <1>3. wk'[w] = IdleWorker /\ \A v \in Worker : v # w => wk'[v] = wk[v]
    BY <1>1 DEF TypeInv, TypeOK
  <1>4. QED
    BY <1>2, <1>3 DEF WorkersEffect, Carries

LEMMA GotoEffect ==
  ASSUME TypeInv, NEW w \in Worker, NEW pc, Goto(w, pc),
         pc \in Leased => wk[w].pc \in Leased
  PROVE  WorkersEffect
  BY DEF Goto, WorkersEffect, Carries, TypeInv, TypeOK, WorkerState

LEMMA CancelDeadLease ==
  ASSUME TypeInv, CancelDeadRun
  PROVE  RunEffect
  <1>1. CASE Dead /\ run.cancel
    <2>1. run' = [run EXCEPT !.status = "CANCELLED", !.lease = 0]
      BY <1>1 DEF CancelDeadRun
    <2>2. QED
      BY <2>1 DEF RunEffect, LeaseDropped, TypeInv, TypeOK, RunRow
  <1>2. CASE UNCHANGED run
    BY <1>2 DEF RunEffect, LeaseKept
  <1>3. QED
    BY <1>1, <1>2 DEF CancelDeadRun

LEMMA WorkerLease ==
  ASSUME TypeInv, NEW w \in Worker, WorkerStep(w)
  PROVE  LeaseEffect
  <1> USE DEF LeaseEffect
  <1>1. rc' = rc /\ sent' = sent /\ outbox' = outbox
    BY DEF WorkerStep, Deliver, ReadRun, SettleCancelled, Claim, ReadAgain,
           Progress, Throw, CheckCancelled, MarkCancelled, Commit, Done,
           HeartbeatMissed, GiveUp
  <1>2. ReconcilersEffect /\ DispatchEffect
    BY <1>1 DEF ReconcilersEffect, DispatchEffect
  <1>3. ASSUME NEW x \in queue, Deliver(w, x) PROVE LeaseEffect
    <2>1. RunEffect
      BY <1>3 DEF Deliver, RunEffect, LeaseKept
    <2>2. CASE UNCHANGED wk
      BY <1>2, <2>1, <2>2, WorkersKept
    <2>3. CASE wk' = [wk EXCEPT ![w] = [pc |-> "read", msg |-> x.id,
                                        left |-> x.left, lease |-> 0,
                                        held |-> TRUE]]
      <3>1. wk'[w].lease = 0 /\ wk'[w].pc \notin Leased
        BY <2>3 DEF TypeInv, TypeOK, Leased
      <3>2. \A v \in Worker : v # w => wk'[v] = wk[v]
        BY <2>3 DEF TypeInv, TypeOK
      <3>3. QED
        BY <1>2, <2>1, <3>1, <3>2 DEF WorkersEffect, Carries
    <2>4. QED
      BY <1>3, <2>2, <2>3 DEF Deliver
  <1>4. CASE ReadRun(w) \/ ReadAgain(w) \/ Done(w)
    <2>1. RunEffect
      BY <1>4 DEF ReadRun, ReadAgain, Done, RunEffect, LeaseKept
    <2>2. WorkersEffect
      BY <1>4, LeaveEffect, GotoEffect DEF ReadRun, ReadAgain, Done, Leased
    <2>3. QED
      BY <1>2, <2>1, <2>2
  <1>5. CASE SettleCancelled(w)
    <2>1. WorkersEffect
      BY <1>5, LeaveEffect, GotoEffect DEF SettleCancelled, Leased
    <2>2. QED
      BY <1>2, <1>5, <2>1, CancelDeadLease DEF SettleCancelled
  <1>6. CASE Claim(w)
    <2> DEFINE next == run.attempt + 1
    <2> HIDE DEF next
    <2>1. CASE /\ Claimable(w)
               /\ run' = [run EXCEPT !.status = "RUNNING", !.live = TRUE,
                                     !.lease = next, !.attempt = next]
               /\ wk' = [wk EXCEPT ![w].pc = "prep", ![w].lease = next]
      <3>1. run'.lease = next /\ run'.attempt = next
        BY <2>1 DEF TypeInv, TypeOK, RunRow
      <3>2. /\ wk'[w].lease = next /\ wk'[w].msg = wk[w].msg
            /\ \A v \in Worker : v # w => wk'[v] = wk[v]
        BY <2>1 DEF TypeInv, TypeOK, WorkerState
      <3>3. wk[w].msg \in DOMAIN sent /\ sent[wk[w].msg] = outbox.gen
        BY <1>6, <2>1 DEF Claim, Claimable, TypeInv, MessagesOK
      <3>4. LeaseClaimed
        BY <3>1 DEF LeaseClaimed, next
      <3>5. Takes(w)
        BY <3>2, <3>3, <3>4 DEF Takes, next
      <3>6. QED
        BY <1>2, <3>2, <3>4, <3>5 DEF WorkersEffect, Carries, RunEffect
    <2>2. CASE Goto(w, "afterClaim") /\ UNCHANGED run
      <3>1. WorkersEffect
        BY <2>2, GotoEffect DEF Leased
      <3>2. QED
        BY <1>2, <2>2, <3>1 DEF RunEffect, LeaseKept
    <2>3. QED
      BY <1>6, <2>1, <2>2 DEF Claim, next
  <1>7. CASE Progress(w) \/ Throw(w) \/ CheckCancelled(w) \/ HeartbeatMissed(w)
    <2>1. RunEffect
      BY <1>7 DEF Progress, Throw, CheckCancelled, HeartbeatMissed, RunEffect,
                  LeaseKept
    <2>2. wk[w].pc \in Leased /\ \E pc : Goto(w, pc)
      BY <1>7 DEF Progress, Throw, CheckCancelled, HeartbeatMissed, Leased,
                  AfterProgress
    <2>3. QED
      BY <1>2, <2>1, <2>2, GotoEffect
  <1>8. CASE MarkCancelled(w) \/ Commit(w) \/ GiveUp(w)
    <2>1. WorkersEffect
      BY <1>8, LeaveEffect, GotoEffect DEF MarkCancelled, Commit, GiveUp, Leased
    <2>2. \/ UNCHANGED run
          \/ run' = [run EXCEPT !.status = "CANCELLED"]
          \/ run' = [run EXCEPT !.status = "SUCCEEDED"]
          \/ run' = [run EXCEPT !.status = "FAILED"]
          \/ run' = [run EXCEPT !.status = "QUEUED", !.lease = 0, !.live = FALSE]
      BY <1>8 DEF MarkCancelled, Commit, GiveUp
    <2>3. RunEffect
      BY <2>2 DEF RunEffect, LeaseKept, LeaseDropped, TypeInv, TypeOK, RunRow
    <2>4. QED
      BY <1>2, <2>1, <2>3
  <1>9. QED
    BY <1>3, <1>4, <1>5, <1>6, <1>7, <1>8 DEF WorkerStep

\* Reconcilers: what they keep of a lease is what they saw expired just now.
LEMMA ReturnDead ==
  ASSUME TypeInv, NEW r \in Reconciler, Return(r)
  PROVE  ReconcilersEffect
  <1>1. /\ rc'[r].dead = 0
        /\ \A q \in Reconciler : q # r => rc'[q] = rc[q]
    BY DEF Return, IdleRecovery, TypeInv, TypeOK
  <1>2. QED
    BY <1>1 DEF ReconcilersEffect

LEMMA ContinueDead ==
  ASSUME TypeInv, NEW r \in Reconciler, NEW pc, Continue(r, pc)
  PROVE  ReconcilersEffect
  BY DEF Continue, ReconcilersEffect, TypeInv, TypeOK, RecoveryState

LEMMA OutcomeDead ==
  ASSUME TypeInv, NEW r \in Reconciler, NEW deferred, Outcome(r, deferred)
  PROVE  ReconcilersEffect
  BY ReturnDead, ContinueDead DEF Outcome

LEMMA RecoveryLease ==
  ASSUME TypeInv, NEW r \in Reconciler, RecoveryStep(r)
  PROVE  LeaseEffect
  <1> USE DEF LeaseEffect
  <1>1. WorkersEffect
    <2>1. UNCHANGED wk
      BY DEF RecoveryStep, Sweep, ReadDispatch, Enqueue, RecordPublished,
             RecordAttemptFailure, Redrive, SettleCancellation, CloseOutbox,
             Callback, RecordTerminal, FailRun, FailCancel, FailRead,
             ConsumeIgnored
    <2>2. QED
      BY <2>1, WorkersKept
  <1>2. ReconcilersEffect
    <2>1. CASE Sweep(r)
      <3>1. /\ rc'[r].dead = DeadLease /\ UNCHANGED run
            /\ \A q \in Reconciler : q # r => rc'[q] = rc[q]
        BY <2>1 DEF Sweep, TypeInv, TypeOK
      <3>2. QED
        BY <3>1 DEF ReconcilersEffect
    <2>2. CASE ReadDispatch(r)
      <3>1. CASE rc' = [rc EXCEPT ![r] =
                         [pc |-> "enqueue", gen |-> outbox.gen, msg |-> 0,
                          dead |-> 0, cancel |-> FALSE, cb |-> FALSE]]
        <4>1. /\ rc'[r].dead = 0
              /\ \A q \in Reconciler : q # r => rc'[q] = rc[q]
          BY <3>1 DEF TypeInv, TypeOK
        <4>2. QED
          BY <4>1 DEF ReconcilersEffect
      <3>2. QED
        BY <2>2, <3>1, ReturnDead DEF ReadDispatch
    <2>3. CASE Enqueue(r)
      <3>1. PICK i : rc' = [rc EXCEPT ![r].pc = "record", ![r].msg = i]
        BY <2>3 DEF Enqueue, Publish
      <3>2. QED
        BY <3>1 DEF ReconcilersEffect, TypeInv, TypeOK, RecoveryState
    <2>4. ASSUME NEW x \in queue, Callback(r, x) PROVE ReconcilersEffect
      <3>1. /\ rc'[r].dead = 0
            /\ \A q \in Reconciler : q # r => rc'[q] = rc[q]
        BY <2>4 DEF Callback, TypeInv, TypeOK
      <3>2. QED
        BY <3>1 DEF ReconcilersEffect
    <2>5. CASE RecordTerminal(r)
      <3>1. CASE rc' = [rc EXCEPT ![r].pc = "failRun", ![r].dead = DeadLease]
        <4>1. /\ rc'[r].dead = DeadLease
              /\ \A q \in Reconciler : q # r => rc'[q] = rc[q]
          BY <3>1 DEF TypeInv, TypeOK, RecoveryState
        <4>2. QED
          BY <2>5, <4>1 DEF ReconcilersEffect, RecordTerminal
      <3>2. QED
        BY <2>5, <3>1, OutcomeDead DEF RecordTerminal
    <2>6. QED
      BY <2>1, <2>2, <2>3, <2>4, <2>5, ReturnDead, ContinueDead, OutcomeDead
      DEF RecoveryStep, RecordPublished, RecordAttemptFailure, Redrive,
          SettleCancellation, CloseOutbox, FailRun, FailCancel, FailRead,
          ConsumeIgnored
  <1>3. RunEffect
    <2>1. CASE UNCHANGED run
      BY <2>1 DEF RunEffect, LeaseKept
    <2>2. CASE \E i : run' = [run EXCEPT !.jobId = i]
      BY <2>2 DEF RunEffect, LeaseKept, TypeInv, TypeOK, RunRow
    <2>3. CASE run' = [run EXCEPT !.status = "QUEUED", !.jobId = 0,
                                  !.lease = 0, !.live = FALSE]
      BY <2>3 DEF RunEffect, LeaseDropped, TypeInv, TypeOK, RunRow
    <2>4. CASE run' = [run EXCEPT !.status = "FAILED", !.jobId = rc[r].msg]
      BY <2>4 DEF RunEffect, LeaseKept, TypeInv, TypeOK, RunRow
    <2>5. CASE run' = [run EXCEPT !.status = "CANCELLED", !.lease = 0]
      BY <2>5 DEF RunEffect, LeaseDropped, TypeInv, TypeOK, RunRow
    <2>6. QED
      BY <2>1, <2>2, <2>3, <2>4, <2>5, CancelDeadLease
      DEF RecoveryStep, Sweep, ReadDispatch, Enqueue, RecordPublished,
          RecordAttemptFailure, Redrive, SettleCancellation, CloseOutbox,
          Callback, RecordTerminal, FailRun, FailCancel, FailRead,
          ConsumeIgnored
  <1>4. DispatchEffect
    <2>1. outbox'.gen = outbox.gen \/ run'.status # "RUNNING"
      <3>1. CASE RecordPublished(r) \/ RecordAttemptFailure(r) \/ CloseOutbox(r)
        BY <3>1 DEF RecordPublished, RecordAttemptFailure, CloseOutbox,
                    TypeInv, TypeOK, OutboxRow
      <3>2. CASE RecordTerminal(r)
        BY <3>2 DEF RecordTerminal, TypeInv, TypeOK, OutboxRow
      <3>3. CASE Consume(r)
        BY <3>3 DEF Consume, TypeInv, TypeOK, OutboxRow
      <3>4. CASE Redrive(r)
        <4>1. CASE run' = [run EXCEPT !.status = "QUEUED", !.jobId = 0,
                                      !.lease = 0, !.live = FALSE]
          BY <4>1 DEF TypeInv, TypeOK, RunRow
        <4>2. QED
          BY <3>4, <4>1 DEF Redrive
      <3>5. CASE UNCHANGED outbox
        BY <3>5
      <3>6. QED
        BY <3>1, <3>2, <3>3, <3>4, <3>5
        DEF RecoveryStep, Sweep, ReadDispatch, Enqueue, SettleCancellation,
            Callback, FailRun, FailCancel, FailRead, ConsumeIgnored
    <2>2. \A i \in DOMAIN sent : sent'[i] = sent[i]
      <3>1. UNCHANGED sent \/ sent' = Append(sent, rc[r].gen)
        BY DEF RecoveryStep, Sweep, ReadDispatch, Enqueue, Publish,
               RecordPublished, RecordAttemptFailure, Redrive,
               SettleCancellation, CloseOutbox, Callback, RecordTerminal,
               FailRun, FailCancel, FailRead, ConsumeIgnored
      <3>2. rc[r].gen \in Nat /\ sent \in Seq(Nat)
        BY DEF TypeInv, TypeOK, RecoveryState
      <3>3. ASSUME NEW gen \in Nat, sent' = Append(sent, gen)
            PROVE  \A i \in DOMAIN sent : sent'[i] = sent[i]
        BY <3>2, <3>3
      <3>4. QED
        BY <3>1, <3>2, <3>3
    <2>3. QED
      BY <2>1, <2>2 DEF DispatchEffect
  <1>5. QED
    BY <1>1, <1>2, <1>3, <1>4

LEMMA ManagerLease ==
  ASSUME TypeInv, NEW m \in Manager, ManagerStep(m)
  PROVE  LeaseEffect
  <1>1. WorkersEffect /\ ReconcilersEffect
    <2>1. UNCHANGED <<wk, rc>>
      BY DEF ManagerStep, RequestCancel, WriteCancel, CancelOutbox, CancelRemote
    <2>2. QED
      BY <2>1, WorkersKept DEF ReconcilersEffect
  <1>2. RunEffect
    <2>1. \/ UNCHANGED run
          \/ run' = [run EXCEPT !.cancel = TRUE, !.status = "CANCELLED"]
          \/ run' = [run EXCEPT !.cancel = TRUE]
      BY DEF ManagerStep, RequestCancel, WriteCancel, CancelOutbox,
             CancelRemote, TypeInv, TypeOK, RunRow
    <2>2. QED
      BY <2>1 DEF RunEffect, LeaseKept, TypeInv, TypeOK, RunRow
  <1>3. DispatchEffect
    <2>1. outbox'.gen = outbox.gen /\ UNCHANGED sent
      BY DEF ManagerStep, RequestCancel, WriteCancel, CancelOutbox,
             CancelRemote, TypeInv, TypeOK, OutboxRow
    <2>2. QED
      BY <2>1 DEF DispatchEffect
  <1>4. QED
    BY <1>1, <1>2, <1>3 DEF LeaseEffect

LEMMA EnvironmentLease ==
  ASSUME TypeInv, Environment
  PROVE  LeaseEffect
  <1> USE DEF LeaseEffect
  <1>1. ASSUME NEW w \in Worker, Crash(w) PROVE LeaseEffect
    <2>1. WorkersEffect
      BY <1>1, LeaveEffect DEF Crash
    <2>2. QED
      BY <1>1, <2>1, RowsKept DEF Crash
  <1>2. ASSUME NEW w \in Worker, Redeliver(w) PROVE LeaseEffect
    <2>1. wk' = [wk EXCEPT ![w].held = FALSE]
      BY <1>2 DEF Redeliver
    <2>2. WorkersEffect
      BY <2>1 DEF WorkersEffect, Carries, TypeInv, TypeOK, WorkerState
    <2>3. QED
      BY <1>2, <2>2, RowsKept DEF Redeliver
  <1>3. ASSUME NEW r \in Reconciler, EnqueueFails(r) \/ ReconcilerCrash(r)
        PROVE  LeaseEffect
    <2>1. ReconcilersEffect
      BY <1>3, ContinueDead, ReturnDead DEF EnqueueFails, ReconcilerCrash
    <2>2. UNCHANGED <<run, outbox, wk, sent>>
      BY <1>3 DEF EnqueueFails, ReconcilerCrash
    <2>3. QED
      BY <2>1, <2>2, WorkersKept DEF RunEffect, LeaseKept, DispatchEffect
  <1>4. ASSUME NEW x \in queue, CallbackLost(x) PROVE LeaseEffect
    BY <1>4, RowsKept, WorkersKept DEF CallbackLost
  <1>5. CASE LeaseExpires
    <2>1. run' = [run EXCEPT !.live = FALSE] /\ UNCHANGED <<outbox, wk, rc, sent>>
      BY <1>5 DEF LeaseExpires
    <2>2. RunEffect
      BY <2>1 DEF RunEffect, LeaseKept, TypeInv, TypeOK, RunRow
    <2>3. QED
      BY <2>1, <2>2, WorkersKept DEF ReconcilersEffect, DispatchEffect
  <1>6. CASE BecomeStale
    <2>1. outbox' = [outbox EXCEPT !.stale = TRUE] /\ UNCHANGED <<run, wk, rc, sent>>
      BY <1>6 DEF BecomeStale
    <2>2. outbox'.gen = outbox.gen
      BY <2>1 DEF TypeInv, TypeOK, OutboxRow
    <2>3. QED
      BY <2>1, <2>2, WorkersKept
      DEF RunEffect, LeaseKept, ReconcilersEffect, DispatchEffect
  <1>7. QED
    BY <1>1, <1>2, <1>3, <1>4, <1>5, <1>6 DEF Environment

LEMMA LeaseEffectOfStep ==
  ASSUME TypeInv, [Next]_vars
  PROVE  LeaseEffect
  <1>1. CASE Next
    BY <1>1, NextSplit, WorkerLease, RecoveryLease, ManagerLease, EnvironmentLease
  <1>2. CASE UNCHANGED vars
    BY <1>2, RowsKept, WorkersKept DEF vars, LeaseEffect
  <1>3. QED
    BY <1>1, <1>2

---------------------------------------------------------------------------

LEMMA LeaseInit == Init => LeaseInv
  BY TypeInit
  DEF Init, LeaseInv, LeasesNumbered, DeadStaysDead, OwnerIsCurrent, InitRun,
      IdleWorker, IdleRecovery, Leased

LEMMA LeaseStep == LeaseInv /\ [Next]_vars => LeaseInv'
  <1> SUFFICES ASSUME LeaseInv, [Next]_vars PROVE LeaseInv'
    OBVIOUS
  <1>1. TypeInv'
    BY TypeStep DEF LeaseInv
  <1>2. LeaseEffect
    BY LeaseEffectOfStep DEF LeaseInv
  <1>3. /\ run.lease \in Nat /\ run.attempt \in Nat
        /\ \A w \in Worker : wk[w].lease \in Nat
        /\ \A r \in Reconciler : rc[r].dead \in Nat
    BY DEF LeaseInv, TypeInv, TypeOK, RunRow, WorkerState, RecoveryState
  <1>4. run'.attempt \in Nat /\ run'.attempt >= run.attempt
    BY <1>2, <1>3 DEF LeaseEffect, RunEffect, LeaseKept, LeaseDropped, LeaseClaimed
  <1>5. LeasesNumbered'
    <2> USE DEF LeaseInv, LeasesNumbered, LeaseEffect
    <2>1. run'.status = "RUNNING" => run'.lease # 0
      BY <1>2, <1>3 DEF RunEffect, LeaseKept, LeaseDropped, LeaseClaimed
    <2>2. run'.lease <= run'.attempt
      BY <1>2, <1>3 DEF RunEffect, LeaseKept, LeaseDropped, LeaseClaimed
    <2>3. ASSUME NEW w \in Worker PROVE wk'[w].lease <= run'.attempt
      BY <1>2, <1>3, <1>4 DEF WorkersEffect, Takes, LeaseClaimed
    <2>4. ASSUME NEW r \in Reconciler PROVE rc'[r].dead <= run'.attempt
      BY <1>2, <1>3, <1>4 DEF ReconcilersEffect, DeadLease
    <2>5. QED
      BY <2>1, <2>2, <2>3, <2>4
  <1>6. DeadStaysDead'
    <2> SUFFICES ASSUME NEW r \in Reconciler, rc'[r].dead # 0,
                        run'.status = "RUNNING", run'.lease = rc'[r].dead
                 PROVE  ~run'.live
      BY DEF DeadStaysDead
    <2>1. CASE rc'[r].dead = DeadLease /\ UNCHANGED run
      BY <2>1 DEF DeadLease, Dead
    <2>2. CASE rc'[r].dead = rc[r].dead
      <3>1. ~LeaseClaimed
        BY <1>3, <2>2 DEF LeaseClaimed, LeaseInv, LeasesNumbered
      <3>2. LeaseKept
        BY <1>2, <3>1 DEF LeaseEffect, RunEffect, LeaseDropped
      <3>3. QED
        BY <2>2, <3>2 DEF LeaseKept, LeaseInv, DeadStaysDead
    <2>3. QED
      BY <1>2, <2>1, <2>2 DEF LeaseEffect, ReconcilersEffect
  <1>7. OwnerIsCurrent'
    <2> SUFFICES ASSUME NEW w \in Worker, wk'[w].pc \in Leased,
                        run'.status = "RUNNING", run'.lease = wk'[w].lease
                 PROVE  sent'[wk'[w].msg] = outbox'.gen
      BY DEF OwnerIsCurrent
    <2>1. outbox'.gen = outbox.gen /\ \A i \in DOMAIN sent : sent'[i] = sent[i]
      BY <1>2 DEF LeaseEffect, DispatchEffect
    <2>2. CASE Takes(w)
      BY <2>1, <2>2 DEF Takes
    <2>3. CASE Carries(w)
      <3>1. ~LeaseClaimed
        BY <1>3, <2>3 DEF LeaseClaimed, Carries, LeaseInv, LeasesNumbered
      <3>2. LeaseKept
        BY <1>2, <3>1 DEF LeaseEffect, RunEffect, LeaseDropped
      <3>3. wk[w].msg \in DOMAIN sent
        BY <2>3 DEF Carries, LeaseInv, TypeInv, MessagesOK, Leased
      <3>4. QED
        BY <2>1, <2>3, <3>2, <3>3 DEF Carries, LeaseKept, LeaseInv, OwnerIsCurrent
    <2>4. QED
      BY <1>2, <2>2, <2>3 DEF LeaseEffect, WorkersEffect
  <1>8. QED
    BY <1>1, <1>5, <1>6, <1>7 DEF LeaseInv

LEMMA LeaseAlways == Spec => []LeaseInv
  BY LeaseInit, LeaseStep, PTL DEF Spec

\* A worker that may write under its lease was delivered by the dispatch the
\* outbox has on record: a redriven run is never written by the old delivery.
THEOREM OwnerOfCurrentDispatch == Spec => []LiveLeaseIsCurrent
  <1>1. LeaseInv => LiveLeaseIsCurrent
    BY DEF LeaseInv, OwnerIsCurrent, LiveLeaseIsCurrent, Holds
  <1>2. QED
    BY <1>1, LeaseAlways, PTL

\* A worker that writes the run or gives its lease back moves on.
LEMMA OwnerLeaves ==
  ASSUME TypeInv, NEW w \in Worker, MarkCancelled(w) \/ Commit(w) \/ GiveUp(w)
  PROVE  wk'[w] # wk[w]
  <1>1. wk[w].pc \in {"mark", "solve", "write", "caught"}
    BY DEF MarkCancelled, Commit, GiveUp
  <1>2. \/ wk' = [wk EXCEPT ![w] = IdleWorker]
        \/ wk' = [wk EXCEPT ![w].pc = "done"]
        \/ wk' = [wk EXCEPT ![w].pc = "caught"] /\ wk[w].pc # "caught"
    BY DEF MarkCancelled, Commit, GiveUp, Goto, Nack
  <1>3. wk'[w].pc # wk[w].pc
    BY <1>1, <1>2 DEF IdleWorker, TypeInv, TypeOK, WorkerState
  <1>4. QED
    BY <1>3

LEMMA LiveRunStep ==
  ASSUME LeaseInv, [Next]_vars, run.status = "RUNNING", run.live
  PROVE  /\ outbox'.gen = outbox.gen
         /\ \/ run'.status = "RUNNING" /\ run'.lease = run.lease
            \/ run'.cancel
            \/ \E w \in Worker : wk[w].lease = run.lease /\ wk'[w] # wk[w]
  <1> DEFINE Same == run'.status = run.status /\ run'.lease = run.lease
  <1>1. TypeInv /\ LeaseEffect
    BY LeaseEffectOfStep DEF LeaseInv
  <1>2. ~Dead
    BY DEF Dead
  \* What a reconciler saw dead is not the lease that is live now.
  <1>3. \A r \in Reconciler : run.lease # rc[r].dead /\ run.lease # 0
    BY DEF LeaseInv, LeasesNumbered, DeadStaysDead
  <1>4. ASSUME NEW w \in Worker, WorkerStep(w)
        PROVE  /\ outbox'.gen = outbox.gen
               /\ Same \/ (wk[w].lease = run.lease /\ wk'[w] # wk[w])
    <2>1. outbox' = outbox
      BY <1>4 DEF WorkerStep, Deliver, ReadRun, SettleCancelled, Claim,
             ReadAgain, Progress, Throw, CheckCancelled, MarkCancelled, Commit,
             Done, HeartbeatMissed, GiveUp
    <2>2. CASE run' = run
      BY <2>1, <2>2
    <2>3. CASE /\ MarkCancelled(w) \/ Commit(w) \/ GiveUp(w)
               /\ run' # run
      <3>1. wk[w].lease = run.lease
        BY <2>3 DEF MarkCancelled, Commit, GiveUp, MayWrite, Holds
      <3>2. QED
        BY <1>1, <2>1, <2>3, <3>1, OwnerLeaves
    <2>4. QED
      BY <1>2, <1>4, <2>2, <2>3
      DEF WorkerStep, Deliver, ReadRun, SettleCancelled, CancelDeadRun, Claim,
          Claimable, ReadAgain, Progress, Throw, CheckCancelled, Done,
          HeartbeatMissed
  <1>5. ASSUME NEW r \in Reconciler, RecoveryStep(r)
        PROVE  outbox'.gen = outbox.gen /\ Same
    <2>1. ~Redrivable(r)
      BY <1>3 DEF Redrivable
    <2>2. run' = run \/ \E i : run' = [run EXCEPT !.jobId = i]
      BY <1>2, <1>3, <1>5, <2>1
      DEF RecoveryStep, Sweep, ReadDispatch, Enqueue, RecordPublished,
          RecordAttemptFailure, Redrive, SettleCancellation, CancelDeadRun,
          CloseOutbox, Callback, RecordTerminal, FailRun, FailCancel, FailRead,
          ConsumeIgnored
    <2>3. Same
      BY <1>1, <2>2 DEF TypeInv, TypeOK, RunRow
    <2>4. QED
      BY <1>1, <2>3 DEF LeaseEffect, DispatchEffect
  <1>6. ASSUME NEW m \in Manager, ManagerStep(m)
        PROVE  outbox'.gen = outbox.gen /\ (Same \/ run'.cancel)
    <2>1. Same \/ run'.cancel
      BY <1>1, <1>6 DEF ManagerStep, RequestCancel, WriteCancel, CancelOutbox,
                        CancelRemote, TypeInv, TypeOK, RunRow
    <2>2. outbox'.gen = outbox.gen
      BY <1>1, <1>6 DEF ManagerStep, RequestCancel, WriteCancel, CancelOutbox,
                        CancelRemote, TypeInv, TypeOK, OutboxRow
    <2>3. QED
      BY <2>1, <2>2
  <1>7. CASE Environment
    <2>1. run' = run \/ run' = [run EXCEPT !.live = FALSE]
      BY <1>7 DEF Environment, Crash, Redeliver, EnqueueFails, ReconcilerCrash,
                  CallbackLost, LeaseExpires, BecomeStale
    <2>2. Same
      BY <1>1, <2>1 DEF TypeInv, TypeOK, RunRow
    <2>3. QED
      BY <1>1, <2>2 DEF LeaseEffect, DispatchEffect
  <1>8. CASE UNCHANGED vars
    BY <1>8 DEF vars
  <1>9. QED
    BY <1>4, <1>5, <1>6, <1>7, <1>8, NextSplit

\* A sweep, a failure callback or a takeover that acts on a lease it saw expire
\* does no harm to the attempt that has the run now: only the owner, or a
\* cancel, takes the run out of RUNNING while its lease is live.
THEOREM OwnersRun == Spec => LiveRunIsOwners
  <1>1. LeaseInv /\ [Next]_vars =>
          [run.status = "RUNNING" /\ run.live =>
             /\ outbox'.gen = outbox.gen
             /\ \/ run'.status = "RUNNING" /\ run'.lease = run.lease
                \/ run'.cancel
                \/ \E w \in Worker : wk[w].lease = run.lease /\ wk'[w] # wk[w]]_vars
    BY LiveRunStep
  <1>2. QED
    BY <1>1, LeaseAlways, PTL DEF Spec, LiveRunIsOwners

---------------------------------------------------------------------------
(* The dispatch row.                                                       *)

DispatchInv == TypeInv /\ MarkMeansCancel /\ JobIsOutboxMessage

\* Steps that touch neither the job id nor the message of the outbox, or both.
LEMMA JobStep ==
  ASSUME TypeInv, [Next]_vars
  PROVE  \/ run'.jobId = run.jobId /\ outbox'.msg = outbox.msg
         \/ run'.jobId = outbox'.msg
         \/ run'.status = "FAILED"
  <1> DEFINE Kept == run'.jobId = run.jobId /\ outbox'.msg = outbox.msg
             Moved == run'.jobId = outbox'.msg
  <1>1. ASSUME NEW w \in Worker, WorkerStep(w) PROVE Kept
    <2>1. UNCHANGED outbox
      BY <1>1 DEF WorkerStep, Deliver, ReadRun, SettleCancelled, Claim,
             ReadAgain, Progress, Throw, CheckCancelled, MarkCancelled, Commit,
             Done, HeartbeatMissed, GiveUp
    <2>2. run'.jobId = run.jobId
      BY <1>1 DEF WorkerStep, Deliver, ReadRun, SettleCancelled, CancelDeadRun,
             Claim, ReadAgain, Progress, Throw, CheckCancelled, MarkCancelled,
             Commit, Done, HeartbeatMissed, GiveUp, TypeInv, TypeOK, RunRow
    <2>3. QED
      BY <2>1, <2>2
  <1>2. ASSUME NEW r \in Reconciler, RecoveryStep(r)
        PROVE  Kept \/ Moved \/ run'.status = "FAILED"
    <2>1. CASE RecordPublished(r)
      <3>1. CASE UNCHANGED <<run, outbox>>
        BY <3>1
      <3>2. ASSUME NEW msg, run' = [run EXCEPT !.jobId = msg]
            PROVE  run'.jobId = msg
        BY <3>2 DEF TypeInv, TypeOK, RunRow
      <3>3. ASSUME NEW msg, outbox' = [outbox EXCEPT !.status = "PUBLISHED", !.msg = msg, !.stale = FALSE]
            PROVE  outbox'.msg = msg
        BY <3>3 DEF TypeInv, TypeOK, OutboxRow
      <3>4. QED
        BY <2>1, <3>1, <3>2, <3>3 DEF RecordPublished
    <2>2. CASE Redrive(r)
      <3>1. CASE UNCHANGED <<run, outbox>>
        BY <3>1
      <3>2. CASE run' = [run EXCEPT !.status = "QUEUED", !.jobId = 0,
                                    !.lease = 0, !.live = FALSE]
        <4>1. run'.jobId = 0
          BY <3>2 DEF TypeInv, TypeOK, RunRow
        <4>2. ASSUME NEW gen, outbox' = [outbox EXCEPT !.gen = gen, !.status = "PENDING", !.msg = 0]
              PROVE  outbox'.msg = 0
          BY <4>2 DEF TypeInv, TypeOK, OutboxRow
        <4>3. CASE UNCHANGED outbox /\ UNCHANGED run
          BY <4>3
        <4>4. QED
          BY <2>2, <4>1, <4>2, <4>3 DEF Redrive
      <3>3. QED
        BY <2>2, <3>1, <3>2 DEF Redrive
    <2>3. CASE RecordAttemptFailure(r) \/ CloseOutbox(r) \/ RecordTerminal(r)
      BY <2>3 DEF RecordAttemptFailure, CloseOutbox, RecordTerminal,
                  TypeInv, TypeOK, OutboxRow
    <2>4. CASE SettleCancellation(r)
      BY <2>4 DEF SettleCancellation, CancelDeadRun, TypeInv, TypeOK, RunRow
    <2>5. CASE FailRun(r) \/ FailCancel(r) \/ ConsumeIgnored(r)
      <3>1. outbox'.msg = outbox.msg
        BY <2>5 DEF FailRun, FailCancel, ConsumeIgnored, Consume, TypeInv,
                    TypeOK, OutboxRow
      <3>2. run'.jobId = run.jobId \/ run'.status = "FAILED"
        BY <2>5 DEF FailRun, FailCancel, ConsumeIgnored, TypeInv, TypeOK, RunRow
      <3>3. QED
        BY <3>1, <3>2
    <2>6. CASE UNCHANGED <<run, outbox>>
      BY <2>6
    <2>7. QED
      BY <1>2, <2>1, <2>2, <2>3, <2>4, <2>5, <2>6
      DEF RecoveryStep, Sweep, ReadDispatch, Enqueue, Callback, FailRead
  <1>3. ASSUME NEW m \in Manager, ManagerStep(m) PROVE Kept
    BY <1>3 DEF ManagerStep, RequestCancel, WriteCancel, CancelOutbox,
                CancelRemote, TypeInv, TypeOK, RunRow, OutboxRow
  <1>4. CASE Environment
    BY <1>4 DEF Environment, Crash, Redeliver, EnqueueFails, ReconcilerCrash,
                CallbackLost, LeaseExpires, BecomeStale, TypeInv, TypeOK,
                RunRow, OutboxRow
  <1>5. CASE UNCHANGED vars
    BY <1>5 DEF vars
  <1>6. QED
    BY <1>1, <1>2, <1>3, <1>4, <1>5, NextSplit

\* No step reopens a run, and none takes a cancel flag back.
LEMMA NoReopening ==
  ASSUME TypeInv, MarkMeansCancel, [Next]_vars
  PROVE  /\ run'.status \in Active => run.status \in Active
         /\ run.cancel => run'.cancel
  BY Effect DEF StepEffect, Keeps, Restarts, Finishes, Asked, Stops, Becomes,
                Active, TypeInv, TypeOK, RunRow

LEMMA DispatchInit == Init => DispatchInv
  BY TypeInit DEF Init, DispatchInv, MarkMeansCancel, JobIsOutboxMessage,
                  InitRun, InitOutbox, IdleWorker

LEMMA DispatchStep == DispatchInv /\ [Next]_vars => DispatchInv'
  <1> SUFFICES ASSUME DispatchInv, [Next]_vars PROVE DispatchInv'
    OBVIOUS
  <1>1. TypeInv' /\ MarkMeansCancel'
    BY TypeStep, MarkStep DEF DispatchInv
  <1>2. JobIsOutboxMessage'
    BY JobStep, NoReopening DEF DispatchInv, JobIsOutboxMessage, Active
  <1>3. QED
    BY <1>1, <1>2 DEF DispatchInv

\* A cancel looks the remote message up by the job id of the run: as long as
\* there is work to cancel it is the message the outbox has on record.
THEOREM JobOnRecord == Spec => []JobIsOutboxMessage
  <1>1. DispatchInv => JobIsOutboxMessage
    BY DEF DispatchInv
  <1>2. QED
    BY <1>1, DispatchInit, DispatchStep, PTL DEF Spec

\* Without failure callbacks (BullMQ) the outbox row is closed only after a
\* cancel was written.
NoCallbacks ==
  /\ \A x \in queue : x.left > 0
  /\ outbox.terminal = Nobody
  /\ \A r \in Reconciler :
       rc[r].pc \notin {"terminal", "failRun", "failCancel", "failRead", "consume"}

ClosedAfterCancel ==
  /\ \A r \in Reconciler : rc[r].pc = "closeOutbox" => run.cancel
  /\ \A m \in Manager : mgr[m].pc = "outbox" => run.cancel

OpenInv == /\ TypeInv /\ MarkMeansCancel
           /\ NoCallbacks /\ ClosedAfterCancel /\ NoStrandedRun

LEMMA NackHasLeft ==
  ASSUME Provider = "BULLMQ", NoCallbacks, NEW w \in Worker,
         Ack(w) \/ Nack(w)
  PROVE  \A x \in queue' : x.left > 0
  <1>1. CASE Ack(w)
    BY <1>1 DEF Ack, NoCallbacks
  <1>2. CASE Nack(w)
    <2>1. \A x \in queue' : x \in queue \/ x.left > 0
      BY <1>2 DEF Nack
    <2>2. QED
      BY <2>1 DEF NoCallbacks
  <1>3. QED
    BY <1>1, <1>2

LEMMA WorkerOpen ==
  ASSUME Provider = "BULLMQ", OpenInv, NEW w \in Worker, WorkerStep(w)
  PROVE  (\A x \in queue' : x.left > 0) /\ UNCHANGED <<outbox, rc, mgr>>
  <1>1. UNCHANGED <<outbox, rc, mgr>>
    BY DEF WorkerStep, Deliver, ReadRun, SettleCancelled, Claim, ReadAgain,
           Progress, Throw, CheckCancelled, MarkCancelled, Commit, Done,
           HeartbeatMissed, GiveUp
  <1>2. queue' \subseteq queue \/ Ack(w) \/ Nack(w)
    BY DEF WorkerStep, Deliver, ReadRun, SettleCancelled, Claim, ReadAgain,
           Progress, Throw, CheckCancelled, MarkCancelled, Commit, Done,
           HeartbeatMissed, GiveUp
  <1>3. QED
    BY <1>1, <1>2, NackHasLeft DEF OpenInv, NoCallbacks

\* A reconciler closes the outbox at "closeOutbox" only, and comes there only
\* with a dead cancelled run.
LEMMA RecoveryOpen ==
  ASSUME OpenInv, NEW r \in Reconciler, RecoveryStep(r)
  PROVE  /\ NoCallbacks' /\ UNCHANGED mgr
         /\ \A q \in Reconciler :
              rc'[q].pc = "closeOutbox" => rc[q].pc = "closeOutbox" \/ run.cancel
         /\ outbox'.status \in Open \/ outbox.status \notin Open \/ run.cancel
  <1>1. /\ ~(RecordTerminal(r) \/ FailRun(r) \/ FailCancel(r) \/ FailRead(r))
        /\ ~ConsumeIgnored(r) /\ ~\E x \in queue : Callback(r, x)
    <2>1. rc[r].pc \notin {"terminal", "failRun", "failCancel", "failRead",
                           "consume"}
      BY DEF OpenInv, NoCallbacks
    <2>2. \A x \in queue : x.left # 0
      BY DEF OpenInv, NoCallbacks
    <2>3. QED
      BY <2>1, <2>2 DEF RecordTerminal, FailRun, FailCancel, FailRead,
                        ConsumeIgnored, Callback, At
  <1>2. \/ Sweep(r) \/ ReadDispatch(r) \/ Enqueue(r) \/ RecordPublished(r)
        \/ RecordAttemptFailure(r) \/ Redrive(r) \/ SettleCancellation(r)
        \/ CloseOutbox(r)
    BY <1>1 DEF RecoveryStep
  <1>3. UNCHANGED mgr
    BY <1>2 DEF Sweep, ReadDispatch, Enqueue, RecordPublished,
           RecordAttemptFailure, Redrive, SettleCancellation, CloseOutbox
  <1>4. outbox'.terminal = Nobody
    BY <1>2 DEF Sweep, ReadDispatch, Enqueue, RecordPublished,
           RecordAttemptFailure, Redrive, SettleCancellation, CloseOutbox,
           OpenInv, NoCallbacks, TypeInv, TypeOK, OutboxRow
  <1>5. \A x \in queue' : x.left > 0
    <2>1. queue' = queue
          \/ queue' = queue \cup {[id |-> Len(sent) + 1, left |-> MaxDeliveries]}
      BY <1>2 DEF Sweep, ReadDispatch, Enqueue, Publish, RecordPublished,
             RecordAttemptFailure, Redrive, SettleCancellation, CloseOutbox
    <2>2. QED
      BY <2>1, DeliveriesAssumption DEF OpenInv, NoCallbacks
  <1>6. /\ \A q \in Reconciler : q # r => rc'[q] = rc[q]
        /\ rc'[r].pc \in {"idle", "settle", "dispatch", "redrive", "enqueue",
                          "record"}
           \/ (rc'[r].pc = "closeOutbox" /\ run.cancel)
    <2>1. CASE Sweep(r)
      BY <2>1 DEF Sweep, Due, OpenInv, NoCallbacks, TypeInv, TypeOK
    <2>2. CASE ReadDispatch(r)
      BY <2>2 DEF ReadDispatch, Return, IdleRecovery, OpenInv, TypeInv, TypeOK
    <2>3. CASE Enqueue(r)
      <3>1. PICK i : rc' = [rc EXCEPT ![r].pc = "record", ![r].msg = i]
        BY <2>3 DEF Enqueue, Publish
      <3>2. QED
        BY <3>1 DEF OpenInv, TypeInv, TypeOK, RecoveryState
    <2>4. CASE RecordPublished(r) \/ RecordAttemptFailure(r) \/ CloseOutbox(r)
      BY <2>4 DEF RecordPublished, RecordAttemptFailure, CloseOutbox, Return,
                  IdleRecovery, OpenInv, TypeInv, TypeOK
    <2>5. CASE Redrive(r) \/ SettleCancellation(r)
      BY <2>5 DEF Redrive, SettleCancellation, Return, Continue, IdleRecovery,
                  OpenInv, TypeInv, TypeOK, RecoveryState
    <2>6. QED
      BY <1>2, <2>1, <2>2, <2>3, <2>4, <2>5
  <1>7. outbox'.status \in Open \/ outbox.status \notin Open \/ run.cancel
    <2>1. CASE CloseOutbox(r)
      BY <2>1 DEF CloseOutbox, At, OpenInv, ClosedAfterCancel
    <2>2. CASE RecordPublished(r) \/ RecordAttemptFailure(r) \/ Redrive(r)
      BY <2>2 DEF RecordPublished, RecordAttemptFailure, Redrive, Open,
                  OpenInv, TypeInv, TypeOK, OutboxRow
    <2>3. CASE UNCHANGED outbox
      BY <2>3
    <2>4. QED
      BY <1>2, <2>1, <2>2, <2>3
      DEF Sweep, ReadDispatch, Enqueue, SettleCancellation
  <1>8. NoCallbacks'
    BY <1>4, <1>5, <1>6 DEF OpenInv, NoCallbacks
  <1>9. QED
    BY <1>3, <1>6, <1>7, <1>8

LEMMA ManagerOpen ==
  ASSUME OpenInv, NEW m \in Manager, ManagerStep(m)
  PROVE  /\ queue' \subseteq queue /\ UNCHANGED rc
         /\ outbox'.terminal = outbox.terminal
         /\ \A q \in Manager :
              mgr'[q].pc = "outbox" => mgr[q].pc = "outbox" \/ run'.cancel
         /\ outbox'.status \in Open \/ outbox.status \notin Open \/ run.cancel
  <1>1. queue' \subseteq queue /\ UNCHANGED rc
    BY DEF ManagerStep, RequestCancel, WriteCancel, CancelOutbox, CancelRemote
  <1>2. outbox'.terminal = outbox.terminal
    BY DEF ManagerStep, RequestCancel, WriteCancel, CancelOutbox, CancelRemote,
           OpenInv, TypeInv, TypeOK, OutboxRow
  <1>3. \A q \in Manager :
          mgr'[q].pc = "outbox" => mgr[q].pc = "outbox" \/ run'.cancel
    <2>1. /\ \A q \in Manager : q # m => mgr'[q] = mgr[q]
          /\ mgr'[m].pc = "outbox" => WriteCancel(m)
      BY DEF ManagerStep, RequestCancel, WriteCancel, CancelOutbox,
             CancelRemote, IdleManager, OpenInv, TypeInv, TypeOK, ManagerState
    <2>2. WriteCancel(m) => run'.cancel
      BY DEF WriteCancel, OpenInv, TypeInv, TypeOK, RunRow
    <2>3. QED
      BY <2>1, <2>2
  <1>4. outbox'.status \in Open \/ outbox.status \notin Open \/ run.cancel
    BY DEF ManagerStep, RequestCancel, WriteCancel, CancelOutbox, CancelRemote,
           OpenInv, ClosedAfterCancel, TypeInv, TypeOK, OutboxRow
  <1>5. QED
    BY <1>1, <1>2, <1>3, <1>4

LEMMA EnvironmentOpen ==
  ASSUME Provider = "BULLMQ", OpenInv, Environment
  PROVE  /\ NoCallbacks' /\ UNCHANGED mgr
         /\ \A q \in Reconciler :
              rc'[q].pc = "closeOutbox" => rc[q].pc = "closeOutbox"
         /\ outbox'.status = outbox.status
  <1>1. ASSUME NEW w \in Worker, Crash(w) PROVE \A x \in queue' : x.left > 0
    BY <1>1, NackHasLeft DEF Crash, OpenInv
  <1>2. ASSUME NEW w \in Worker, Redeliver(w)
        PROVE  \A x \in queue' : x.left > 0
    <2>1. wk[w].left > 0
      BY <1>2 DEF Redeliver, OpenInv, TypeInv, MessagesOK
    <2>2. QED
      BY <1>2, <2>1 DEF Redeliver, OpenInv, NoCallbacks
  <1>3. \A x \in queue' : x.left > 0
    <2>1. CASE queue' \subseteq queue
      BY <2>1 DEF OpenInv, NoCallbacks
    <2>2. QED
      BY <1>1, <1>2, <2>1 DEF Environment, EnqueueFails, ReconcilerCrash,
                              CallbackLost, LeaseExpires, BecomeStale
  <1>4. UNCHANGED mgr
    BY DEF Environment, Crash, Redeliver, EnqueueFails, ReconcilerCrash,
           CallbackLost, LeaseExpires, BecomeStale
  <1>5. outbox'.status = outbox.status /\ outbox'.terminal = outbox.terminal
    BY DEF Environment, Crash, Redeliver, EnqueueFails, ReconcilerCrash,
           CallbackLost, LeaseExpires, BecomeStale, OpenInv, TypeInv, TypeOK,
           OutboxRow
  <1>6. \A q \in Reconciler : rc'[q] = rc[q] \/ rc'[q].pc \in {"attempt", "idle"}
    <2>1. CASE UNCHANGED rc
      BY <2>1
    <2>2. ASSUME NEW r \in Reconciler, Continue(r, "attempt") \/ Return(r)
          PROVE  \A q \in Reconciler :
                   rc'[q] = rc[q] \/ rc'[q].pc \in {"attempt", "idle"}
      BY <2>2 DEF Continue, Return, IdleRecovery, OpenInv, TypeInv, TypeOK,
                  RecoveryState
    <2>3. QED
      BY <2>1, <2>2 DEF Environment, Crash, Redeliver, EnqueueFails,
             ReconcilerCrash, CallbackLost, LeaseExpires, BecomeStale
  <1>7. NoCallbacks'
    BY <1>3, <1>5, <1>6 DEF OpenInv, NoCallbacks
  <1>8. QED
    BY <1>4, <1>5, <1>6, <1>7

LEMMA OpenInit == Init => OpenInv
  BY TypeInit
  DEF Init, OpenInv, MarkMeansCancel, NoCallbacks, ClosedAfterCancel,
      NoStrandedRun, InitOutbox, IdleWorker, IdleRecovery, IdleManager, Open

LEMMA OpenStep ==
  ASSUME Provider = "BULLMQ", OpenInv, [Next]_vars
  PROVE  OpenInv'
  <1>1. TypeInv' /\ MarkMeansCancel'
    BY TypeStep, MarkStep DEF OpenInv
  <1>2. /\ run'.status \in Active => run.status \in Active
        /\ run.cancel => run'.cancel
    BY NoReopening DEF OpenInv
  \* What is left to show of a step: how it may close the outbox.
  <1> DEFINE Opened == outbox'.status \in Open \/ outbox.status \notin Open
                       \/ run.cancel
  <1>a. Opened => NoStrandedRun'
    BY <1>2 DEF OpenInv, NoStrandedRun
  <1>b. ASSUME \A q \in Reconciler : rc'[q].pc = "closeOutbox" =>
                 rc[q].pc = "closeOutbox" \/ run.cancel,
               \A q \in Manager : mgr'[q].pc = "outbox" =>
                 mgr[q].pc = "outbox" \/ run'.cancel
        PROVE  ClosedAfterCancel'
    BY <1>2, <1>b DEF OpenInv, ClosedAfterCancel
  <1> HIDE DEF Opened
  <1>3. ASSUME NEW w \in Worker, WorkerStep(w)
        PROVE  NoCallbacks' /\ ClosedAfterCancel' /\ NoStrandedRun'
    <2>1. (\A x \in queue' : x.left > 0) /\ UNCHANGED <<outbox, rc, mgr>>
      BY <1>3, WorkerOpen
    <2>2. NoCallbacks'
      BY <2>1 DEF OpenInv, NoCallbacks
    <2>3. Opened
      BY <2>1 DEF Opened
    <2>4. QED
      BY <1>a, <1>b, <2>1, <2>2, <2>3
  <1>4. ASSUME NEW r \in Reconciler, RecoveryStep(r)
        PROVE  NoCallbacks' /\ ClosedAfterCancel' /\ NoStrandedRun'
    BY <1>4, <1>a, <1>b, RecoveryOpen DEF Opened
  <1>5. ASSUME NEW m \in Manager, ManagerStep(m)
        PROVE  NoCallbacks' /\ ClosedAfterCancel' /\ NoStrandedRun'
    <2>1. /\ queue' \subseteq queue /\ UNCHANGED rc
          /\ outbox'.terminal = outbox.terminal
      BY <1>5, ManagerOpen
    <2>2. NoCallbacks'
      BY <2>1 DEF OpenInv, NoCallbacks
    <2>3. QED
      BY <1>5, <1>a, <1>b, <2>1, <2>2, ManagerOpen DEF Opened
  <1>6. ASSUME Environment
        PROVE  NoCallbacks' /\ ClosedAfterCancel' /\ NoStrandedRun'
    BY <1>6, <1>a, <1>b, EnvironmentOpen DEF Opened
  <1>7. ASSUME UNCHANGED vars
        PROVE  NoCallbacks' /\ ClosedAfterCancel' /\ NoStrandedRun'
    BY <1>7 DEF vars, OpenInv, NoCallbacks, ClosedAfterCancel, NoStrandedRun
  <1>8. NoCallbacks' /\ ClosedAfterCancel' /\ NoStrandedRun'
    BY <1>3, <1>4, <1>5, <1>6, <1>7, NextSplit
  <1>9. QED
    BY <1>1, <1>8 DEF OpenInv

\* Self-hosted, a run that still has to be worked on always keeps a dispatch
\* the sweep selects.  (With QStash it does not: run_callback_strands.)
THEOREM NoneStranded ==
  ASSUME Provider = "BULLMQ"
  PROVE  Spec => []NoStrandedRun
  <1>1. OpenInv /\ [Next]_vars => OpenInv'
    BY OpenStep
  <1>2. OpenInv => NoStrandedRun
    BY DEF OpenInv
  <1>3. QED
    BY <1>1, <1>2, OpenInit, PTL DEF Spec
=============================================================================
