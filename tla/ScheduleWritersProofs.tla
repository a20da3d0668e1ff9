------------------------ MODULE ScheduleWritersProofs ------------------------
(***************************************************************************)
(* Theorems about the writers of the schedule: what the row locks and the  *)
(* checks under them guarantee, for any visits, employees, days, runs and  *)
(* managers.  First the types; then what the board never shows, whoever    *)
(* writes it and in whatever order: two assignments in force on a visit, a *)
(* crew due on another day than its visit, a queue entry that contradicts  *)
(* the assignments, an employee in two places.  The argument is the one    *)
(* the code is written to: what a writer checked under a lock is still so  *)
(* when it commits, because nobody writes a row whose lock another holds   *)
(* (NobodyWritesALockedVisit), and an employee a transaction has locked is *)
(* booked by no other.  Last, what writers leave behind: no writer         *)
(* overwrites what it did not read, changes what a crew was told, moves a  *)
(* day a manager chose or drops a pinned crew; a published run says the    *)
(* truth about itself; the days a run moved work to can carry it.          *)
(***************************************************************************)
EXTENDS ScheduleWriters, FiniteSetTheorems, TLAPS

USE DEF WriterAssumption

-----------------------------------------------------------------------------
(* Types *)

(* What the fields of an open transaction are for each kind of writer. *)
ShapeOf(p, t) ==
  /\ t.pc = "idle" => t = Idle
  /\ t.pc # "idle" => (p \in Run <=> t.op = "solve") /\ t.op # "none"
  /\ t.pc = "days" => p \in Run
  /\ t.pc \in {"checked", "judged"} => p \in Manager
  /\ t.op \in {"assign", "unassign", "adjust", "pin", "unpin"} => \E v \in Visit : t.scope = {v}
  /\ t.op \in {"pin", "unpin"} => t.pin \in Scopes
  /\ t.op = "publish" => t.run \in Run
  /\ \A v \in Visit :
       /\ t.plan[v].kind = "assign" => t.plan[v].crew # {} /\ t.op \in {"solve", "assign"}
       /\ t.op = "assign" /\ v \in t.scope => t.plan[v].kind = "assign"
       /\ t.op = "adjust" /\ v \in t.scope => t.plan[v].day \in Day
       /\ t.op = "solve" =>
            /\ t.plan[v].kind = "assign" => t.plan[v].day \in Day /\ v \in t.scope
            /\ v \in t.scope => t.plan[v].crew \subseteq t.crew /\ t.plan[v].kind # "none"
       /\ t.done[v] # "todo" => v \in t.scope /\ t.plan[v].kind = "assign"
                                /\ t.pc \in {"days", "judged"}
       /\ t.done[v] = "moved" => t.op = "solve"

Shape == \A p \in Proc : ShapeOf(p, tx[p])

TypeInv == TypeOK /\ Shape

LEMMA IdleType == Idle \in Tx
  BY DEF Idle, Tx, Plan, NoPlan

LEMMA CountType == \A vs \in SUBSET Visit : Cardinality(vs) \in Nat
  BY WriterAssumption, FS_Subset, FS_CardinalityType

LEMMA LoadType == \A d \in Day : Load(d) \in Nat
<1>1. IsFiniteSet(Visit \X (1 .. MaxWork))
  <2>1. IsFiniteSet(1 .. MaxWork)
    BY WriterAssumption, FS_Interval
  <2>2. QED
    BY <2>1, WriterAssumption, FS_Product
<1>2. \A vs : IsFiniteSet(CrewMinutes(vs))
  BY <1>1, FS_Subset DEF CrewMinutes
<1>3. QED
  BY <1>2, FS_CardinalityType DEF Load

LEMMA LiveIdType == TypeOK => \A v \in Visit : LiveId(v) \in Nat
  BY DEF TypeOK, LiveId, Live, Row

LEMMA RequestType ==
  ASSUME TypeOK, NEW v \in Visit, NEW op \in {"assign", "unassign", "adjust", "pin", "unpin"}
  PROVE  Request(op, v) \in Tx
  BY IdleType, LiveIdType DEF Request, Tx

LEMMA FinishType == ASSUME TypeOK, NEW p \in Proc, Finish(p)
                    PROVE  /\ tx' \in [Proc -> Tx]
                           /\ visitLock' \in [Visit -> Proc \cup {None}]
                           /\ crewLock' \in [Employee -> Proc \cup {None}]
                           /\ dayLock' \in [Day -> Proc \cup {None}]
  BY IdleType DEF TypeOK, Finish, Release

LEMMA TypeInit == Init => TypeOK
<1> SUFFICES ASSUME Init PROVE TypeOK
  OBVIOUS
<1>1. visits \in [Visit -> [day : Day, status : {"PENDING", "SCHEDULED", "UNASSIGNED"}, rev : Nat,
                           adjusted : BOOLEAN, locked : BOOLEAN, reason : Day \cup {None}]]
  BY WriterAssumption DEF Init
<1>2. rows \in [Visit -> SUBSET Row] /\ made \in [Visit -> Nat] /\ edits \in Nat
  BY DEF Init
<1>3. runs \in [Run -> [status : {"RUNNING", "SUCCEEDED", "FAILED", "SUPERSEDED"},
                        considered : Nat, scheduled : Nat, published : BOOLEAN]]
  BY DEF Init
<1>4. tx \in [Proc -> Tx]
  BY IdleType DEF Init
<1>5. QED
  BY <1>1, <1>2, <1>3, <1>4 DEF TypeOK, Init

LEMMA TypeOpen ==
  ASSUME TypeOK, NEW m \in Manager, OpenRequest(m)
  PROVE  TypeOK'
<1> USE DEF Proc
<1>0. ASSUME NEW t \in Tx, Open(m, t) PROVE TypeOK'
  BY <1>0 DEF Open, TypeOK
<1>1. ASSUME NEW v \in Visit, NEW c \in Crews, OpenAssign(m, v, c) PROVE TypeOK'
  <2>0. Request("assign", v) \in Tx
    BY RequestType
  <2>1. \A t \in Tx : [t EXCEPT !.plan[v] = [kind |-> "assign", crew |-> c, day |-> None]] \in Tx
    BY WriterAssumption DEF Tx, Plan, NoPlan
  <2>2. QED
    BY <1>0, <1>1, <2>0, <2>1 DEF OpenAssign
<1>2. ASSUME NEW v \in Visit, OpenUnassign(m, v) PROVE TypeOK'
  BY <1>0, <1>2, RequestType DEF OpenUnassign
<1>3. ASSUME NEW v \in Visit, NEW d \in Day, OpenAdjust(m, v, d) PROVE TypeOK'
  <2>0. Request("adjust", v) \in Tx
    BY RequestType
  <2>1. \A t \in Tx : [t EXCEPT !.plan[v] = [NoPlan EXCEPT !.day = d]] \in Tx
    BY WriterAssumption DEF Tx, Plan, NoPlan
  <2>2. QED
    BY <1>0, <1>3, <2>0, <2>1 DEF OpenAdjust
<1>4. ASSUME NEW v \in Visit, NEW a \in rows[v], NEW s \in Scopes, OpenPin(m, v, a, s) PROVE TypeOK'
  <2>1. a \in Row
    BY DEF TypeOK
  <2>0. Request("pin", v) \in Tx /\ a.id \in Nat /\ a.rev \in Nat
    BY <2>1, RequestType DEF Row
  <2>2. [Request("pin", v) EXCEPT !.ids[v] = a.id, !.revs[v] = a.rev, !.pin = s] \in Tx
    BY <2>0 DEF Tx
  <2>3. QED
    BY <1>0, <1>4, <2>2 DEF OpenPin
<1>5. ASSUME NEW v \in Visit, NEW a \in rows[v], NEW s \in Scopes, OpenUnpin(m, v, a, s) PROVE TypeOK'
  <2>1. Request("unpin", v) \in Tx /\ a.id \in Nat /\ a.pins[s].rev \in Nat
    BY RequestType DEF TypeOK, Row, Pins
  <2>2. [Request("unpin", v) EXCEPT !.ids[v] = a.id, !.revs[v] = a.pins[s].rev, !.pin = s] \in Tx
    BY <2>1 DEF Tx
  <2>3. QED
    BY <1>0, <1>5, <2>2 DEF OpenUnpin
<1>6. ASSUME NEW r \in Run, NEW ack \in BOOLEAN, OpenPublish(m, r, ack) PROVE TypeOK'
  <2> DEFINE ids == [v \in Visit |-> IF v \in DraftsOf(r)
                                     THEN (CHOOSE a \in Drafts(v) : a.run = r).id ELSE 0]
  <2>1. ids \in [Visit -> Nat]
    BY DEF DraftsOf, Drafts, TypeOK, Row
  <2>2. DraftsOf(r) \subseteq Visit
    BY DEF DraftsOf
  <2> HIDE DEF ids
  <2>3. [Idle EXCEPT !.pc = "begun", !.op = "publish", !.run = r, !.ack = ack,
                     !.scope = DraftsOf(r), !.ids = ids] \in Tx
    BY <2>1, <2>2, IdleType DEF Tx
  <2>4. QED
    BY <1>0, <1>6, <2>3 DEF OpenPublish, ids
<1>7. QED
  BY <1>1, <1>2, <1>3, <1>4, <1>5, <1>6 DEF OpenRequest

LEMMA DraftType ==
  ASSUME NEW id \in Nat, NEW c \in SUBSET Employee, NEW d \in Day,
         NEW r \in Run \cup {ByHand}, NEW p \in Pins
  PROVE  Draft(id, c, d, r, p) \in Row
  BY DEF Draft, Row

LEMMA UnpinnedType == Unpinned \in Pins
  BY DEF Unpinned, Pins

LEMMA ReplacedType ==
  ASSUME TypeOK, NEW p \in Proc, NEW v \in Visit
  PROVE  /\ Replaced(p, v) \subseteq rows[v]
         /\ Replaced(p, v) \subseteq Drafts(v)
         /\ Replaced(p, v) \subseteq Row
         /\ Inherited(p, v) \in Pins
  BY UnpinnedType DEF Replaced, Drafts, Inherited, TypeOK, Row

LEMMA DayAfterType ==
  ASSUME TypeOK, NEW p \in Proc, NEW v \in Visit, tx[p].plan[v].kind = "assign",
         tx[p].done[v] = "moved" => tx[p].plan[v].day \in Day
  PROVE  DayAfter(p, v) \in Day
  BY DEF DayAfter, TypeOK

LEMMA TypeSolveSnapshot ==
  ASSUME TypeOK, NEW r \in Run, SolveSnapshot(r)
  PROVE  TypeOK'
<1> PICK horizon \in Horizons[r] : \E plan \in [Considered(horizon) -> Answers] :
      /\ tx' = [tx EXCEPT ![r] = SolveRequest(horizon, plan)]
      /\ runs' = [runs EXCEPT ![r].considered = Cardinality(Considered(horizon))]
  BY DEF SolveSnapshot
<1> PICK plan \in [Considered(horizon) -> Answers] :
      /\ tx' = [tx EXCEPT ![r] = SolveRequest(horizon, plan)]
      /\ runs' = [runs EXCEPT ![r].considered = Cardinality(Considered(horizon))]
  OBVIOUS
<1> DEFINE vs == Considered(horizon)
           ids == [v \in Visit |-> IF v \in vs THEN LiveId(v) ELSE 0]
           revs == [v \in Visit |-> visits[v].rev]
           plans == [v \in Visit |-> IF v \in vs THEN plan[v] ELSE NoPlan]
           crew == UNION {plan[v].crew : v \in vs}
<1>1. vs \subseteq Visit /\ Cardinality(vs) \in Nat
  BY WriterAssumption, CountType DEF Considered
<1>2. ids \in [Visit -> Nat] /\ revs \in [Visit -> Nat]
  BY LiveIdType DEF TypeOK
<1>3. Answers \subseteq Plan /\ NoPlan \in Plan
  BY WriterAssumption DEF Answers, Plan, NoPlan
<1>4. plans \in [Visit -> Plan]
  BY <1>3
<1>5. crew \subseteq Employee
  BY <1>3 DEF Plan
<1> HIDE DEF vs, ids, revs, plans, crew
<1>6. [Idle EXCEPT !.pc = "begun", !.op = "solve", !.scope = vs, !.crew = crew,
                   !.ids = ids, !.revs = revs, !.plan = plans] \in Tx
  BY <1>1, <1>2, <1>4, <1>5, IdleType DEF Tx
<1>7. tx' \in [Proc -> Tx]
  BY <1>6 DEF vs, ids, revs, plans, crew, SolveRequest, TypeOK
<1>8. runs' \in [Run -> [status : {"RUNNING", "SUCCEEDED", "FAILED", "SUPERSEDED"},
                        considered : Nat, scheduled : Nat, published : BOOLEAN]]
  <2>1. runs' = [runs EXCEPT ![r].considered = Cardinality(vs)]
    BY DEF vs
  <2>2. ASSUME NEW n \in Nat, NEW run \in [status : {"RUNNING", "SUCCEEDED", "FAILED", "SUPERSEDED"},
                         considered : Nat, scheduled : Nat, published : BOOLEAN]
        PROVE  [run EXCEPT !.considered = n]
                 \in [status : {"RUNNING", "SUCCEEDED", "FAILED", "SUPERSEDED"},
                     considered : Nat, scheduled : Nat, published : BOOLEAN]
    OBVIOUS
  <2>3. QED
    BY <1>1, <2>1, <2>2 DEF TypeOK
<1>9. QED
  BY <1>7, <1>8 DEF SolveSnapshot, TypeOK

(* One field of one transaction at a time. *)
LEMMA StepType ==
  ASSUME TypeOK, NEW p \in Proc, NEW t \in Tx, tx' = [tx EXCEPT ![p] = t]
  PROVE  tx' \in [Proc -> Tx]
  BY DEF TypeOK

LEMMA DaysType ==
  ASSUME NEW t \in Tx, NEW ledger \in [Day -> Nat]
  PROVE  [t EXCEPT !.pc = "days", !.ledger = ledger] \in Tx
  BY DEF Tx

LEMMA DoneType ==
  ASSUME NEW t \in Tx, NEW v \in Visit, NEW o \in {"moved", "stayed", "unassigned"}
  PROVE  [t EXCEPT !.done = [t.done EXCEPT ![v] = o]] \in Tx
  BY DEF Tx

LEMMA LedgerType ==
  ASSUME NEW t \in Tx, NEW ledger \in [Day -> Nat]
  PROVE  [t EXCEPT !.ledger = ledger] \in Tx
  BY DEF Tx

LEMMA RecordMoveType ==
  ASSUME NEW l \in [Day -> Nat], NEW v \in Visit, NEW from \in Day, NEW to \in Day
  PROVE  RecordMove(l, v, from, to) \in [Day -> Nat]
<1>1. Work[v] \in Nat
  BY WriterAssumption
<1> DEFINE taken == [l EXCEPT ![from] = IF @ < Work[v] THEN 0 ELSE @ - Work[v]]
<1>2. taken \in [Day -> Nat]
  BY <1>1
<1>3. RecordMove(l, v, from, to) = [taken EXCEPT ![to] = @ + Work[v]]
  BY DEF RecordMove
<1> HIDE DEF taken
<1>4. QED
  BY <1>1, <1>2, <1>3

LEMMA TypeSolveCheck == ASSUME TypeOK, NEW r \in Run, SolveCheck(r) PROVE TypeOK'
<1> DEFINE counted == IF Targets(r) = {} THEN tx[r].ledger ELSE [d \in Day |-> Load(d)]
<1> USE DEF Proc
<1>1. counted \in [Day -> Nat]
  BY LoadType DEF TypeOK, Tx
<1> HIDE DEF counted
<1>2. tx' = [tx EXCEPT ![r] = [tx[r] EXCEPT !.pc = "days", !.ledger = counted]]
  BY DEF SolveCheck, counted, TypeOK, Tx
<1>3. tx' \in [Proc -> Tx]
  <2>1. tx[r] \in Tx
    BY DEF TypeOK
  <2>2. [tx[r] EXCEPT !.pc = "days", !.ledger = counted] \in Tx
    BY <1>1, <2>1, DaysType
  <2>3. QED
    BY <1>2, <2>2, StepType
<1>4. /\ crewLock' \in [Employee -> Proc \cup {None}]
      /\ dayLock' \in [Day -> Proc \cup {None}]
  BY DEF SolveCheck, LockResources, LockDays, TypeOK
<1>5. QED
  BY <1>3, <1>4 DEF SolveCheck, TypeOK

LEMMA TypeJudgeEntry ==
  ASSUME TypeInv, NEW r \in Run, NEW v \in Visit, JudgeEntry(r, v) PROVE TypeOK'
<1> USE DEF Proc, TypeInv
<1>0. tx[r] \in Tx /\ visits[v].day \in Day
  BY DEF TypeOK
<1>1. ASSUME tx[r].plan[v].day \in Day,
             tx' = [tx EXCEPT ![r].done[v] = "moved",
                              ![r].ledger = RecordMove(@, v, visits[v].day, tx[r].plan[v].day)]
      PROVE  tx' \in [Proc -> Tx]
  <2> DEFINE t == [tx[r] EXCEPT !.done = [tx[r].done EXCEPT ![v] = "moved"]]
             ledger == RecordMove(t.ledger, v, visits[v].day, tx[r].plan[v].day)
  <2>1. t \in Tx
    BY <1>0, DoneType
  <2>2. t.ledger = tx[r].ledger /\ t.ledger \in [Day -> Nat]
    BY <1>0 DEF Tx
  <2>3. ledger \in [Day -> Nat]
    BY <1>0, <1>1, <2>2, RecordMoveType
  <2>4. tx' = [tx EXCEPT ![r] = [t EXCEPT !.ledger = ledger]]
    BY <1>0, <1>1, <2>2 DEF Tx, TypeOK
  <2> HIDE DEF t, ledger
  <2>5. [t EXCEPT !.ledger = ledger] \in Tx
    BY <2>1, <2>3, LedgerType
  <2>6. QED
    BY <2>4, <2>5, StepType
<1>2. ASSUME NEW o \in {"stayed", "unassigned"}, tx' = [tx EXCEPT ![r].done[v] = o]
      PROVE  tx' \in [Proc -> Tx]
  <2>1. tx' = [tx EXCEPT ![r] = [tx[r] EXCEPT !.done = [tx[r].done EXCEPT ![v] = o]]]
    BY <1>2
  <2>2. QED
    BY <1>0, <2>1, DoneType, StepType
<1>3. tx[r].plan[v].day \in Day
  BY DEF JudgeEntry, Shape, ShapeOf, TypeOK, Tx, Idle
<1>4. tx' \in [Proc -> Tx]
  <2>1. \/ tx' = [tx EXCEPT ![r].done[v] = "moved",
                            ![r].ledger = RecordMove(@, v, visits[v].day, tx[r].plan[v].day)]
        \/ tx' = [tx EXCEPT ![r].done[v] = "stayed"]
        \/ tx' = [tx EXCEPT ![r].done[v] = "unassigned"]
    BY DEF JudgeEntry
  <2>2. QED
    BY <1>1, <1>2, <1>3, <2>1
<1>5. QED
  BY <1>4 DEF JudgeEntry, TypeOK

VisitRow == [day : Day, status : {"PENDING", "SCHEDULED", "UNASSIGNED"}, rev : Nat,
             adjusted : BOOLEAN, locked : BOOLEAN, reason : Day \cup {None}]
RunRow == [status : {"RUNNING", "SUCCEEDED", "FAILED", "SUPERSEDED"},
           considered : Nat, scheduled : Nat, published : BOOLEAN]

LEMMA ShiftedType == ASSUME NEW a \in Row, NEW d \in Day PROVE Shifted(a, d) \in Row
<1>1. a.rev + 1 \in Nat
  BY DEF Row
<1>2. QED
  BY <1>1 DEF Shifted, Row

LEMMA StatusType ==
  ASSUME NEW a \in Row, NEW s \in {"DRAFT", "PUBLISHED", "SUPERSEDED", "CANCELLED"}
  PROVE  [a EXCEPT !.status = s] \in Row
  BY DEF Row

LEMMA CheckedType ==
  ASSUME NEW t \in Tx, NEW c \in SUBSET Employee
  PROVE  [t EXCEPT !.pc = "checked", !.crew = c] \in Tx
  BY DEF Tx

LEMMA PcType ==
  ASSUME NEW t \in Tx, NEW pc \in {"visits", "judged"}
  PROVE  [t EXCEPT !.pc = pc] \in Tx
  BY DEF Tx

LEMMA RevisedType ==
  ASSUME NEW x \in VisitRow, NEW d \in Day, NEW s \in {"PENDING", "SCHEDULED", "UNASSIGNED"},
         NEW why \in Day \cup {None}
  PROVE  [x EXCEPT !.rev = @ + 1, !.status = s, !.day = d, !.reason = why] \in VisitRow
<1>1. x.rev + 1 \in Nat
  BY DEF VisitRow
<1>2. \A n \in Nat : [x EXCEPT !.rev = n, !.status = s, !.day = d, !.reason = why] \in VisitRow
  BY DEF VisitRow
<1>3. QED
  BY <1>1, <1>2

LEMMA FinishedRunType ==
  ASSUME NEW run \in RunRow, NEW n \in Nat
  PROVE  [run EXCEPT !.status = "SUCCEEDED", !.scheduled = n] \in RunRow
  BY DEF RunRow

LEMMA TypeSolveCommit == ASSUME TypeInv, NEW r \in Run, SolveCommit(r) PROVE TypeOK'
<1> USE DEF Proc, TypeInv
<1>1. ASSUME NEW v \in Visit, Staffs(r, v)
      PROVE  /\ DayAfter(r, v) \in Day
             /\ tx[r].plan[v].crew \in SUBSET Employee
  <2>1. tx[r].plan[v].kind = "assign" /\ (tx[r].done[v] = "moved" => tx[r].plan[v].day \in Day)
    BY <1>1 DEF Staffs, Shape, ShapeOf
  <2>2. tx[r].plan[v] \in Plan
    BY DEF TypeOK, Tx
  <2>3. QED
    BY <2>1, <2>2, DayAfterType DEF Plan
<1>2. rows' \in [Visit -> SUBSET Row]
  <2>1. ASSUME NEW v \in Visit, Staffs(r, v)
        PROVE  Draft(made[v] + 1, tx[r].plan[v].crew, DayAfter(r, v), r, Inherited(r, v)) \in Row
    BY <1>1, <2>1, ReplacedType, DraftType DEF TypeOK
  <2>2. \A a \in Row : [a EXCEPT !.status = "CANCELLED"] \in Row
    BY StatusType
  <2> DEFINE draft(v) == Draft(made[v] + 1, tx[r].plan[v].crew, DayAfter(r, v), r, Inherited(r, v))
             new(v) == IF v \notin tx[r].scope THEN rows[v]
                       ELSE IF Staffs(r, v) THEN (rows[v] \ Replaced(r, v)) \cup {draft(v)}
                       ELSE (rows[v] \ Replaced(r, v)) \cup {[a EXCEPT !.status = "CANCELLED"] : a \in Replaced(r, v)}
  <2>3. rows' = [v \in Visit |-> new(v)]
    BY DEF SolveCommit
  <2>4. ASSUME NEW v \in Visit PROVE new(v) \subseteq Row
    <3>1. rows[v] \subseteq Row /\ Replaced(r, v) \subseteq Row
      BY ReplacedType DEF TypeOK
    <3>2. Staffs(r, v) => draft(v) \in Row
      BY <2>1
    <3> HIDE DEF draft
    <3>3. QED
      BY <2>2, <3>1, <3>2
  <2> HIDE DEF new
  <2>5. QED
    BY <2>3, <2>4
<1>3. made' \in [Visit -> Nat]
  <2>1. made' = [v \in Visit |-> IF v \in tx[r].scope /\ Staffs(r, v) THEN made[v] + 1 ELSE made[v]]
    BY DEF SolveCommit
  <2>2. made \in [Visit -> Nat]
    BY DEF TypeOK
  <2>3. QED
    BY <2>1, <2>2
<1>4. visits' \in [Visit -> VisitRow]
  <2>1. ASSUME NEW v \in Visit PROVE DayAfter(r, v) \in Day
    BY <1>1, <2>1 DEF DayAfter, Staffs, TypeOK
  <2>2. \A v \in Visit : visits[v] \in VisitRow
    BY DEF TypeOK, VisitRow
  <2> DEFINE new(v) == [visits[v] EXCEPT !.rev = @ + 1,
                              !.status = IF Staffs(r, v) THEN "SCHEDULED" ELSE "UNASSIGNED",
                              !.day = DayAfter(r, v),
                              !.reason = IF Staffs(r, v) THEN None ELSE visits[v].day]
  <2>3. visits' = [v \in Visit |-> IF v \notin tx[r].scope THEN visits[v] ELSE new(v)]
    BY DEF SolveCommit
  <2>4. ASSUME NEW v \in Visit PROVE new(v) \in VisitRow
    <3>1. visits[v].day \in Day
      BY <2>2 DEF VisitRow
    <3>2. QED
      BY <2>1, <2>2, <3>1, RevisedType
  <2> HIDE DEF new
  <2>5. QED
    BY <2>2, <2>3, <2>4
<1>5. runs' \in [Run -> RunRow]
  <2>1. Cardinality({v \in tx[r].scope : Staffs(r, v)}) \in Nat
    BY CountType DEF TypeOK, Tx
  <2>2. runs \in [Run -> RunRow]
    BY DEF TypeOK, RunRow
  <2>3. ASSUME NEW n \in Nat PROVE [runs[r] EXCEPT !.status = "SUCCEEDED", !.scheduled = n] \in RunRow
    BY <2>2, FinishedRunType
  <2>4. ASSUME NEW n \in Nat, runs' = [runs EXCEPT ![r].status = "SUCCEEDED", ![r].scheduled = n]
        PROVE  runs' \in [Run -> RunRow]
    <3>1. runs = [q \in Run |-> runs[q]]
      BY <2>2
    <3>2. runs' = [runs EXCEPT ![r] = [runs[r] EXCEPT !.status = "SUCCEEDED", !.scheduled = n]]
      BY <2>4, <3>1
    <3>3. QED
      BY <2>2, <2>3, <3>2
  <2>5. QED
    BY <2>1, <2>4 DEF SolveCommit
<1>6. QED
  BY <1>2, <1>3, <1>4, <1>5, FinishType DEF SolveCommit, TypeOK, VisitRow, RunRow

LEMMA TargetOfOne ==
  ASSUME NEW m \in Manager, NEW v \in Visit, tx[m].scope = {v}
  PROVE  Target(m) = v
  BY DEF Target

(* Requests about one visit. *)
LEMMA OneTarget ==
  ASSUME TypeInv, NEW m \in Manager, tx[m].op \in {"assign", "unassign", "adjust", "pin", "unpin"}
  PROVE  Target(m) \in Visit /\ tx[m].scope = {Target(m)}
  BY TargetOfOne DEF TypeInv, Shape, ShapeOf, Proc

LEMMA TypeCheck == ASSUME TypeInv, NEW m \in Manager, Check(m) PROVE TypeOK'
<1> USE DEF Proc, TypeInv
<1>1. CrewToLock(m) \subseteq Employee
  <2>1. tx[m].op = "publish" => \A w \in tx[m].scope : Replaced(m, w) \subseteq Row
    BY ReplacedType DEF TypeOK, Tx
  <2>2. tx[m].op = "assign" => tx[m].plan[Target(m)].crew \subseteq Employee
    BY OneTarget DEF TypeOK, Tx, Plan
  <2>3. tx[m].op = "adjust" => Drafts(Target(m)) \subseteq Row
    BY OneTarget DEF TypeOK, Drafts
  <2>4. QED
    BY <2>1, <2>2, <2>3 DEF CrewToLock, Row
<1> DEFINE t == [tx[m] EXCEPT !.pc = "checked", !.crew = CrewToLock(m)]
<1>2. t \in Tx
  BY <1>1, CheckedType DEF TypeOK
<1>3. tx' = [tx EXCEPT ![m] = t]
  BY DEF Check
<1> HIDE DEF t
<1>4. QED
  BY <1>2, <1>3, StepType DEF Check, TypeOK

LEMMA LockType ==
  ASSUME TypeOK, NEW p \in Proc, NEW employees, LockResources(p, employees)
  PROVE  crewLock' \in [Employee -> Proc \cup {None}]
  BY DEF LockResources, TypeOK

LEMMA GotoType ==
  ASSUME TypeOK, NEW p \in Proc, NEW pc \in {"visits", "judged"}, Goto(p, pc)
  PROVE  tx' \in [Proc -> Tx]
<1>1. [tx[p] EXCEPT !.pc = pc] \in Tx
  BY PcType DEF TypeOK
<1>2. QED
  BY <1>1, StepType DEF Goto

LEMMA TypeJudge == ASSUME TypeInv, NEW m \in Manager, Judge(m) PROVE TypeOK'
<1> USE DEF Proc, TypeInv
<1>1. ASSUME NEW v \in Visit, NEW o \in {"stayed", "unassigned"},
             tx' = [tx EXCEPT ![m].pc = "judged", ![m].done[v] = o]
      PROVE  tx' \in [Proc -> Tx]
  <2> DEFINE t == [tx[m] EXCEPT !.pc = "judged", !.done = [tx[m].done EXCEPT ![v] = o]]
  <2>1. t \in Tx
    <3>1. [tx[m] EXCEPT !.pc = "judged"] \in Tx
      BY PcType DEF TypeOK
    <3>2. QED
      BY <3>1, DoneType DEF TypeOK, Tx
  <2>2. tx' = [tx EXCEPT ![m] = t]
    BY <1>1
  <2> HIDE DEF t
  <2>3. QED
    BY <2>1, <2>2, StepType
<1>2. tx' \in [Proc -> Tx]
  <2>1. CASE Goto(m, "judged")
    BY <2>1, GotoType
  <2>2. CASE ~ Goto(m, "judged")
    BY <2>2, <1>1, OneTarget DEF Judge
  <2>3. QED
    BY <2>1, <2>2
<1>3. QED
  BY <1>2, LockType DEF Judge, TypeOK

LEMMA TypeAssignCommit == ASSUME TypeInv, NEW m \in Manager, AssignCommit(m) PROVE TypeOK'
<1> USE DEF Proc, TypeInv
<1> DEFINE v == Target(m)
           lineage == IF Replaced(m, v) = {} THEN ByHand ELSE (CHOOSE a \in Replaced(m, v) : TRUE).run
<1>1. v \in Visit /\ tx[m].op = "assign"
  BY OneTarget DEF AssignCommit, Ready
<1>2. lineage \in Run \cup {ByHand}
  BY <1>1, ReplacedType DEF Row
<1>3. tx[m].plan[v].crew \subseteq Employee
  BY <1>1 DEF TypeOK, Tx, Plan
<1> HIDE DEF v, lineage
<1>4. CASE tx[m].done[v] = "stayed"
  <2>1. Draft(made[v] + 1, tx[m].plan[v].crew, visits[v].day, lineage, Unpinned) \in Row
    BY <1>1, <1>2, <1>3, DraftType, UnpinnedType DEF TypeOK
  <2>2. rows' = [rows EXCEPT ![v] = (@ \ Replaced(m, v)) \cup
                   {Draft(made[v] + 1, tx[m].plan[v].crew, visits[v].day, lineage, Unpinned)}]
        /\ made' = [made EXCEPT ![v] = @ + 1]
        /\ visits' = [visits EXCEPT ![v].status = "SCHEDULED", ![v].reason = None, ![v].rev = @ + 1]
    BY <1>4 DEF AssignCommit, v, lineage
  <2>3. rows' \in [Visit -> SUBSET Row] /\ made' \in [Visit -> Nat]
    BY <2>1, <2>2, <1>1 DEF TypeOK
  <2>4. visits' \in [Visit -> VisitRow]
    BY <2>2, <1>1 DEF TypeOK, VisitRow
  <2>5. QED
    BY <2>3, <2>4, FinishType DEF AssignCommit, TypeOK, VisitRow
<1>5. CASE tx[m].done[v] = "unassigned"
  <2>1. visits' \in [Visit -> VisitRow]
    BY <1>5, <1>1 DEF AssignCommit, v, TypeOK, VisitRow
  <2>2. UNCHANGED <<rows, made>>
    BY <1>5 DEF AssignCommit, v
  <2>3. QED
    BY <2>1, <2>2, FinishType DEF AssignCommit, TypeOK, VisitRow
<1>6. QED
  BY <1>4, <1>5 DEF AssignCommit, v

LEMMA TypeUnassignCommit == ASSUME TypeInv, NEW m \in Manager, UnassignCommit(m) PROVE TypeOK'
<1> USE DEF Proc, TypeInv
<1>1. Target(m) \in Visit
  BY OneTarget DEF UnassignCommit, Ready
<1>2. rows' \in [Visit -> SUBSET Row]
  BY <1>1 DEF UnassignCommit, TypeOK
<1>3. visits' \in [Visit -> VisitRow]
  BY <1>1 DEF UnassignCommit, TypeOK, VisitRow
<1>4. QED
  BY <1>2, <1>3, FinishType DEF UnassignCommit, TypeOK, VisitRow

LEMMA TypeAdjustCommit == ASSUME TypeInv, NEW m \in Manager, AdjustCommit(m) PROVE TypeOK'
<1> USE DEF Proc, TypeInv
<1> DEFINE v == Target(m)
           d == tx[m].plan[v].day
<1>1. v \in Visit /\ d \in Day
  BY OneTarget DEF AdjustCommit, Ready, Shape, ShapeOf
<1> HIDE DEF v, d
<1>2. \A a \in Row : Shifted(a, d) \in Row
  BY <1>1, ShiftedType
<1>3. rows' = [rows EXCEPT ![v] = {IF a \in Drafts(v) THEN Shifted(a, d) ELSE a : a \in @}]
  BY DEF AdjustCommit, v, d
<1>4. rows' \in [Visit -> SUBSET Row]
  BY <1>1, <1>2, <1>3 DEF TypeOK
<1>5. PICK cleared \in BOOLEAN :
        visits' = [visits EXCEPT ![v].day = d, ![v].adjusted = TRUE, ![v].rev = @ + 1,
                                 ![v].reason = IF cleared THEN None ELSE @]
  BY DEF AdjustCommit, v, d
<1>6. visits' \in [Visit -> VisitRow]
  BY <1>1, <1>5 DEF TypeOK, VisitRow
<1>7. QED
  BY <1>4, <1>6, FinishType DEF AdjustCommit, TypeOK, VisitRow

LEMMA TypePinCommit == ASSUME TypeInv, NEW m \in Manager, PinCommit(m) PROVE TypeOK'
<1> USE DEF Proc, TypeInv
<1> DEFINE v == Target(m)
           s == tx[m].pin
           held == tx[m].op = "pin"
           pinned(a) == [a EXCEPT !.pins[s] = [held |-> held, rev |-> @.rev + 1]]
<1>1. v \in Visit /\ s \in Scopes /\ held \in BOOLEAN
  BY OneTarget DEF PinCommit, Ready, Shape, ShapeOf
<1>2. rows' = [rows EXCEPT ![v] = {IF a \in Row0(m) THEN pinned(a) ELSE a : a \in @}]
  BY DEF PinCommit
<1>3. visits' = [visits EXCEPT ![v].rev = @ + 1]
  BY DEF PinCommit
<1> HIDE DEF v, s, held
<1>4. ASSUME NEW a \in Row PROVE pinned(a) \in Row
  <2>1. a.pins \in Pins /\ a.pins[s].rev + 1 \in Nat
    BY <1>1 DEF Row, Pins
  <2>2. [a.pins EXCEPT ![s] = [held |-> held, rev |-> @.rev + 1]] \in Pins
    BY <1>1, <2>1 DEF Pins
  <2>3. \A p \in Pins : [a EXCEPT !.pins = p] \in Row
    BY DEF Row
  <2>4. QED
    BY <2>2, <2>3
<1> HIDE DEF pinned
<1>5. rows' \in [Visit -> SUBSET Row]
  BY <1>1, <1>2, <1>4 DEF TypeOK
<1>6. visits' \in [Visit -> VisitRow]
  <2>1. visits \in [Visit -> VisitRow]
    BY DEF TypeOK, VisitRow
  <2>2. [visits[v] EXCEPT !.rev = @ + 1] \in VisitRow
    BY <1>1, <2>1 DEF VisitRow
  <2>3. QED
    BY <1>1, <1>3, <2>1, <2>2
<1>7. QED
  BY <1>5, <1>6, FinishType DEF PinCommit, TypeOK, VisitRow

LEMMA TypePublishCommit == ASSUME TypeInv, NEW m \in Manager, PublishCommit(m) PROVE TypeOK'
<1> USE DEF Proc, TypeInv
<1> DEFINE vs == tx[m].scope
           out(v, a) == IF a \in Replaced(m, v) THEN [a EXCEPT !.status = "PUBLISHED"]
                        ELSE IF a.status = "PUBLISHED" THEN [a EXCEPT !.status = "SUPERSEDED"] ELSE a
<1>1. rows' = [v \in Visit |-> IF v \notin vs THEN rows[v] ELSE {out(v, a) : a \in rows[v]}]
  BY DEF PublishCommit
<1>2. \A v \in Visit : \A a \in Row : out(v, a) \in Row
  BY StatusType
<1> HIDE DEF out
<1>3. rows' \in [Visit -> SUBSET Row]
  BY <1>1, <1>2 DEF TypeOK
<1>4. Cardinality(vs) \in Nat
  BY CountType DEF TypeOK, Tx
<1>5. \A q \in Run : runs[q] \in RunRow
  BY DEF TypeOK, RunRow
<1>6. \A q \in Run : PublishedRun(q, vs) \in RunRow /\ [runs[q] EXCEPT !.status = "SUPERSEDED"] \in RunRow
  BY <1>4, <1>5 DEF PublishedRun, RunRow
<1>7. runs' \in [Run -> RunRow]
  BY <1>5, <1>6 DEF PublishCommit
<1>8. QED
  BY <1>3, <1>7, FinishType DEF PublishCommit, TypeOK, RunRow

LEMMA TypeRest ==
  ASSUME TypeInv,
         \/ \E p \in Proc : LockVisits(p) \/ Abort(p)
         \/ \E v \in Visit, locked \in BOOLEAN : SetLocked(v, locked)
         \/ \E v \in Visit : Withdraw(v)
  PROVE  TypeOK'
<1> USE DEF TypeInv
<1>1. ASSUME NEW p \in Proc, LockVisits(p) PROVE TypeOK'
  <2>1. tx' \in [Proc -> Tx]
    BY <1>1, GotoType DEF LockVisits
  <2>2. visitLock' \in [Visit -> Proc \cup {None}]
    BY <1>1 DEF LockVisits, TypeOK
  <2>3. QED
    BY <1>1, <2>1, <2>2 DEF LockVisits, TypeOK
<1>2. ASSUME NEW p \in Proc, Abort(p) PROVE TypeOK'
  <2>1. runs' \in [Run -> RunRow]
    BY <1>2 DEF Abort, TypeOK, RunRow
  <2>2. QED
    BY <1>2, <2>1, FinishType DEF Abort, TypeOK, RunRow
<1>3. ASSUME NEW v \in Visit, NEW locked \in BOOLEAN, SetLocked(v, locked) PROVE TypeOK'
  <2>1. visits' \in [Visit -> VisitRow]
    BY <1>3 DEF SetLocked, TypeOK, VisitRow
  <2>2. QED
    BY <1>3, <2>1 DEF SetLocked, TypeOK, VisitRow
<1>4. ASSUME NEW v \in Visit, Withdraw(v) PROVE TypeOK'
  <2>1. PICK a \in rows[v] : rows' = [rows EXCEPT ![v] = (@ \ {a}) \cup {[a EXCEPT !.status = "SUPERSEDED"]}]
    BY <1>4 DEF Withdraw
  <2>2. [a EXCEPT !.status = "SUPERSEDED"] \in Row
    BY StatusType DEF TypeOK
  <2>3. rows' \in [Visit -> SUBSET Row]
    BY <2>1, <2>2 DEF TypeOK
  <2>4. visits' \in [Visit -> VisitRow]
    <3> DEFINE x == [visits[v] EXCEPT !.status = "UNASSIGNED", !.reason = visits[v].day, !.rev = @ + 1]
    <3>1. visits \in [Visit -> VisitRow]
      BY DEF TypeOK, VisitRow
    <3>2. visits[v].day \in Day /\ visits[v].rev + 1 \in Nat
      BY <3>1 DEF VisitRow
    <3>3. x \in VisitRow
      BY <3>1, <3>2 DEF VisitRow
    <3>4. visits' = [visits EXCEPT ![v] = x]
      BY <1>4 DEF Withdraw
    <3>5. QED
      BY <3>1, <3>3, <3>4
  <2>5. tx' = tx /\ made' = made /\ runs' = runs /\ visitLock' = visitLock /\ crewLock' = crewLock
        /\ dayLock' = dayLock /\ edits' = edits + 1
    BY <1>4 DEF Withdraw
  <2>6. QED
    BY <2>3, <2>4, <2>5 DEF TypeOK, VisitRow
<1>5. QED
  BY <1>1, <1>2, <1>3, <1>4

-----------------------------------------------------------------------------
(* The shape of the transactions *)

LEMMA ShapeInit == Init => Shape
  BY DEF Init, Shape, ShapeOf, Idle, NoPlan, Proc

LEMMA ShapeStep ==
  ASSUME TypeInv, NEW p \in Proc, NEW t, ShapeOf(p, t), tx' = [tx EXCEPT ![p] = t]
  PROVE  Shape'
  BY DEF TypeInv, TypeOK, Shape

LEMMA ShapeFinish == ASSUME TypeInv, NEW p \in Proc, Finish(p) PROVE Shape'
<1>1. ShapeOf(p, Idle)
  BY DEF ShapeOf, Idle, NoPlan
<1>2. QED
  BY <1>1, ShapeStep DEF Finish

LEMMA ShapeOpen == ASSUME TypeInv, NEW m \in Manager, OpenRequest(m) PROVE Shape'
<1> USE DEF Proc
<1>0. ASSUME NEW t, ShapeOf(m, t), Open(m, t) PROVE Shape'
  BY <1>0, ShapeStep DEF Open
<1>00. m \notin Run
  BY WriterAssumption
<1>1. ASSUME NEW v \in Visit, NEW c \in Crews, OpenAssign(m, v, c) PROVE Shape'
  <2> DEFINE t == [Request("assign", v) EXCEPT !.plan[v] = [kind |-> "assign", crew |-> c, day |-> None]]
  <2>1. ShapeOf(m, t)
    BY <1>00, WriterAssumption DEF ShapeOf, Request, Idle, NoPlan
  <2>2. QED
    BY <1>0, <1>1, <2>1 DEF OpenAssign
<1>2. ASSUME NEW v \in Visit, OpenUnassign(m, v) PROVE Shape'
  <2>1. ShapeOf(m, Request("unassign", v))
    BY <1>00 DEF ShapeOf, Request, Idle, NoPlan
  <2>2. QED
    BY <1>0, <1>2, <2>1 DEF OpenUnassign
<1>3. ASSUME NEW v \in Visit, NEW d \in Day, OpenAdjust(m, v, d) PROVE Shape'
  <2> DEFINE t == [Request("adjust", v) EXCEPT !.plan[v] = [NoPlan EXCEPT !.day = d]]
  <2>1. ShapeOf(m, t)
    BY <1>00 DEF ShapeOf, Request, Idle, NoPlan
  <2>2. QED
    BY <1>0, <1>3, <2>1 DEF OpenAdjust
<1>4. ASSUME NEW v \in Visit, NEW a \in rows[v], NEW s \in Scopes, OpenPin(m, v, a, s) PROVE Shape'
  <2> DEFINE t == [Request("pin", v) EXCEPT !.ids[v] = a.id, !.revs[v] = a.rev, !.pin = s]
  <2>1. ShapeOf(m, t)
    BY <1>00 DEF ShapeOf, Request, Idle, NoPlan
  <2>2. QED
    BY <1>0, <1>4, <2>1 DEF OpenPin
<1>5. ASSUME NEW v \in Visit, NEW a \in rows[v], NEW s \in Scopes, OpenUnpin(m, v, a, s) PROVE Shape'
  <2> DEFINE t == [Request("unpin", v) EXCEPT !.ids[v] = a.id, !.revs[v] = a.pins[s].rev, !.pin = s]
  <2>1. ShapeOf(m, t)
    BY <1>00 DEF ShapeOf, Request, Idle, NoPlan
  <2>2. QED
    BY <1>0, <1>5, <2>1 DEF OpenUnpin
<1>6. ASSUME NEW r \in Run, NEW ack \in BOOLEAN, OpenPublish(m, r, ack) PROVE Shape'
  <2> DEFINE t == [Idle EXCEPT !.pc = "begun", !.op = "publish", !.run = r, !.ack = ack,
                               !.scope = DraftsOf(r),
                               !.ids = [v \in Visit |->
                                          IF v \in DraftsOf(r)
                                          THEN (CHOOSE a \in Drafts(v) : a.run = r).id ELSE 0]]
  <2>1. ShapeOf(m, t)
    BY <1>00 DEF ShapeOf, Idle, NoPlan
  <2>2. QED
    BY <1>0, <1>6, <2>1 DEF OpenPublish
<1>7. QED
  BY <1>1, <1>2, <1>3, <1>4, <1>5, <1>6 DEF OpenRequest

LEMMA ShapeSolveSnapshot == ASSUME TypeInv, NEW r \in Run, SolveSnapshot(r) PROVE Shape'
<1> USE DEF Proc
<1> PICK horizon \in Horizons[r] : \E plan \in [Considered(horizon) -> Answers] :
      /\ \A v \in Considered(horizon) : plan[v].kind = "assign" =>
            plan[v].day \in Legal[v] \cup {visits[v].day}
      /\ tx' = [tx EXCEPT ![r] = SolveRequest(horizon, plan)]
  BY DEF SolveSnapshot
<1> PICK plan \in [Considered(horizon) -> Answers] :
      /\ \A v \in Considered(horizon) : plan[v].kind = "assign" =>
            plan[v].day \in Legal[v] \cup {visits[v].day}
      /\ tx' = [tx EXCEPT ![r] = SolveRequest(horizon, plan)]
  OBVIOUS
<1> DEFINE vs == Considered(horizon)
           t == SolveRequest(horizon, plan)
<1>1. vs \subseteq Visit
  BY WriterAssumption DEF Considered
<1>2. /\ t.pc = "begun" /\ t.op = "solve" /\ t.scope = vs
      /\ t.crew = UNION {plan[v].crew : v \in vs}
      /\ t.plan = [v \in Visit |-> IF v \in vs THEN plan[v] ELSE NoPlan]
      /\ t.done = [v \in Visit |-> "todo"]
  BY DEF SolveRequest, Idle
<1>3. \A v \in vs : plan[v].kind = "assign" => plan[v].crew # {} /\ plan[v].day \in Day
  <2> SUFFICES ASSUME NEW v \in vs, plan[v].kind = "assign"
               PROVE  plan[v].crew # {} /\ plan[v].day \in Day
    OBVIOUS
  <2>1. plan[v] \in Answers
    OBVIOUS
  <2>2. plan[v].crew \in Crews
    BY <2>1 DEF Answers, NoPlan
  <2>3. Legal[v] \subseteq Day /\ visits[v].day \in Day
    BY <1>1, WriterAssumption DEF TypeInv, TypeOK
  <2>4. QED
    BY <2>2, <2>3, WriterAssumption
<1>3a. \A v \in vs : plan[v].kind # "none"
  BY DEF Answers, NoPlan
<1> HIDE DEF vs, t
<1>4. ShapeOf(r, t)
  BY <1>1, <1>2, <1>3, <1>3a DEF ShapeOf, NoPlan
<1>5. QED
  BY <1>4, ShapeStep DEF t

LEMMA ShapeJudgeEntry ==
  ASSUME TypeInv, NEW r \in Run, NEW v \in Visit, JudgeEntry(r, v) PROVE Shape'
<1> USE DEF Proc
<1>1. tx[r] \in Tx /\ ShapeOf(r, tx[r])
  BY DEF TypeInv, TypeOK, Shape
<1>2. ASSUME NEW o \in {"moved", "stayed", "unassigned"}, NEW ledger,
             tx' = [tx EXCEPT ![r] = [tx[r] EXCEPT !.done[v] = o, !.ledger = ledger]]
      PROVE  Shape'
  <2> DEFINE t == [tx[r] EXCEPT !.done[v] = o, !.ledger = ledger]
  <2>1. /\ t.pc = "days" /\ t.op = "solve" /\ t.scope = tx[r].scope /\ t.plan = tx[r].plan
        /\ t.crew = tx[r].crew /\ t.done = [tx[r].done EXCEPT ![v] = o]
    BY <1>1 DEF JudgeEntry, ShapeOf, Tx
  <2> HIDE DEF t
  <2>2. ShapeOf(r, t)
    <3>1. v \in tx[r].scope /\ tx[r].plan[v].kind = "assign" /\ tx[r].pc = "days" /\ tx[r].op = "solve"
      BY <1>1 DEF JudgeEntry, ShapeOf
    <3>2. \A u \in Visit : t.done[u] = IF u = v THEN o ELSE tx[r].done[u]
      BY <1>1, <2>1 DEF Tx
    <3>3. \A u \in Visit : /\ t.done[u] # "todo" => /\ u \in t.scope /\ t.plan[u].kind = "assign"
                                                     /\ t.pc \in {"days", "judged"}
                           /\ t.done[u] = "moved" => t.op = "solve"
      BY <1>1, <2>1, <3>1, <3>2 DEF ShapeOf
    <3>4. QED
      BY <1>1, <2>1, <3>1, <3>3 DEF ShapeOf
  <2>3. QED
    BY <1>2, <2>2, ShapeStep DEF t
<1>3. \E o \in {"moved", "stayed", "unassigned"} : \E ledger :
        tx' = [tx EXCEPT ![r] = [tx[r] EXCEPT !.done[v] = o, !.ledger = ledger]]
  <2>1. ASSUME NEW o \in {"stayed", "unassigned"}, tx' = [tx EXCEPT ![r].done[v] = o]
        PROVE  tx' = [tx EXCEPT ![r] = [tx[r] EXCEPT !.done[v] = o, !.ledger = tx[r].ledger]]
    BY <1>1, <2>1 DEF Tx
  <2>2. ASSUME NEW to, tx' = [tx EXCEPT ![r].done[v] = "moved",
                                        ![r].ledger = RecordMove(@, v, visits[v].day, to)]
        PROVE  tx' = [tx EXCEPT ![r] = [tx[r] EXCEPT !.done[v] = "moved",
                                                     !.ledger = RecordMove(tx[r].ledger, v, visits[v].day, to)]]
    BY <1>1, <2>2 DEF Tx, TypeInv, TypeOK
  <2>3. QED
    BY <2>1, <2>2 DEF JudgeEntry
<1>4. QED
  BY <1>2, <1>3

LEMMA ShapeMove ==
  ASSUME TypeInv, NEW p \in Proc, NEW t, tx' = [tx EXCEPT ![p] = t],
         tx[p].pc # "idle", t.pc # "idle",
         t.op = tx[p].op, t.scope = tx[p].scope, t.plan = tx[p].plan, t.pin = tx[p].pin,
         t.run = tx[p].run, t.pc = "days" => p \in Run, t.pc \in {"checked", "judged"} => p \in Manager,
         t.done = tx[p].done, t.op = "solve" => t.crew = tx[p].crew,
         t.pc \in {"days", "judged"} \/ \A v \in Visit : tx[p].done[v] = "todo"
  PROVE  Shape'
<1>1. ShapeOf(p, tx[p])
  BY DEF TypeInv, Shape
<1>2. ShapeOf(p, t)
  BY <1>1 DEF ShapeOf
<1>3. QED
  BY <1>2, ShapeStep

LEMMA ShapeMoves ==
  ASSUME TypeInv, NEW p \in Proc,
         \/ LockVisits(p)
         \/ p \in Run /\ SolveCheck(p)
         \/ p \in Manager /\ (Check(p) \/ Judge(p))
  PROVE  Shape'
<1> USE DEF Proc
<1>1. tx[p] \in Tx /\ ShapeOf(p, tx[p])
  BY DEF TypeInv, TypeOK, Shape
<1>2. tx[p].pc \notin {"days", "judged"} => \A v \in Visit : tx[p].done[v] = "todo"
  BY <1>1 DEF ShapeOf
<1>3. CASE LockVisits(p)
  <2> DEFINE t == [tx[p] EXCEPT !.pc = "visits"]
  <2>1. tx' = [tx EXCEPT ![p] = t] /\ tx[p].pc = "begun"
    BY <1>3 DEF LockVisits, Goto
  <2>2. t.pc = "visits" /\ t.op = tx[p].op /\ t.scope = tx[p].scope /\ t.plan = tx[p].plan /\ t.pin = tx[p].pin
        /\ t.run = tx[p].run /\ t.done = tx[p].done /\ t.crew = tx[p].crew
    BY <1>1 DEF Tx
  <2> HIDE DEF t
  <2>3. QED
    BY <1>2, <2>1, <2>2, ShapeMove
<1>4. CASE p \in Run /\ SolveCheck(p)
  <2> DEFINE counted == IF Targets(p) = {} THEN tx[p].ledger ELSE [d \in Day |-> Load(d)]
             t == [tx[p] EXCEPT !.pc = "days", !.ledger = counted]
  <2>1. tx' = [tx EXCEPT ![p] = t] /\ tx[p].pc = "visits"
    BY <1>4 DEF SolveCheck
  <2> HIDE DEF counted
  <2>2. t.pc = "days" /\ t.op = tx[p].op /\ t.scope = tx[p].scope /\ t.plan = tx[p].plan /\ t.pin = tx[p].pin
        /\ t.run = tx[p].run /\ t.done = tx[p].done /\ t.crew = tx[p].crew
    BY <1>1 DEF Tx
  <2> HIDE DEF t
  <2>3. QED
    BY <1>2, <1>4, <2>1, <2>2, ShapeMove
<1>5. CASE p \in Manager /\ Check(p)
  <2> DEFINE t == [tx[p] EXCEPT !.pc = "checked", !.crew = CrewToLock(p)]
  <2>1. tx' = [tx EXCEPT ![p] = t] /\ tx[p].pc = "visits" /\ tx[p].op # "solve"
    BY <1>5 DEF Check
  <2>2. t.pc = "checked" /\ t.op = tx[p].op /\ t.scope = tx[p].scope /\ t.plan = tx[p].plan /\ t.pin = tx[p].pin
        /\ t.run = tx[p].run /\ t.done = tx[p].done
    BY <1>1 DEF Tx
  <2> HIDE DEF t
  <2>3. QED
    BY <1>2, <1>5, <2>1, <2>2, ShapeMove
<1>6. CASE p \in Manager /\ Judge(p)
  <2>1. CASE Goto(p, "judged")
    <3> DEFINE t == [tx[p] EXCEPT !.pc = "judged"]
    <3>1. tx' = [tx EXCEPT ![p] = t] /\ tx[p].pc = "checked"
      BY <1>6, <2>1 DEF Judge, Goto
    <3>2. t.pc = "judged" /\ t.op = tx[p].op /\ t.scope = tx[p].scope /\ t.plan = tx[p].plan /\ t.pin = tx[p].pin
          /\ t.run = tx[p].run /\ t.done = tx[p].done /\ t.crew = tx[p].crew
      BY <1>1 DEF Tx
    <3> HIDE DEF t
    <3>3. QED
      BY <1>2, <1>6, <3>1, <3>2, ShapeMove
  <2>2. CASE ~ Goto(p, "judged")
    <3> DEFINE v == Target(p)
    <3>1. tx[p].pc = "checked" /\ tx[p].op = "assign"
          /\ \E o \in {"stayed", "unassigned"} : tx' = [tx EXCEPT ![p].pc = "judged", ![p].done[v] = o]
      BY <1>6, <2>2 DEF Judge
    <3>2. PICK o \in {"stayed", "unassigned"} : tx' = [tx EXCEPT ![p].pc = "judged", ![p].done[v] = o]
      BY <3>1
    <3>3. v \in Visit /\ tx[p].scope = {v}
      BY <1>6, <3>1, OneTarget
    <3> HIDE DEF v
    <3> DEFINE t == [tx[p] EXCEPT !.pc = "judged", !.done = [tx[p].done EXCEPT ![v] = o]]
    <3>4. tx' = [tx EXCEPT ![p] = t]
      BY <3>2
    <3>5. t.pc = "judged" /\ t.op = "assign" /\ t.scope = {v} /\ t.plan = tx[p].plan /\ t.pin = tx[p].pin
          /\ t.run = tx[p].run /\ t.done = [tx[p].done EXCEPT ![v] = o] /\ t.crew = tx[p].crew
      BY <1>1, <3>1, <3>3 DEF Tx
    <3> HIDE DEF t
    <3>6. ShapeOf(p, t)
      BY <1>1, <1>2, <1>6, <3>1, <3>3, <3>5, WriterAssumption DEF ShapeOf, Tx
    <3>7. QED
      BY <3>4, <3>6, ShapeStep
  <2>3. QED
    BY <2>1, <2>2
<1>7. QED
  BY <1>3, <1>4, <1>5, <1>6

LEMMA TypeInvInductive == TypeInv /\ [Next]_vars => TypeInv'
<1> SUFFICES ASSUME TypeInv, [Next]_vars PROVE TypeInv'
  OBVIOUS
<1> USE DEF Proc
<1>1. ASSUME NEW p \in Proc, LockVisits(p) \/ Abort(p) PROVE TypeInv'
  BY <1>1, TypeRest, ShapeMoves, ShapeFinish DEF Abort, TypeInv
<1>2. ASSUME NEW r \in Run, Solve(r) PROVE TypeInv'
  <2>1. CASE SolveSnapshot(r)
    BY <2>1, TypeSolveSnapshot, ShapeSolveSnapshot DEF TypeInv
  <2>2. CASE SolveCheck(r)
    BY <2>2, TypeSolveCheck, ShapeMoves DEF TypeInv
  <2>3. CASE \E v \in Visit : JudgeEntry(r, v)
    BY <2>3, TypeJudgeEntry, ShapeJudgeEntry DEF TypeInv
  <2>4. CASE SolveCommit(r)
    BY <2>4, TypeSolveCommit, ShapeFinish DEF TypeInv, SolveCommit
  <2>5. QED
    BY <1>2, <2>1, <2>2, <2>3, <2>4 DEF Solve
<1>3. ASSUME NEW m \in Manager, Manage(m) PROVE TypeInv'
  <2>1. CASE OpenRequest(m)
    BY <2>1, TypeOpen, ShapeOpen DEF TypeInv
  <2>2. CASE Check(m)
    BY <2>2, TypeCheck, ShapeMoves DEF TypeInv
  <2>3. CASE Judge(m)
    BY <2>3, TypeJudge, ShapeMoves DEF TypeInv
  <2>4. CASE AssignCommit(m)
    BY <2>4, TypeAssignCommit, ShapeFinish DEF TypeInv, AssignCommit
  <2>5. CASE UnassignCommit(m)
    BY <2>5, TypeUnassignCommit, ShapeFinish DEF TypeInv, UnassignCommit
  <2>6. CASE AdjustCommit(m)
    BY <2>6, TypeAdjustCommit, ShapeFinish DEF TypeInv, AdjustCommit
  <2>7. CASE PinCommit(m)
    BY <2>7, TypePinCommit, ShapeFinish DEF TypeInv, PinCommit
  <2>8. CASE PublishCommit(m)
    BY <2>8, TypePublishCommit, ShapeFinish DEF TypeInv, PublishCommit
  <2>9. QED
    BY <1>3, <2>1, <2>2, <2>3, <2>4, <2>5, <2>6, <2>7, <2>8 DEF Manage
<1>4. ASSUME (\E v \in Visit, locked \in BOOLEAN : SetLocked(v, locked)) \/ \E v \in Visit : Withdraw(v)
      PROVE  TypeInv'
  <2>1. tx' = tx
    BY <1>4 DEF SetLocked, Withdraw
  <2>2. QED
    BY <1>4, <2>1, TypeRest DEF TypeInv, Shape
<1>5. CASE UNCHANGED vars
  BY <1>5 DEF vars, TypeInv, TypeOK, Shape
<1>6. QED
  BY <1>1, <1>2, <1>3, <1>4, <1>5 DEF Next

(* Every state of every behaviour has its type, and an open transaction is   *)
(* one its writer could have opened: what the solver, the managers and       *)
(* publication keep in memory between their reads and their commits.         *)
THEOREM TypeCorrect == Spec => []TypeOK
<1>1. Init => TypeInv
  BY TypeInit, ShapeInit DEF TypeInv
<1>2. TypeInv => TypeOK
  BY DEF TypeInv
<1>3. QED
  BY <1>1, <1>2, TypeInvInductive, PTL DEF Spec

-----------------------------------------------------------------------------
(* Locks *)

Locked(p) == tx[p].pc \in {"visits", "checked", "days", "judged"}
HasCrew(p) == tx[p].pc \in {"days", "judged"}

(* A writer holds the visits it is about, and from its judgement on the     *)
(* employees it books.                                                      *)
Locks ==
  \A p \in Proc :
    /\ Locked(p) => \A v \in tx[p].scope : visitLock[v] = p
    /\ HasCrew(p) => \A e \in tx[p].crew : crewLock[e] = p

Commit(p) ==
  \/ p \in Run /\ SolveCommit(p)
  \/ p \in Manager /\ \/ AssignCommit(p) \/ UnassignCommit(p) \/ AdjustCommit(p)
                      \/ PinCommit(p) \/ PublishCommit(p)

LEMMA CommitFrame ==
  ASSUME TypeInv, NEW p \in Proc, Commit(p)
  PROVE  /\ Locked(p) /\ Finish(p)
         /\ \A v \in Visit \ tx[p].scope : rows'[v] = rows[v] /\ visits'[v] = visits[v]
<1> USE DEF Proc
<1>0. rows = [v \in Visit |-> rows[v]] /\ visits = [v \in Visit |-> visits[v]]
  BY DEF TypeInv, TypeOK
<1>1. CASE p \in Run /\ SolveCommit(p)
  BY <1>0, <1>1 DEF SolveCommit, Locked
<1>2. CASE p \in Manager /\ AssignCommit(p)
  <2>1. tx[p].op = "assign" /\ tx[p].pc = "judged" /\ Finish(p)
    BY <1>2 DEF AssignCommit, Ready
  <2>2. Target(p) \in Visit /\ tx[p].scope = {Target(p)}
    BY <1>2, <2>1, OneTarget
  <2>3. \A v \in Visit \ {Target(p)} : rows'[v] = rows[v]
    BY <1>0, <1>2 DEF AssignCommit
  <2>4. \A v \in Visit \ {Target(p)} : visits'[v] = visits[v]
    BY <1>0, <1>2 DEF AssignCommit
  <2>5. QED
    BY <2>1, <2>2, <2>3, <2>4 DEF Locked
<1>3. CASE p \in Manager /\ UnassignCommit(p)
  <2>1. tx[p].op = "unassign" /\ tx[p].pc = "checked" /\ Finish(p)
    BY <1>3 DEF UnassignCommit, Ready
  <2>2. Target(p) \in Visit /\ tx[p].scope = {Target(p)}
    BY <1>3, <2>1, OneTarget
  <2>3. QED
    BY <1>0, <1>3, <2>1, <2>2 DEF UnassignCommit, Locked
<1>4. CASE p \in Manager /\ AdjustCommit(p)
  <2>1. tx[p].op = "adjust" /\ tx[p].pc = "judged" /\ Finish(p)
    BY <1>4 DEF AdjustCommit, Ready
  <2>2. Target(p) \in Visit /\ tx[p].scope = {Target(p)}
    BY <1>4, <2>1, OneTarget
  <2>3. \A v \in Visit \ {Target(p)} : rows'[v] = rows[v] /\ visits'[v] = visits[v]
    BY <1>0, <1>4 DEF AdjustCommit
  <2>4. QED
    BY <2>1, <2>2, <2>3 DEF Locked
<1>5. CASE p \in Manager /\ PinCommit(p)
  <2>1. tx[p].op \in {"pin", "unpin"} /\ tx[p].pc = "checked" /\ Finish(p)
    BY <1>5 DEF PinCommit, Ready
  <2>2. Target(p) \in Visit /\ tx[p].scope = {Target(p)}
    BY <1>5, <2>1, OneTarget
  <2>3. \A v \in Visit \ {Target(p)} : rows'[v] = rows[v] /\ visits'[v] = visits[v]
    BY <1>0, <1>5 DEF PinCommit
  <2>4. QED
    BY <2>1, <2>2, <2>3 DEF Locked
<1>6. CASE p \in Manager /\ PublishCommit(p)
  <2>1. tx[p].pc = "judged" /\ Finish(p) /\ visits' = visits
    BY <1>6 DEF PublishCommit, Ready
  <2>2. \A v \in Visit \ tx[p].scope : rows'[v] = rows[v]
    BY <1>0, <1>6 DEF PublishCommit
  <2>3. QED
    BY <2>1, <2>2 DEF Locked
<1>7. QED
  BY <1>1, <1>2, <1>3, <1>4, <1>5, <1>6 DEF Commit

(* The steps of the writers, sorted by what they touch. *)
Opens(p) == \/ p \in Run /\ SolveSnapshot(p)
            \/ p \in Manager /\ OpenRequest(p)
Thinks(p) == \/ p \in Run /\ (SolveCheck(p) \/ \E v \in Visit : JudgeEntry(p, v))
             \/ p \in Manager /\ (Check(p) \/ Judge(p))
OutsideEdit == (\E v \in Visit, locked \in BOOLEAN : SetLocked(v, locked)) \/ \E v \in Visit : Withdraw(v)

LEMMA Steps ==
  [Next]_vars =>
    \/ \E p \in Proc : LockVisits(p) \/ Abort(p) \/ Opens(p) \/ Thinks(p) \/ Commit(p)
    \/ OutsideEdit
    \/ UNCHANGED vars
  BY DEF Next, Solve, Manage, Opens, Thinks, Commit, OutsideEdit, Proc

LEMMA OpensFrame ==
  ASSUME TypeInv, NEW p \in Proc, Opens(p)
  PROVE  /\ UNCHANGED <<visits, rows, visitLock, crewLock>>
         /\ tx[p].pc = "idle" /\ tx'[p].pc = "begun"
         /\ \A q \in Proc \ {p} : tx'[q] = tx[q]
<1> USE DEF Proc
<1>0. tx = [q \in Proc |-> tx[q]] /\ tx[p] = [tx[p] EXCEPT !.pc = tx[p].pc]
  BY DEF TypeInv, TypeOK, Tx
<1>1. CASE p \in Run /\ SolveSnapshot(p)
  <2>1. ASSUME NEW horizon, NEW plan PROVE SolveRequest(horizon, plan).pc = "begun"
    BY DEF SolveRequest, Idle
  <2>2. PICK horizon, plan : tx' = [tx EXCEPT ![p] = SolveRequest(horizon, plan)]
    BY <1>1 DEF SolveSnapshot
  <2>3. QED
    BY <1>0, <1>1, <2>1, <2>2 DEF SolveSnapshot
<1>2. CASE p \in Manager /\ OpenRequest(p)
  <2> DEFINE Framed == /\ UNCHANGED <<visits, rows, visitLock, crewLock>>
                       /\ tx[p].pc = "idle" /\ tx'[p].pc = "begun"
                       /\ \A q \in Proc \ {p} : tx'[q] = tx[q]
  <2>1. ASSUME NEW v \in Visit, NEW c \in Crews, OpenAssign(p, v, c) PROVE Framed
    BY <1>0, <2>1 DEF OpenAssign, Open, Request, Idle
  <2>2. ASSUME NEW v \in Visit, OpenUnassign(p, v) PROVE Framed
    BY <1>0, <2>2 DEF OpenUnassign, Open, Request, Idle
  <2>3. ASSUME NEW v \in Visit, NEW d \in Day, OpenAdjust(p, v, d) PROVE Framed
    BY <1>0, <2>3 DEF OpenAdjust, Open, Request, Idle
  <2>4. ASSUME NEW v \in Visit, NEW a \in rows[v], NEW s \in Scopes, OpenPin(p, v, a, s) PROVE Framed
    BY <1>0, <2>4 DEF OpenPin, Open, Request, Idle
  <2>5. ASSUME NEW v \in Visit, NEW a \in rows[v], NEW s \in Scopes, OpenUnpin(p, v, a, s) PROVE Framed
    BY <1>0, <2>5 DEF OpenUnpin, Open, Request, Idle
  <2>6. ASSUME NEW r \in Run, NEW ack \in BOOLEAN, OpenPublish(p, r, ack) PROVE Framed
    BY <1>0, <2>6 DEF OpenPublish, Open, Idle
  <2>7. QED
    BY <1>2, <2>1, <2>2, <2>3, <2>4, <2>5, <2>6 DEF OpenRequest
<1>3. QED
  BY <1>1, <1>2 DEF Opens

LEMMA ThinksFrame ==
  ASSUME TypeInv, NEW p \in Proc, Thinks(p)
  PROVE  /\ UNCHANGED <<visits, rows, visitLock>>
         /\ \A q \in Proc \ {p} : tx'[q] = tx[q]
         /\ \A q \in Proc : \A e \in Employee : crewLock[e] = q => crewLock'[e] = q
         /\ tx'[p].scope = tx[p].scope /\ tx'[p].op = tx[p].op /\ tx'[p].ids = tx[p].ids
         /\ tx'[p].revs = tx[p].revs /\ tx'[p].plan = tx[p].plan /\ tx'[p].run = tx[p].run
         /\ tx[p].pc # "idle" /\ Locked(p)
<1> USE DEF Proc
<1>0. tx = [q \in Proc |-> tx[q]] /\ tx[p] \in Tx /\ crewLock = [e \in Employee |-> crewLock[e]]
      /\ None \notin Proc
  BY WriterAssumption DEF TypeInv, TypeOK
<1>L. ASSUME NEW employees, LockResources(p, employees)
      PROVE  \A q \in Proc : \A e \in Employee : crewLock[e] = q => crewLock'[e] = q
  BY <1>0, <1>L DEF LockResources
<1>1. CASE p \in Run /\ SolveCheck(p)
  BY <1>0, <1>1, <1>L DEF SolveCheck, Tx, Locked
<1>2. CASE p \in Run /\ \E v \in Visit : JudgeEntry(p, v)
  <2>1. PICK v \in Visit : JudgeEntry(p, v)
    BY <1>2
  <2>2. UNCHANGED <<visits, rows, visitLock, crewLock>> /\ tx[p].pc = "days"
    BY <2>1 DEF JudgeEntry
  <2>3. \/ \E to : tx' = [tx EXCEPT ![p].done[v] = "moved",
                                    ![p].ledger = RecordMove(@, v, visits[v].day, to)]
        \/ \E o : tx' = [tx EXCEPT ![p].done[v] = o]
    BY <2>1 DEF JudgeEntry
  <2>4. CASE \E o : tx' = [tx EXCEPT ![p].done[v] = o]
    BY <1>0, <2>2, <2>4 DEF Tx, Locked
  <2>5. CASE \E to : tx' = [tx EXCEPT ![p].done[v] = "moved",
                                     ![p].ledger = RecordMove(@, v, visits[v].day, to)]
    <3>1. PICK to : tx' = [tx EXCEPT ![p].done[v] = "moved",
                                     ![p].ledger = RecordMove(@, v, visits[v].day, to)]
      BY <2>5
    <3> DEFINE t == [tx[p] EXCEPT !.done[v] = "moved",
                                  !.ledger = RecordMove(@, v, visits[v].day, to)]
    <3>2. tx' = [tx EXCEPT ![p] = t]
      BY <1>0, <3>1
    <3>3. t.scope = tx[p].scope /\ t.op = tx[p].op /\ t.ids = tx[p].ids
          /\ t.revs = tx[p].revs /\ t.plan = tx[p].plan /\ t.run = tx[p].run
      BY <1>0 DEF Tx
    <3> HIDE DEF t
    <3>4. QED
      BY <1>0, <2>2, <3>2, <3>3 DEF Locked
  <2>6. QED
    BY <2>3, <2>4, <2>5
<1>3. CASE p \in Manager /\ Check(p)
  BY <1>0, <1>3 DEF Check, Tx, Locked
<1>4. CASE p \in Manager /\ Judge(p)
  <2>1. UNCHANGED <<visits, rows, visitLock>> /\ tx[p].pc = "checked" /\ LockResources(p, tx[p].crew)
    BY <1>4 DEF Judge
  <2>2. \/ \E o : tx' = [tx EXCEPT ![p].pc = "judged", ![p].done[Target(p)] = o]
        \/ tx' = [tx EXCEPT ![p].pc = "judged"]
    BY <1>4 DEF Judge, Goto
  <2>3. \A q \in Proc : \A e \in Employee : crewLock[e] = q => crewLock'[e] = q
    BY <1>L, <2>1
  <2>4. CASE \E o : tx' = [tx EXCEPT ![p].pc = "judged", ![p].done[Target(p)] = o]
    <3>1. PICK o : tx' = [tx EXCEPT ![p].pc = "judged", ![p].done[Target(p)] = o]
      BY <2>4
    <3> DEFINE t == [tx[p] EXCEPT !.pc = "judged", !.done[Target(p)] = o]
    <3>2. tx' = [tx EXCEPT ![p] = t]
      BY <1>0, <3>1
    <3>3. t.scope = tx[p].scope /\ t.op = tx[p].op /\ t.ids = tx[p].ids
          /\ t.revs = tx[p].revs /\ t.plan = tx[p].plan /\ t.run = tx[p].run
      BY <1>0 DEF Tx
    <3> HIDE DEF t
    <3>4. QED
      BY <1>0, <2>1, <2>3, <3>2, <3>3 DEF Locked
  <2>5. CASE tx' = [tx EXCEPT ![p].pc = "judged"]
    BY <1>0, <2>1, <2>3, <2>5 DEF Tx, Locked
  <2>6. QED
    BY <2>2, <2>4, <2>5
<1>5. QED
  BY <1>1, <1>2, <1>3, <1>4 DEF Thinks

LEMMA OutsideFrame ==
  ASSUME TypeInv, OutsideEdit
  PROVE  /\ UNCHANGED <<tx, visitLock, crewLock>>
         /\ \A v \in Visit : visitLock[v] # None => rows'[v] = rows[v] /\ visits'[v] = visits[v]
<1>0. rows = [v \in Visit |-> rows[v]] /\ visits = [v \in Visit |-> visits[v]]
  BY DEF TypeInv, TypeOK
<1>1. ASSUME NEW v \in Visit, NEW locked \in BOOLEAN, SetLocked(v, locked)
      PROVE  /\ UNCHANGED <<tx, visitLock, crewLock>>
             /\ \A w \in Visit : visitLock[w] # None => rows'[w] = rows[w] /\ visits'[w] = visits[w]
  BY <1>0, <1>1 DEF SetLocked
<1>2. ASSUME NEW v \in Visit, Withdraw(v)
      PROVE  /\ UNCHANGED <<tx, visitLock, crewLock>>
             /\ \A w \in Visit : visitLock[w] # None => rows'[w] = rows[w] /\ visits'[w] = visits[w]
  <2>1. UNCHANGED <<tx, visitLock, crewLock>> /\ visitLock[v] = None
    BY <1>2 DEF Withdraw
  <2>2. \A w \in Visit \ {v} : rows'[w] = rows[w] /\ visits'[w] = visits[w]
    BY <1>0, <1>2 DEF Withdraw
  <2>3. QED
    BY <2>1, <2>2
<1>3. QED
  BY <1>1, <1>2 DEF OutsideEdit

(* Moving a transaction on changes its place and nothing else of it. *)
LEMMA PlaceOnly ==
  ASSUME NEW t \in Tx, NEW pc
  PROVE  LET u == [t EXCEPT !.pc = pc] IN
         u.pc = pc /\ u.scope = t.scope /\ u.crew = t.crew /\ u.op = t.op
  BY DEF Tx

LEMMA LockFrame ==
  ASSUME TypeInv, NEW p \in Proc, LockVisits(p)
  PROVE  /\ UNCHANGED <<visits, rows, crewLock>>
         /\ \A q \in Proc \ {p} : tx'[q] = tx[q]
         /\ tx[p].pc = "begun" /\ tx'[p] = [tx[p] EXCEPT !.pc = "visits"]
         /\ tx'[p].pc = "visits" /\ tx'[p].scope = tx[p].scope
         /\ \A v \in tx[p].scope : visitLock'[v] = p
         /\ \A q \in Proc : \A v \in Visit : visitLock[v] = q => visitLock'[v] = q
<1>0. tx = [q \in Proc |-> tx[q]] /\ tx[p] \in Tx /\ None \notin Proc /\ tx[p].scope \subseteq Visit
  BY WriterAssumption DEF TypeInv, TypeOK, Tx, Proc
<1>1. tx'[p] = [tx[p] EXCEPT !.pc = "visits"]
  BY <1>0 DEF LockVisits, Goto
<1>2. tx'[p].pc = "visits" /\ tx'[p].scope = tx[p].scope
  BY <1>0, <1>1, PlaceOnly
<1>3. QED
  BY <1>0, <1>1, <1>2 DEF LockVisits, Goto

LEMMA FinishFrame ==
  ASSUME TypeInv, NEW p \in Proc, Finish(p)
  PROVE  /\ \A q \in Proc \ {p} : tx'[q] = tx[q]
         /\ tx'[p] = Idle /\ tx'[p].pc = "idle"
         /\ \A q \in Proc \ {p} : \A v \in Visit : visitLock[v] = q => visitLock'[v] = q
         /\ \A q \in Proc \ {p} : \A e \in Employee : crewLock[e] = q => crewLock'[e] = q
<1>0. tx = [q \in Proc |-> tx[q]]
  BY DEF TypeInv, TypeOK
<1>1. QED
  BY <1>0 DEF Finish, Release, Idle

(* What a step does to a transaction it is not a step of: its locks stay, and *)
(* so do the visits it holds.                                                 *)
LEMMA NobodyWritesALockedVisit ==
  ASSUME TypeInv, Locks, [Next]_vars, NEW q \in Proc, tx'[q] = tx[q]
  PROVE  /\ \A v \in Visit : visitLock[v] = q =>
              visitLock'[v] = q /\ rows'[v] = rows[v] /\ visits'[v] = visits[v]
         /\ \A e \in Employee : crewLock[e] = q => crewLock'[e] = q
<1>0. None \notin Proc
  BY WriterAssumption DEF Proc
<1> DEFINE Kept == /\ \A v \in Visit : visitLock[v] = q =>
                        visitLock'[v] = q /\ rows'[v] = rows[v] /\ visits'[v] = visits[v]
                   /\ \A e \in Employee : crewLock[e] = q => crewLock'[e] = q
<1>1. ASSUME NEW p \in Proc, LockVisits(p) PROVE Kept
  BY <1>1, LockFrame
<1>2. ASSUME NEW p \in Proc, Opens(p) PROVE Kept
  BY <1>2, OpensFrame
<1>3. ASSUME NEW p \in Proc, Thinks(p) PROVE Kept
  BY <1>3, ThinksFrame
<1>4. ASSUME NEW p \in Proc, Abort(p) PROVE Kept
  <2>1. p # q /\ UNCHANGED <<visits, rows>>
    BY <1>4, FinishFrame DEF Abort
  <2>2. QED
    BY <1>4, <2>1, FinishFrame DEF Abort
<1>5. ASSUME NEW p \in Proc, Commit(p) PROVE Kept
  <2>1. Locked(p) /\ Finish(p) /\ tx'[p].pc = "idle"
    BY <1>5, CommitFrame, FinishFrame
  <2>2. p # q
    BY <2>1 DEF Locked
  <2>3. \A v \in Visit : visitLock[v] = q => v \notin tx[p].scope
    BY <2>1, <2>2 DEF Locks
  <2>4. QED
    BY <1>5, <2>1, <2>2, <2>3, CommitFrame, FinishFrame
<1>6. ASSUME OutsideEdit PROVE Kept
  BY <1>0, <1>6, OutsideFrame
<1>7. ASSUME UNCHANGED vars PROVE Kept
  BY <1>7 DEF vars
<1>8. QED
  BY <1>1, <1>2, <1>3, <1>4, <1>5, <1>6, <1>7, Steps

LEMMA Actor ==
  ASSUME TypeInv, [Next]_vars, NEW q \in Proc
  PROVE  tx'[q] = tx[q] \/ LockVisits(q) \/ Abort(q) \/ Opens(q) \/ Thinks(q) \/ Commit(q)
<1>1. ASSUME NEW p \in Proc, p # q, LockVisits(p) \/ Abort(p) \/ Opens(p) \/ Thinks(p) \/ Commit(p)
      PROVE  tx'[q] = tx[q]
  <2>1. Abort(p) \/ Commit(p) => Finish(p)
    BY CommitFrame DEF Abort
  <2>2. q \in Proc \ {p}
    BY <1>1
  <2>3. LockVisits(p) => tx'[q] = tx[q]
    BY <2>2, LockFrame
  <2>4. Opens(p) => tx'[q] = tx[q]
    BY <2>2, OpensFrame
  <2>5. Thinks(p) => tx'[q] = tx[q]
    BY <2>2, ThinksFrame
  <2>6. Finish(p) => tx'[q] = tx[q]
    BY <2>2, FinishFrame
  <2>7. QED
    BY <1>1, <2>1, <2>3, <2>4, <2>5, <2>6
<1>2. QED
  BY <1>1, Steps, OutsideFrame DEF vars

LEMMA LocksInductive == TypeInv /\ Locks /\ [Next]_vars => Locks'
<1> SUFFICES ASSUME TypeInv, Locks, [Next]_vars, NEW q \in Proc
             PROVE  /\ Locked(q)' => \A v \in tx'[q].scope : visitLock'[v] = q
                    /\ HasCrew(q)' => \A e \in tx'[q].crew : crewLock'[e] = q
  BY DEF Locks
<1>0. tx[q] \in Tx /\ tx[q].scope \subseteq Visit /\ tx[q].crew \subseteq Employee
  BY DEF TypeInv, TypeOK, Tx
<1>1. CASE tx'[q] = tx[q]
  BY <1>0, <1>1, NobodyWritesALockedVisit DEF Locks, Locked, HasCrew
<1>2. CASE LockVisits(q)
  <2>1. tx'[q].pc = "visits" /\ tx'[q].scope = tx[q].scope
    BY <1>2, LockFrame
  <2>2. \A v \in tx[q].scope : visitLock'[v] = q
    BY <1>2, LockFrame
  <2>3. QED
    BY <2>1, <2>2 DEF Locked, HasCrew
<1>3. CASE Abort(q) \/ Commit(q)
  <2>1. tx'[q].pc = "idle"
    BY <1>3, CommitFrame, FinishFrame DEF Abort
  <2>2. QED
    BY <2>1 DEF Locked, HasCrew
<1>4. CASE Opens(q)
  BY <1>4, OpensFrame DEF Locked, HasCrew
<1>5. CASE Thinks(q)
  <2>1. \A v \in tx'[q].scope : visitLock'[v] = q
    BY <1>5, ThinksFrame DEF Locks
  <2>2. HasCrew(q)' => \A e \in tx'[q].crew : crewLock'[e] = q
    <3>0. tx = [p \in Proc |-> tx[p]]
      BY DEF TypeInv, TypeOK
    <3>L. ASSUME LockResources(q, tx[q].crew) PROVE \A e \in tx[q].crew : crewLock'[e] = q
      BY <1>0, <3>L DEF LockResources
    <3>1. CASE q \in Run /\ SolveCheck(q)
      <4>1. tx'[q].crew = tx[q].crew /\ LockResources(q, tx[q].crew)
        BY <1>0, <3>0, <3>1 DEF SolveCheck, Tx
      <4>2. QED
        BY <3>L, <4>1
    <3>2. CASE q \in Run /\ \E v \in Visit : JudgeEntry(q, v)
      <4>1. PICK v \in Visit : JudgeEntry(q, v)
        BY <3>2
      <4>2. \/ \E to : tx' = [tx EXCEPT ![q].done[v] = "moved",
                                        ![q].ledger = RecordMove(@, v, visits[v].day, to)]
            \/ \E o : tx' = [tx EXCEPT ![q].done[v] = o]
        BY <4>1 DEF JudgeEntry
      <4>3. crewLock' = crewLock /\ tx[q].pc = "days"
        BY <4>1 DEF JudgeEntry
      <4>4. tx'[q].crew = tx[q].crew
        <5>1. ASSUME NEW done, NEW ledger, tx' = [tx EXCEPT ![q].done[v] = done, ![q].ledger = ledger]
              PROVE  tx'[q].crew = tx[q].crew
          BY <1>0, <3>0, <5>1 DEF Tx
        <5>2. ASSUME NEW done, tx' = [tx EXCEPT ![q].done[v] = done]
              PROVE  tx'[q].crew = tx[q].crew
          BY <1>0, <3>0, <5>2 DEF Tx
        <5>3. QED
          BY <4>2, <5>1, <5>2
      <4>5. QED
        BY <4>3, <4>4 DEF Locks, HasCrew
    <3>3. CASE q \in Manager /\ Check(q)
      <4>1. tx'[q].pc = "checked"
        BY <1>0, <3>0, <3>3 DEF Check, Tx
      <4>2. QED
        BY <4>1 DEF HasCrew
    <3>4. CASE q \in Manager /\ Judge(q)
      <4>1. \/ \E o : tx' = [tx EXCEPT ![q].pc = "judged", ![q].done[Target(q)] = o]
            \/ tx' = [tx EXCEPT ![q].pc = "judged"]
        BY <3>4 DEF Judge, Goto
      <4>2. tx'[q].crew = tx[q].crew
        <5>1. ASSUME NEW o, tx' = [tx EXCEPT ![q].pc = "judged", ![q].done[Target(q)] = o]
              PROVE  tx'[q].crew = tx[q].crew
          BY <1>0, <3>0, <5>1 DEF Tx
        <5>2. CASE tx' = [tx EXCEPT ![q].pc = "judged"]
          BY <1>0, <3>0, <5>2 DEF Tx
        <5>3. QED
          BY <4>1, <5>1, <5>2
      <4>3. LockResources(q, tx[q].crew)
        BY <3>4 DEF Judge
      <4>4. QED
        BY <3>L, <4>2, <4>3
    <3>5. QED
      BY <1>5, <3>1, <3>2, <3>3, <3>4 DEF Thinks
  <2>3. QED
    BY <2>1, <2>2
<1>6. QED
  BY <1>1, <1>2, <1>3, <1>4, <1>5, Actor

(* What a writer found under its locks. *)
Found(p, v) ==
  /\ tx[p].pc = "days" => EntryStands(p, v)
  /\ tx[p].pc = "days" /\ tx[p].done[v] = "unassigned" => \A a \in Replaced(p, v) : ~ Pinned(a)
  /\ tx[p].pc \in {"checked", "judged"} =>
       /\ tx[p].op \in {"assign", "unassign"} =>
            SnapshotHolds(v, tx[p].ids[v]) /\ \A a \in Drafts(v) : ~ Pinned(a)
       /\ tx[p].op = "adjust" => Unpublished(v) /\ \A a \in Drafts(v) : a.crew \subseteq tx[p].crew
       /\ tx[p].op = "assign" => tx[p].plan[v].crew \subseteq tx[p].crew
       /\ tx[p].op = "publish" => Replaced(p, v) # {}

StillFound == \A p \in Proc : \A v \in tx[p].scope : Found(p, v)

LEMMA EntryStable ==
  ASSUME NEW p \in Proc, NEW v \in Visit, EntryStands(p, v),
         tx'[p].plan = tx[p].plan, tx'[p].ids = tx[p].ids, tx'[p].revs = tx[p].revs,
         rows'[v] = rows[v], visits'[v] = visits[v]
  PROVE  EntryStands(p, v)'
<1>1. Drafts(v)' = Drafts(v) /\ History(v)' = History(v)
  BY DEF Drafts, History
<1>2. SnapshotHolds(v, tx[p].ids[v])' <=> SnapshotHolds(v, tx[p].ids[v])
  BY <1>1 DEF SnapshotHolds, Unpublished
<1>3. Moves(p, v)' <=> Moves(p, v)
  BY DEF Moves
<1>4. QED
  BY <1>1, <1>2, <1>3 DEF EntryStands

LEMMA FoundStable ==
  ASSUME NEW p \in Proc, NEW v \in Visit, Found(p, v), tx'[p] = tx[p],
         rows'[v] = rows[v], visits'[v] = visits[v]
  PROVE  Found(p, v)'
<1>1. Drafts(v)' = Drafts(v) /\ History(v)' = History(v)
  BY DEF Drafts, History
<1>2. SnapshotHolds(v, tx[p].ids[v])' <=> SnapshotHolds(v, tx[p].ids[v])
  BY <1>1 DEF SnapshotHolds, Unpublished
<1>3. Replaced(p, v)' = Replaced(p, v) /\ (Unpublished(v)' <=> Unpublished(v))
  BY <1>1 DEF Replaced, Unpublished
<1>4. QED
  BY <1>1, <1>2, <1>3, EntryStable DEF Found

LEMMA FoundInductive == TypeInv /\ Locks /\ StillFound /\ [Next]_vars => StillFound'
<1> SUFFICES ASSUME TypeInv, Locks, StillFound, [Next]_vars, NEW q \in Proc, NEW v \in tx'[q].scope
             PROVE  Found(q, v)'
  BY DEF StillFound
<1>0. tx[q] \in Tx /\ tx[q].scope \subseteq Visit /\ tx = [p \in Proc |-> tx[p]]
  BY DEF TypeInv, TypeOK, Tx
<1>1. CASE tx'[q] = tx[q]
  <2>1. CASE Locked(q)
    BY <1>0, <1>1, <2>1, FoundStable, NobodyWritesALockedVisit DEF Locks, StillFound
  <2>2. CASE ~ Locked(q)
    BY <1>1, <2>2 DEF Found, Locked
  <2>3. QED
    BY <2>1, <2>2
<1>2. CASE LockVisits(q)
  <2>1. tx'[q].pc = "visits"
    BY <1>2, LockFrame
  <2>2. QED
    BY <2>1 DEF Found
<1>3. CASE Abort(q) \/ Commit(q)
  <2>1. tx'[q].pc = "idle"
    BY <1>3, CommitFrame, FinishFrame DEF Abort
  <2>2. QED
    BY <2>1 DEF Found
<1>4. CASE Opens(q)
  BY <1>4, OpensFrame DEF Found
<1>5. CASE Thinks(q)
  <2>0. /\ v \in tx[q].scope /\ v \in Visit /\ visits' = visits /\ rows' = rows
        /\ tx'[q].op = tx[q].op /\ tx'[q].ids = tx[q].ids
        /\ tx'[q].revs = tx[q].revs /\ tx'[q].plan = tx[q].plan
    BY <1>0, <1>5, ThinksFrame
  <2>1. Drafts(v)' = Drafts(v) /\ (Unpublished(v)' <=> Unpublished(v)) /\ Replaced(q, v)' = Replaced(q, v)
        /\ (SnapshotHolds(v, tx[q].ids[v])' <=> SnapshotHolds(v, tx[q].ids[v]))
    BY <2>0 DEF Drafts, Unpublished, History, Replaced, SnapshotHolds
  <2>2. CASE q \in Run /\ (SolveCheck(q) \/ \E w \in Visit : JudgeEntry(q, w))
    <3>1. EntryStands(q, v)
      <4>1. CASE SolveCheck(q)
        BY <2>0, <4>1 DEF SolveCheck
      <4>2. CASE \E w \in Visit : JudgeEntry(q, w)
        <5>1. tx[q].pc = "days"
          BY <4>2 DEF JudgeEntry
        <5>2. QED
          BY <2>0, <5>1 DEF StillFound, Found
      <4>3. QED
        BY <2>2, <4>1, <4>2
    <3>2. EntryStands(q, v)'
      BY <2>0, <3>1, EntryStable
    <3>3. tx'[q].op = "solve"
      <4>1. tx[q].pc # "idle"
        BY <1>5, ThinksFrame
      <4>2. QED
        BY <2>0, <2>2, <4>1 DEF TypeInv, Shape, ShapeOf
    <3>4. ASSUME tx'[q].done[v] = "unassigned", NEW a \in Replaced(q, v) PROVE ~ Pinned(a)
      <4>1. CASE SolveCheck(q)
        <5>1. tx'[q].done = tx[q].done /\ tx[q].pc = "visits"
          BY <1>0, <4>1 DEF SolveCheck, Tx
        <5>2. QED
          BY <2>0, <3>4, <5>1 DEF TypeInv, Shape, ShapeOf
      <4>2. CASE \E w \in Visit : JudgeEntry(q, w)
        <5>1. PICK w \in Visit : JudgeEntry(q, w)
          BY <4>2
        <5>2. CASE tx[q].done[v] = "unassigned"
          BY <2>0, <3>4, <5>1, <5>2 DEF JudgeEntry, StillFound, Found
        <5>3. CASE tx[q].done[v] # "unassigned"
          <6>1. \/ /\ tx' = [tx EXCEPT ![q].done[w] = "unassigned"]
                   /\ \A x \in Replaced(q, w) : ~ Pinned(x)
                \/ \E to : tx' = [tx EXCEPT ![q].done[w] = "moved",
                                            ![q].ledger = RecordMove(@, w, visits[w].day, to)]
                \/ tx' = [tx EXCEPT ![q].done[w] = "stayed"]
            BY <5>1 DEF JudgeEntry
          <6>2. ASSUME NEW to, tx' = [tx EXCEPT ![q].done[w] = "moved",
                                            ![q].ledger = RecordMove(@, w, visits[w].day, to)]
                PROVE  tx'[q].done = [tx[q].done EXCEPT ![w] = "moved"]
            BY <1>0, <6>2 DEF Tx
          <6>3. ASSUME NEW o, tx' = [tx EXCEPT ![q].done[w] = o]
                PROVE  tx'[q].done = [tx[q].done EXCEPT ![w] = o]
            BY <1>0, <6>3 DEF Tx
          <6>4. tx[q].done = [u \in Visit |-> tx[q].done[u]]
            BY <1>0 DEF Tx
          <6>5. w = v /\ \A x \in Replaced(q, w) : ~ Pinned(x)
            BY <2>0, <3>4, <5>3, <6>1, <6>2, <6>3, <6>4
          <6>6. QED
            BY <3>4, <6>5
        <5>4. QED
          BY <5>2, <5>3
      <4>3. QED
        BY <2>2, <4>1, <4>2
    <3>5. QED
      BY <2>1, <3>2, <3>3, <3>4 DEF Found, Pinned, Held
  <2>3. CASE q \in Manager /\ Check(q)
    <3>1. tx'[q].crew = CrewToLock(q) /\ tx'[q].pc = "checked" /\ RequestStands(q)
      BY <1>0, <2>3 DEF Check, Tx
    <3>2. tx[q].op \in {"assign", "unassign", "adjust"} => Target(q) = v
      BY <2>0, <2>3, OneTarget
    <3>3. tx[q].op \in {"assign", "unassign"} =>
            SnapshotHolds(v, tx[q].ids[v]) /\ \A a \in Drafts(v) : ~ Pinned(a)
      BY <3>1, <3>2 DEF RequestStands
    <3>4. tx[q].op = "adjust" => Unpublished(v) /\ \A a \in Drafts(v) : a.crew \subseteq CrewToLock(q)
      BY <3>1, <3>2 DEF RequestStands, CrewToLock
    <3>5. tx[q].op = "assign" => tx[q].plan[v].crew \subseteq CrewToLock(q)
      BY <3>2 DEF CrewToLock
    <3>6. tx[q].op = "publish" => Replaced(q, v) # {}
      BY <2>0, <3>1 DEF RequestStands
    <3>7. \A a : Pinned(a)' <=> Pinned(a)
      BY DEF Pinned, Held
    <3> HIDE DEF Pinned
    <3>8. QED
      BY <2>0, <2>1, <3>1, <3>3, <3>4, <3>5, <3>6, <3>7 DEF Found
  <2>4. CASE q \in Manager /\ Judge(q)
    <3>1. tx[q].pc = "checked"
      BY <2>4 DEF Judge
    <3>2. \/ \E o : tx' = [tx EXCEPT ![q].pc = "judged", ![q].done[Target(q)] = o]
          \/ tx' = [tx EXCEPT ![q].pc = "judged"]
      BY <2>4 DEF Judge, Goto
    <3>3. tx'[q].crew = tx[q].crew /\ tx'[q].pc = "judged"
      <4>1. ASSUME NEW o, tx' = [tx EXCEPT ![q].pc = "judged", ![q].done[Target(q)] = o]
            PROVE  tx'[q].crew = tx[q].crew /\ tx'[q].pc = "judged"
        BY <1>0, <4>1 DEF Tx
      <4>2. CASE tx' = [tx EXCEPT ![q].pc = "judged"]
        BY <1>0, <4>2 DEF Tx
      <4>3. QED
        BY <3>2, <4>1, <4>2
    <3>4. Found(q, v)
      BY <2>0 DEF StillFound
    <3>5. QED
      BY <2>0, <2>1, <3>1, <3>3, <3>4 DEF Found
  <2>5. QED
    BY <1>5, <2>2, <2>3, <2>4 DEF Thinks
<1>6. QED
  BY <1>1, <1>2, <1>3, <1>4, <1>5, Actor

-----------------------------------------------------------------------------
(* One visit of the board. *)

BoardOf(v) ==
  /\ \A a, b \in Live(v) : a = b
  /\ \A a \in Live(v) : a.day = visits[v].day
  /\ visits[v].status = "SCHEDULED" <=> Live(v) # {}
  /\ visits[v].reason # None => visits[v].status = "UNASSIGNED" /\ visits[v].reason = visits[v].day

BoardInv == \A v \in Visit : BoardOf(v)

LEMMA BoardStable ==
  ASSUME NEW v \in Visit, BoardOf(v), rows'[v] = rows[v], visits'[v] = visits[v]
  PROVE  BoardOf(v)'
<1>1. Live(v)' = Live(v)
  BY DEF Live
<1>2. QED
  BY <1>1 DEF BoardOf

(* The snapshot check leaves nothing in force but what the writer replaces. *)
LEMMA ReplacedIsLive ==
  ASSUME TypeInv, NEW p \in Proc, NEW v \in Visit, SnapshotHolds(v, tx[p].ids[v])
  PROVE  Live(v) = Replaced(p, v) /\ Drafts(v) = Replaced(p, v)
<1>1. Live(v) = Drafts(v)
  BY DEF SnapshotHolds, Unpublished, History, Live, Drafts
<1>2. \A a \in Drafts(v) : a.id = tx[p].ids[v]
  BY DEF SnapshotHolds
<1>3. QED
  BY <1>1, <1>2 DEF Replaced

LEMMA DraftFields ==
  ASSUME NEW id, NEW c, NEW d, NEW r, NEW p
  PROVE  /\ Draft(id, c, d, r, p).status = "DRAFT"
         /\ Draft(id, c, d, r, p).crew = c
         /\ Draft(id, c, d, r, p).day = d
  BY DEF Draft

(* The live rows of a visit whose live rows were replaced by one draft, or by *)
(* cancelled ones.                                                            *)
LEMMA LiveAfterDraft ==
  ASSUME NEW v \in Visit, NEW gone, Live(v) = gone, NEW new, new.status = "DRAFT",
         rows'[v] = (rows[v] \ gone) \cup {new}
  PROVE  Live(v)' = {new}
  BY DEF Live

LEMMA LiveAfterCancel ==
  ASSUME TypeInv, NEW v \in Visit, NEW gone, Live(v) = gone,
         rows'[v] = (rows[v] \ gone) \cup {[a EXCEPT !.status = "CANCELLED"] : a \in gone}
  PROVE  Live(v)' = {}
<1>1. \A a \in gone : a \in Row
  BY DEF Live, TypeInv, TypeOK
<1>2. \A a \in Row : [a EXCEPT !.status = "CANCELLED"].status = "CANCELLED"
  BY DEF Row
<1>3. QED
  BY <1>1, <1>2 DEF Live

LEMMA BoardSolve ==
  ASSUME TypeInv, StillFound, BoardInv, NEW r \in Run, SolveCommit(r), NEW v \in tx[r].scope
  PROVE  BoardOf(v)'
<1> USE DEF Proc
<1>0. v \in Visit /\ visits[v] \in VisitRow /\ tx[r].pc = "days"
  BY DEF TypeInv, TypeOK, Tx, VisitRow, SolveCommit
<1>1. SnapshotHolds(v, tx[r].ids[v])
  BY <1>0 DEF StillFound, Found, EntryStands
<1>2. Live(v) = Replaced(r, v)
  BY <1>0, <1>1, ReplacedIsLive
<1>3. visits'[v] = [visits[v] EXCEPT !.rev = @ + 1,
                              !.status = IF Staffs(r, v) THEN "SCHEDULED" ELSE "UNASSIGNED",
                              !.day = DayAfter(r, v),
                              !.reason = IF Staffs(r, v) THEN None ELSE visits[v].day]
  BY <1>0 DEF SolveCommit
<1>4. /\ visits'[v].status = IF Staffs(r, v) THEN "SCHEDULED" ELSE "UNASSIGNED"
      /\ visits'[v].day = DayAfter(r, v)
      /\ visits'[v].reason = IF Staffs(r, v) THEN None ELSE visits[v].day
  BY <1>0, <1>3 DEF VisitRow
<1>5. CASE Staffs(r, v)
  <2> DEFINE new == Draft(made[v] + 1, tx[r].plan[v].crew, DayAfter(r, v), r, Inherited(r, v))
  <2>1. rows'[v] = (rows[v] \ Replaced(r, v)) \cup {new}
    BY <1>0, <1>5 DEF SolveCommit
  <2>2. new.status = "DRAFT" /\ new.day = DayAfter(r, v)
    BY DraftFields
  <2> HIDE DEF new
  <2>3. Live(v)' = {new}
    BY <1>0, <1>2, <2>1, <2>2, LiveAfterDraft
  <2>4. QED
    BY <1>4, <1>5, <2>2, <2>3 DEF BoardOf
<1>6. CASE ~ Staffs(r, v)
  <2>1. rows'[v] = (rows[v] \ Replaced(r, v)) \cup {[a EXCEPT !.status = "CANCELLED"] : a \in Replaced(r, v)}
    BY <1>0, <1>6 DEF SolveCommit
  <2>2. Live(v)' = {}
    BY <1>0, <1>2, <2>1, LiveAfterCancel
  <2>3. DayAfter(r, v) = visits[v].day
    BY <1>6 DEF DayAfter, Staffs
  <2>4. QED
    BY <1>4, <1>6, <2>2, <2>3 DEF BoardOf
<1>7. QED
  BY <1>5, <1>6

LEMMA BoardAssign ==
  ASSUME TypeInv, StillFound, BoardInv, NEW m \in Manager, AssignCommit(m), NEW v \in tx[m].scope
  PROVE  BoardOf(v)'
<1> USE DEF Proc
<1>0. tx[m].op = "assign" /\ tx[m].pc = "judged"
  BY DEF AssignCommit, Ready
<1>00. v = Target(m) /\ v \in Visit /\ visits[v] \in VisitRow
  BY <1>0, OneTarget DEF TypeInv, TypeOK, VisitRow
<1>1. SnapshotHolds(v, tx[m].ids[v]) /\ BoardOf(v)
  BY <1>0, <1>00 DEF StillFound, Found, BoardInv
<1>2. Live(v) = Replaced(m, v)
  BY <1>00, <1>1, ReplacedIsLive
<1>3. CASE tx[m].done[v] = "stayed"
  <2> DEFINE lineage == IF Replaced(m, v) = {} THEN ByHand ELSE (CHOOSE a \in Replaced(m, v) : TRUE).run
             new == Draft(made[v] + 1, tx[m].plan[v].crew, visits[v].day, lineage, Unpinned)
  <2>1. rows' = [rows EXCEPT ![v] = (@ \ Replaced(m, v)) \cup {new}]
        /\ visits' = [visits EXCEPT ![v].status = "SCHEDULED", ![v].reason = None, ![v].rev = @ + 1]
    BY <1>00, <1>3 DEF AssignCommit
  <2>2. new.status = "DRAFT" /\ new.day = visits[v].day
    BY DraftFields
  <2> HIDE DEF new
  <2>3. rows'[v] = (rows[v] \ Replaced(m, v)) \cup {new}
    BY <1>00, <2>1 DEF TypeInv, TypeOK
  <2>4. Live(v)' = {new}
    BY <1>00, <1>2, <2>2, <2>3, LiveAfterDraft
  <2>5. visits'[v].status = "SCHEDULED" /\ visits'[v].reason = None /\ visits'[v].day = visits[v].day
    BY <1>00, <2>1 DEF TypeInv, TypeOK, VisitRow
  <2>6. QED
    BY <2>2, <2>4, <2>5 DEF BoardOf
<1>4. CASE tx[m].done[v] = "unassigned"
  <2>1. rows'[v] = rows[v]
    BY <1>00, <1>4 DEF AssignCommit
  <2>2. CASE Replaced(m, v) # {}
    <3>1. visits'[v] = visits[v]
      BY <1>00, <1>4, <2>2 DEF AssignCommit
    <3>2. QED
      BY <1>00, <1>1, <2>1, <3>1, BoardStable
  <2>3. CASE Replaced(m, v) = {}
    <3>1. visits' = [visits EXCEPT ![v].status = "UNASSIGNED", ![v].reason = visits[v].day, ![v].rev = @ + 1]
      BY <1>00, <1>4, <2>3 DEF AssignCommit
    <3>2. visits'[v].status = "UNASSIGNED" /\ visits'[v].reason = visits[v].day /\ visits'[v].day = visits[v].day
      BY <1>00, <3>1 DEF TypeInv, TypeOK, VisitRow
    <3>3. Live(v)' = {}
      BY <1>2, <2>1, <2>3 DEF Live
    <3>4. QED
      BY <3>2, <3>3 DEF BoardOf
  <2>4. QED
    BY <2>2, <2>3
<1>5. QED
  BY <1>00, <1>3, <1>4 DEF AssignCommit

LEMMA BoardUnassign ==
  ASSUME TypeInv, StillFound, BoardInv, NEW m \in Manager, UnassignCommit(m), NEW v \in tx[m].scope
  PROVE  BoardOf(v)'
<1> USE DEF Proc
<1>0. tx[m].op = "unassign" /\ tx[m].pc = "checked"
  BY DEF UnassignCommit, Ready
<1>00. v = Target(m) /\ v \in Visit /\ visits[v] \in VisitRow
  BY <1>0, OneTarget DEF TypeInv, TypeOK, VisitRow
<1>1. SnapshotHolds(v, tx[m].ids[v]) /\ BoardOf(v)
  BY <1>0, <1>00 DEF StillFound, Found, BoardInv
<1>2. Live(v) = Replaced(m, v)
  BY <1>00, <1>1, ReplacedIsLive
<1>3. rows'[v] = rows[v] \ Replaced(m, v)
  BY <1>00 DEF UnassignCommit, TypeInv, TypeOK
<1>4. visits'[v].status = "UNASSIGNED" /\ visits'[v].reason = visits[v].reason /\ visits'[v].day = visits[v].day
  BY <1>00 DEF UnassignCommit, TypeInv, TypeOK, VisitRow
<1>5. Live(v)' = {}
  BY <1>2, <1>3 DEF Live
<1>6. QED
  BY <1>1, <1>4, <1>5 DEF BoardOf

InForce == {"DRAFT", "PUBLISHED"}

(* A commit that changes the rows one by one, keeping which one is in force. *)
LEMMA BoardMapped ==
  ASSUME NEW v \in Visit, BoardOf(v), NEW d, NEW f,
         rows'[v] = {f[a] : a \in rows[v]},
         \A a \in rows[v] : f[a].status \in InForce <=> a.status \in InForce,
         \A a \in rows[v] : f[a].status \in InForce => f[a].day = d,
         visits'[v].day = d, visits'[v].status = visits[v].status,
         visits'[v].reason # None => visits'[v].reason = visits[v].reason /\ d = visits[v].day
  PROVE  BoardOf(v)'
<1>1. \A x \in Live(v)' : \E a \in Live(v) : x = f[a] /\ f[a].status \in InForce
  BY DEF Live, InForce
<1>2. \A a \in Live(v) : f[a] \in Live(v)'
  BY DEF Live, InForce
<1>3. \A x, y \in Live(v)' : x = y
  BY <1>1 DEF BoardOf
<1>4. \A x \in Live(v)' : x.day = visits'[v].day
  BY <1>1 DEF Live
<1>5. QED
  BY <1>1, <1>2, <1>3, <1>4 DEF BoardOf

LEMMA BoardAdjust ==
  ASSUME TypeInv, StillFound, BoardInv, NEW m \in Manager, AdjustCommit(m), NEW v \in tx[m].scope
  PROVE  BoardOf(v)'
<1> USE DEF Proc
<1>0. tx[m].op = "adjust" /\ tx[m].pc = "judged"
  BY DEF AdjustCommit, Ready
<1>00. v = Target(m) /\ v \in Visit /\ visits[v] \in VisitRow
  BY <1>0, OneTarget DEF TypeInv, TypeOK, VisitRow
<1> DEFINE d == tx[m].plan[v].day
           f == [a \in rows[v] |-> IF a \in Drafts(v) THEN Shifted(a, d) ELSE a]
<1>1. Unpublished(v) /\ BoardOf(v)
  BY <1>0, <1>00 DEF StillFound, Found, BoardInv
<1>2. rows'[v] = {f[a] : a \in rows[v]}
  <2>1. rows'[v] = {IF a \in Drafts(v) THEN Shifted(a, d) ELSE a : a \in rows[v]}
    BY <1>00 DEF AdjustCommit, TypeInv, TypeOK
  <2>2. QED
    BY <2>1
<1>3. \A a \in Row : Shifted(a, d).status = a.status /\ Shifted(a, d).day = d
  BY DEF Shifted, Row
<1>4. \A a \in rows[v] : a \in Row /\ (a.status \in InForce <=> a \in Drafts(v))
  BY <1>00, <1>1 DEF Unpublished, History, Drafts, InForce, TypeInv, TypeOK
<1>5. PICK cleared \in BOOLEAN :
        /\ ~ cleared => d = visits[v].day
        /\ visits' = [visits EXCEPT ![v].day = d, ![v].adjusted = TRUE, ![v].rev = @ + 1,
                                    ![v].reason = IF cleared THEN None ELSE @]
  BY <1>00 DEF AdjustCommit, KeepsReasons
<1>6. /\ visits'[v].day = d /\ visits'[v].status = visits[v].status
      /\ visits'[v].reason = IF cleared THEN None ELSE visits[v].reason
  BY <1>00, <1>5 DEF TypeInv, TypeOK, VisitRow
<1>7. \A a \in rows[v] : (f[a].status \in InForce <=> a.status \in InForce)
                         /\ (f[a].status \in InForce => f[a].day = d)
  BY <1>3, <1>4
<1>8. visits'[v].reason # None => visits'[v].reason = visits[v].reason /\ d = visits[v].day
  BY <1>5, <1>6
<1> HIDE DEF f, d
<1>9. QED
  BY <1>00, <1>1, <1>2, <1>6, <1>7, <1>8, BoardMapped

LEMMA BoardPin ==
  ASSUME TypeInv, BoardInv, NEW m \in Manager, PinCommit(m), NEW v \in tx[m].scope
  PROVE  BoardOf(v)'
<1> USE DEF Proc
<1>0. tx[m].op \in {"pin", "unpin"}
  BY DEF PinCommit, Ready
<1>00. v = Target(m) /\ v \in Visit /\ visits[v] \in VisitRow /\ BoardOf(v)
  BY <1>0, OneTarget DEF TypeInv, TypeOK, VisitRow, BoardInv
<1> DEFINE held == tx[m].op = "pin"
           pinned(a) == [a EXCEPT !.pins[tx[m].pin] = [held |-> held, rev |-> @.rev + 1]]
           f == [a \in rows[v] |-> IF a \in Row0(m) THEN pinned(a) ELSE a]
<1>2. rows'[v] = {f[a] : a \in rows[v]}
  <2>1. rows'[v] = {IF a \in Row0(m) THEN pinned(a) ELSE a : a \in rows[v]}
    BY <1>00 DEF PinCommit, TypeInv, TypeOK
  <2>2. QED
    BY <2>1
<1>3. \A a \in Row : pinned(a).status = a.status /\ pinned(a).day = a.day
  BY DEF Row
<1>4. \A a \in rows[v] : a \in Row /\ (a.status \in InForce => a.day = visits[v].day)
  BY <1>00 DEF BoardOf, Live, InForce, TypeInv, TypeOK
<1>5. visits'[v].day = visits[v].day /\ visits'[v].status = visits[v].status
      /\ visits'[v].reason = visits[v].reason
  BY <1>00 DEF PinCommit, TypeInv, TypeOK, VisitRow
<1> HIDE DEF pinned
<1>7. \A a \in rows[v] : (f[a].status \in InForce <=> a.status \in InForce)
                         /\ (f[a].status \in InForce => f[a].day = visits[v].day)
  BY <1>3, <1>4
<1> HIDE DEF f
<1>8. QED
  BY <1>00, <1>2, <1>5, <1>7, BoardMapped

LEMMA BoardPublish ==
  ASSUME TypeInv, StillFound, BoardInv, NEW m \in Manager, PublishCommit(m), NEW v \in tx[m].scope
  PROVE  BoardOf(v)'
<1> USE DEF Proc
<1>0. tx[m].op = "publish" /\ tx[m].pc = "judged"
  BY DEF PublishCommit, Ready
<1>00. v \in Visit /\ visits' = visits /\ BoardOf(v) /\ rows[v] \subseteq Row
  BY DEF TypeInv, TypeOK, Tx, BoardInv, PublishCommit
<1>1. Replaced(m, v) # {} /\ Replaced(m, v) \subseteq Live(v)
  BY <1>0, <1>00 DEF StillFound, Found, Replaced, Drafts, Live
<1> DEFINE out(a) == IF a \in Replaced(m, v) THEN [a EXCEPT !.status = "PUBLISHED"]
                     ELSE IF a.status = "PUBLISHED" THEN [a EXCEPT !.status = "SUPERSEDED"] ELSE a
           f == [a \in rows[v] |-> out(a)]
<1>2. rows'[v] = {out(a) : a \in rows[v]}
  BY <1>00 DEF PublishCommit
<1>3. \A a \in rows[v] : a.status \in InForce <=> a \in Live(v)
  BY DEF Live, InForce
<1>4. Live(v) = Replaced(m, v)
  BY <1>00, <1>1 DEF BoardOf
<1>5. \A a \in rows[v] : (out(a).status \in InForce <=> a.status \in InForce) /\ out(a).day = a.day
  BY <1>00, <1>3, <1>4 DEF Row, InForce
<1> HIDE DEF out
<1>6. rows'[v] = {f[a] : a \in rows[v]}
  BY <1>2
<1>7. \A a \in rows[v] : (f[a].status \in InForce <=> a.status \in InForce)
                         /\ (f[a].status \in InForce => f[a].day = visits[v].day)
  BY <1>00, <1>3, <1>5 DEF BoardOf
<1> HIDE DEF f
<1>8. QED
  BY <1>00, <1>6, <1>7, BoardMapped

LEMMA BoardOutside == ASSUME TypeInv, BoardInv, OutsideEdit, NEW v \in Visit PROVE BoardOf(v)'
<1>0. BoardOf(v) /\ visits[v] \in VisitRow
  BY DEF BoardInv, TypeInv, TypeOK, VisitRow
<1>1. ASSUME NEW w \in Visit, NEW locked \in BOOLEAN, SetLocked(w, locked) PROVE BoardOf(v)'
  <2>1. rows'[v] = rows[v] /\ visits'[v].day = visits[v].day /\ visits'[v].status = visits[v].status
        /\ visits'[v].reason = visits[v].reason
    BY <1>0, <1>1 DEF SetLocked, TypeInv, TypeOK, VisitRow
  <2>2. Live(v)' = Live(v)
    BY <2>1 DEF Live
  <2>3. QED
    BY <1>0, <2>1, <2>2 DEF BoardOf
<1>2. ASSUME NEW w \in Visit, Withdraw(w) PROVE BoardOf(v)'
  <2>1. CASE v # w
    <3>1. rows'[v] = rows[v] /\ visits'[v] = visits[v]
      BY <1>2, <2>1 DEF Withdraw, TypeInv, TypeOK
    <3>2. QED
      BY <1>0, <3>1, BoardStable
  <2>2. CASE v = w
    <3>1. PICK a \in rows[v] : a.status = "PUBLISHED" /\
            rows' = [rows EXCEPT ![v] = (@ \ {a}) \cup {[a EXCEPT !.status = "SUPERSEDED"]}]
      BY <1>2, <2>2 DEF Withdraw
    <3>2. a \in Row /\ [a EXCEPT !.status = "SUPERSEDED"].status = "SUPERSEDED"
      BY DEF TypeInv, TypeOK, Row
    <3>3. Live(v) = {a}
      BY <1>0, <3>1 DEF BoardOf, Live
    <3>4. rows'[v] = (rows[v] \ {a}) \cup {[a EXCEPT !.status = "SUPERSEDED"]}
      BY <3>1 DEF TypeInv, TypeOK
    <3>5. Live(v)' = {}
      BY <3>2, <3>3, <3>4 DEF Live
    <3>6. visits'[v].status = "UNASSIGNED" /\ visits'[v].reason = visits[v].day /\ visits'[v].day = visits[v].day
      BY <1>0, <1>2, <2>2 DEF Withdraw, TypeInv, TypeOK, VisitRow
    <3>7. QED
      BY <3>5, <3>6 DEF BoardOf
  <2>3. QED
    BY <2>1, <2>2
<1>3. QED
  BY <1>1, <1>2 DEF OutsideEdit

LEMMA BoardInductive == TypeInv /\ Locks /\ StillFound /\ BoardInv /\ [Next]_vars => BoardInv'
<1> SUFFICES ASSUME TypeInv, Locks, StillFound, BoardInv, [Next]_vars, NEW v \in Visit
             PROVE  BoardOf(v)'
  BY DEF BoardInv
<1> USE DEF Proc
<1>1. CASE rows'[v] = rows[v] /\ visits'[v] = visits[v]
  BY <1>1, BoardStable DEF BoardInv
<1>2. ASSUME NEW p \in Proc, Commit(p) PROVE BoardOf(v)'
  <2>1. CASE v \in tx[p].scope
    BY <1>2, <2>1, BoardSolve, BoardAssign, BoardUnassign, BoardAdjust, BoardPin, BoardPublish DEF Commit
  <2>2. CASE v \notin tx[p].scope
    BY <1>1, <1>2, <2>2, CommitFrame
  <2>3. QED
    BY <2>1, <2>2
<1>3. ASSUME NEW p \in Proc, LockVisits(p) \/ Abort(p) \/ Opens(p) \/ Thinks(p) PROVE BoardOf(v)'
  BY <1>1, <1>3, LockFrame, OpensFrame, ThinksFrame DEF Abort
<1>4. CASE OutsideEdit
  BY <1>4, BoardOutside
<1>5. CASE UNCHANGED vars
  BY <1>1, <1>5 DEF vars
<1>6. QED
  BY <1>2, <1>3, <1>4, <1>5, Steps

-----------------------------------------------------------------------------
(* Nobody in two places.  A transaction judges a crew against the bookings it *)
(* can see; the judgement is still true when it commits, because every new    *)
(* booking of anybody else is of employees the other has locked.              *)

Apart(c1, c2) == c1 \cap c2 = {}

(* Crew c may be on v on day d, as transaction p leaves the board. *)
Clear(p, v, c, d) ==
  \A w \in Visit \ {v} :
    /\ tx[p].done[w] = "todo" => \A b \in Live(w) : b.day = d => Apart(b.crew, c)
    /\ Staffs(p, w) /\ DayAfter(p, w) = d => Apart(tx[p].plan[w].crew, c)

JudgedClear(p) ==
  HasCrew(p) =>
    /\ \A v \in Visit : Staffs(p, v) => Clear(p, v, tx[p].plan[v].crew, DayAfter(p, v))
    /\ tx[p].op = "adjust" => \A v \in tx[p].scope : \A a \in Drafts(v) :
         Clear(p, v, a.crew, tx[p].plan[v].day)

AllClear == \A p \in Proc : JudgedClear(p)

(* A booking after the step was one before, or is of the crew its writer locked. *)
Booking(v, c, d) == \E a \in Live(v) : a.crew = c /\ a.day = d

LEMMA BookingOf == ASSUME NEW v, NEW a \in Live(v), NEW b, b.crew = a.crew, b.day = a.day
                  PROVE  Booking(v, b.crew, b.day)
  BY DEF Booking

LEMMA SolvedLive ==
  ASSUME TypeInv, StillFound, NEW r \in Run, SolveCommit(r), NEW v \in tx[r].scope, NEW b \in Live(v)'
  PROVE  Staffs(r, v) /\ b.crew = tx[r].plan[v].crew /\ b.day = DayAfter(r, v)
<1> USE DEF Proc
<1>0. v \in Visit /\ tx[r].pc = "days"
  BY DEF TypeInv, TypeOK, Tx, SolveCommit
<1>1. SnapshotHolds(v, tx[r].ids[v])
  BY <1>0 DEF StillFound, Found, EntryStands
<1>2. Live(v) = Replaced(r, v)
  BY <1>0, <1>1, ReplacedIsLive
<1>3. Staffs(r, v)
  <2>1. ASSUME ~ Staffs(r, v) PROVE FALSE
    <3>1. rows'[v] = (rows[v] \ Replaced(r, v)) \cup {[a EXCEPT !.status = "CANCELLED"] : a \in Replaced(r, v)}
      BY <1>0, <2>1 DEF SolveCommit
    <3>2. Live(v)' = {}
      BY <1>0, <1>2, <3>1, LiveAfterCancel
    <3>3. QED
      BY <3>2
  <2>2. QED
    BY <2>1
<1> DEFINE new == Draft(made[v] + 1, tx[r].plan[v].crew, DayAfter(r, v), r, Inherited(r, v))
<1>4. rows'[v] = (rows[v] \ Replaced(r, v)) \cup {new}
  BY <1>0, <1>3 DEF SolveCommit
<1>5. new.status = "DRAFT" /\ new.day = DayAfter(r, v) /\ new.crew = tx[r].plan[v].crew
  BY DraftFields
<1> HIDE DEF new
<1>6. Live(v)' = {new}
  BY <1>0, <1>2, <1>4, <1>5, LiveAfterDraft
<1>7. QED
  BY <1>3, <1>5, <1>6

LEMMA AssignedLive ==
  ASSUME TypeInv, StillFound, NEW m \in Manager, AssignCommit(m), NEW v \in tx[m].scope, NEW b \in Live(v)'
  PROVE  \/ Staffs(m, v) /\ b.crew = tx[m].plan[v].crew /\ b.day = DayAfter(m, v)
         \/ Live(v)' = Live(v)
<1> USE DEF Proc
<1>0. tx[m].op = "assign" /\ tx[m].pc = "judged"
  BY DEF AssignCommit, Ready
<1>00. v = Target(m) /\ v \in Visit
  BY <1>0, OneTarget
<1>1. SnapshotHolds(v, tx[m].ids[v])
  BY <1>0, <1>00 DEF StillFound, Found
<1>2. Live(v) = Replaced(m, v)
  BY <1>00, <1>1, ReplacedIsLive
<1>3. CASE tx[m].done[v] = "stayed"
  <2> DEFINE lineage == IF Replaced(m, v) = {} THEN ByHand ELSE (CHOOSE a \in Replaced(m, v) : TRUE).run
             new == Draft(made[v] + 1, tx[m].plan[v].crew, visits[v].day, lineage, Unpinned)
  <2>1. rows' = [rows EXCEPT ![v] = (@ \ Replaced(m, v)) \cup {new}]
    BY <1>00, <1>3 DEF AssignCommit
  <2>2. new.status = "DRAFT" /\ new.day = visits[v].day /\ new.crew = tx[m].plan[v].crew
    BY DraftFields
  <2> HIDE DEF new
  <2>3. rows'[v] = (rows[v] \ Replaced(m, v)) \cup {new}
    BY <1>00, <2>1 DEF TypeInv, TypeOK
  <2>4. Live(v)' = {new}
    BY <1>00, <1>2, <2>2, <2>3, LiveAfterDraft
  <2>5. QED
    BY <1>3, <2>2, <2>4 DEF Staffs, DayAfter
<1>4. CASE tx[m].done[v] = "unassigned"
  <2>1. rows'[v] = rows[v]
    BY <1>00, <1>4 DEF AssignCommit
  <2>2. QED
    BY <2>1 DEF Live
<1>5. QED
  BY <1>00, <1>3, <1>4 DEF AssignCommit

LEMMA AdjustedLive ==
  ASSUME TypeInv, StillFound, NEW m \in Manager, AdjustCommit(m), NEW v \in tx[m].scope, NEW b \in Live(v)'
  PROVE  \E a \in Drafts(v) : b.crew = a.crew /\ b.day = tx[m].plan[v].day
<1> USE DEF Proc
<1>0. tx[m].op = "adjust" /\ tx[m].pc = "judged"
  BY DEF AdjustCommit, Ready
<1>1. v = Target(m) /\ v \in Visit /\ rows[v] \subseteq Row
  BY <1>0, OneTarget DEF TypeInv, TypeOK
<1>2. Unpublished(v)
  BY <1>0, <1>1 DEF StillFound, Found
<1>3. rows'[v] = {IF a \in Drafts(v) THEN Shifted(a, tx[m].plan[v].day) ELSE a : a \in rows[v]}
  BY <1>1 DEF AdjustCommit, TypeInv, TypeOK
<1>4. PICK a \in rows[v] : b = IF a \in Drafts(v) THEN Shifted(a, tx[m].plan[v].day) ELSE a
  BY <1>3 DEF Live
<1>5. a \in Drafts(v)
  BY <1>2, <1>4 DEF Live, Drafts, Unpublished, History
<1>6. Shifted(a, tx[m].plan[v].day).crew = a.crew /\ Shifted(a, tx[m].plan[v].day).day = tx[m].plan[v].day
  BY <1>1 DEF Shifted, Row
<1>7. QED
  BY <1>4, <1>5, <1>6

LEMMA KeptLive ==
  ASSUME TypeInv, NEW p \in Manager, UnassignCommit(p) \/ PinCommit(p) \/ PublishCommit(p),
         NEW v \in tx[p].scope, NEW b \in Live(v)'
  PROVE  Booking(v, b.crew, b.day)
<1> USE DEF Proc
<1>0. v \in Visit /\ \A a \in rows[v] : a \in Row
  BY DEF TypeInv, TypeOK, Tx
<1>1. CASE UnassignCommit(p)
  <2>1. b \in rows'[v] /\ rows'[v] \subseteq rows[v]
    <3>1. b \in rows'[v] /\ rows = [w \in Visit |-> rows[w]]
      BY DEF Live, TypeInv, TypeOK
    <3>2. QED
      BY <1>1, <3>1 DEF UnassignCommit
  <2>2. QED
    BY <2>1, BookingOf DEF Live
<1>2. CASE PinCommit(p)
  <2>0. tx[p].op \in {"pin", "unpin"}
    BY <1>2 DEF PinCommit, Ready
  <2> DEFINE held == tx[p].op = "pin"
             pinned(a) == [a EXCEPT !.pins[tx[p].pin] = [held |-> held, rev |-> @.rev + 1]]
  <2>1. \E a \in rows[v] : b = IF a \in Row0(p) THEN pinned(a) ELSE a
    <3>0. v = Target(p)
      BY <1>2, <2>0, OneTarget
    <3>1. rows'[v] = {IF a \in Row0(p) THEN pinned(a) ELSE a : a \in rows[v]}
      BY <1>0, <1>2, <3>0 DEF PinCommit, TypeInv, TypeOK
    <3>2. QED
      BY <3>1 DEF Live
  <2>2. PICK a \in rows[v] : b = IF a \in Row0(p) THEN pinned(a) ELSE a
    BY <2>1
  <2>3. pinned(a).crew = a.crew /\ pinned(a).day = a.day /\ pinned(a).status = a.status
    BY <1>0 DEF Row
  <2> HIDE DEF pinned
  <2>4. b.status \in InForce
    BY DEF Live, InForce
  <2>5. a \in Live(v) /\ b.crew = a.crew /\ b.day = a.day
    BY <2>2, <2>3, <2>4 DEF Live, InForce
  <2>6. QED
    BY <2>5, BookingOf
<1>3. CASE PublishCommit(p)
  <2> DEFINE out(a) == IF a \in Replaced(p, v) THEN [a EXCEPT !.status = "PUBLISHED"]
                       ELSE IF a.status = "PUBLISHED" THEN [a EXCEPT !.status = "SUPERSEDED"] ELSE a
  <2>1. \E a \in rows[v] : b = out(a)
    <3>1. rows'[v] = {out(a) : a \in rows[v]}
      BY <1>0, <1>3 DEF PublishCommit
    <3>2. QED
      BY <3>1 DEF Live
  <2>2. PICK a \in rows[v] : b = out(a)
    BY <2>1
  <2>3. out(a).crew = a.crew /\ out(a).day = a.day
    BY <1>0 DEF Row
  <2>4. out(a).status \in InForce => a.status \in InForce
    BY <1>0 DEF Row, InForce, Replaced, Drafts
  <2> HIDE DEF out
  <2>5. b.status \in InForce
    BY DEF Live, InForce
  <2>6. a \in Live(v) /\ b.crew = a.crew /\ b.day = a.day
    BY <2>2, <2>3, <2>4, <2>5 DEF Live, InForce
  <2>7. QED
    BY <2>6, BookingOf
<1>4. QED
  BY <1>1, <1>2, <1>3

LEMMA NewBookingsAreLocked ==
  ASSUME TypeInv, StillFound, NEW p \in Proc, Commit(p), NEW v \in Visit, NEW b \in Live(v)'
  PROVE  \/ Booking(v, b.crew, b.day)
         \/ HasCrew(p) /\ b.crew \subseteq tx[p].crew /\ v \in tx[p].scope
<1> USE DEF Proc
<1>1. CASE v \notin tx[p].scope
  <2>1. Live(v)' = Live(v)
    BY <1>1, CommitFrame DEF Live
  <2>2. QED
    BY <2>1, BookingOf
<1>2. CASE v \in tx[p].scope /\ p \in Run /\ SolveCommit(p)
  <2>1. tx[p].pc = "days" /\ tx[p].op = "solve"
    BY <1>2 DEF SolveCommit, TypeInv, Shape, ShapeOf
  <2>2. tx[p].plan[v].crew \subseteq tx[p].crew
    BY <1>2, <2>1 DEF TypeInv, Shape, ShapeOf
  <2>3. QED
    BY <1>2, <2>1, <2>2, SolvedLive DEF HasCrew
<1>3. CASE v \in tx[p].scope /\ p \in Manager /\ AssignCommit(p)
  <2>1. tx[p].op = "assign" /\ tx[p].pc = "judged"
    BY <1>3 DEF AssignCommit, Ready
  <2>2. tx[p].plan[v].crew \subseteq tx[p].crew
    BY <1>3, <2>1 DEF StillFound, Found
  <2>3. QED
    BY <1>3, <2>1, <2>2, AssignedLive, BookingOf DEF HasCrew
<1>4. CASE v \in tx[p].scope /\ p \in Manager /\ AdjustCommit(p)
  <2>1. tx[p].op = "adjust" /\ tx[p].pc = "judged"
    BY <1>4 DEF AdjustCommit, Ready
  <2>2. \A a \in Drafts(v) : a.crew \subseteq tx[p].crew
    BY <1>4, <2>1 DEF StillFound, Found
  <2>3. QED
    BY <1>4, <2>1, <2>2, AdjustedLive DEF HasCrew
<1>5. CASE v \in tx[p].scope /\ p \in Manager /\ (UnassignCommit(p) \/ PinCommit(p) \/ PublishCommit(p))
  BY <1>5, KeptLive
<1>6. QED
  BY <1>1, <1>2, <1>3, <1>4, <1>5 DEF Commit

(* What others book while a transaction holds a crew is not of that crew. *)
LEMMA NobodyBooksALockedCrew ==
  ASSUME TypeInv, Locks, StillFound, [Next]_vars, NEW q \in Proc, tx'[q] = tx[q],
         NEW w \in Visit, NEW b \in Live(w)', NEW e \in Employee, e \in b.crew, crewLock[e] = q
  PROVE  Booking(w, b.crew, b.day)
<1>1. ASSUME rows'[w] = rows[w] PROVE Booking(w, b.crew, b.day)
  BY <1>1, BookingOf DEF Live
<1>2. ASSUME NEW p \in Proc, LockVisits(p) \/ Abort(p) \/ Opens(p) \/ Thinks(p)
      PROVE  Booking(w, b.crew, b.day)
  BY <1>1, <1>2, LockFrame, OpensFrame, ThinksFrame DEF Abort
<1>3. ASSUME NEW p \in Proc, Commit(p) PROVE Booking(w, b.crew, b.day)
  <2>1. Locked(p) /\ tx'[p].pc = "idle"
    BY <1>3, CommitFrame, FinishFrame
  <2>2. p # q
    BY <2>1 DEF Locked
  <2>3. ~ (HasCrew(p) /\ b.crew \subseteq tx[p].crew)
    BY <2>2 DEF Locks
  <2>4. QED
    BY <1>3, <2>3, NewBookingsAreLocked
<1>4. CASE OutsideEdit
  <2>1. ASSUME NEW v \in Visit, NEW locked \in BOOLEAN, SetLocked(v, locked) PROVE rows'[w] = rows[w]
    BY <2>1 DEF SetLocked
  <2>2. ASSUME NEW v \in Visit, Withdraw(v) PROVE b \in Live(w)
    <3>1. PICK a \in rows[v] :
            rows' = [rows EXCEPT ![v] = (@ \ {a}) \cup {[a EXCEPT !.status = "SUPERSEDED"]}]
      BY <2>2 DEF Withdraw
    <3>2. a \in Row /\ [a EXCEPT !.status = "SUPERSEDED"].status = "SUPERSEDED"
      BY DEF TypeInv, TypeOK, Row
    <3>3. \A x \in rows'[w] : x \in rows[w] \/ x.status = "SUPERSEDED"
      BY <3>1, <3>2 DEF TypeInv, TypeOK
    <3>4. QED
      BY <3>3 DEF Live
  <2>3. QED
    BY <1>1, <1>4, <2>1, <2>2, BookingOf DEF OutsideEdit
<1>5. CASE UNCHANGED vars
  BY <1>1, <1>5 DEF vars
<1>6. QED
  BY <1>2, <1>3, <1>4, <1>5, Steps

(* The crews of a judged transaction are locked by it. *)
LEMMA StaffsLocked ==
  ASSUME TypeInv, Locks, StillFound, NEW q \in Proc, HasCrew(q), NEW v \in Visit, Staffs(q, v)
  PROVE  /\ v \in tx[q].scope /\ tx[q].op \in {"solve", "assign"}
         /\ \A e \in tx[q].plan[v].crew : e \in Employee /\ crewLock[e] = q
<1>0. tx[q] \in Tx /\ ShapeOf(q, tx[q])
  BY DEF TypeInv, TypeOK, Shape
<1>1. tx[q].done[v] # "todo"
  BY DEF Staffs
<1>2. v \in tx[q].scope /\ tx[q].plan[v].kind = "assign"
  BY <1>0, <1>1 DEF ShapeOf
<1>3. tx[q].op \in {"solve", "assign"}
  BY <1>0, <1>2 DEF ShapeOf
<1>4. CASE tx[q].op = "solve"
  BY <1>0, <1>2, <1>4 DEF ShapeOf, Tx, Locks
<1>5. CASE tx[q].op = "assign"
  <2>1. tx[q].pc = "judged"
    BY <1>0, <1>5 DEF ShapeOf, HasCrew
  <2>2. tx[q].plan[v].crew \subseteq tx[q].crew
    BY <1>2, <1>5, <2>1 DEF StillFound, Found
  <2>3. QED
    BY <1>0, <1>2, <1>3, <2>2 DEF Tx, Locks
<1>6. QED
  BY <1>2, <1>3, <1>4, <1>5

LEMMA ClearStable ==
  ASSUME TypeInv, Locks, StillFound, [Next]_vars, NEW q \in Proc, HasCrew(q), tx'[q] = tx[q],
         NEW v \in Visit, NEW c, NEW d, \A e \in c : e \in Employee /\ crewLock[e] = q,
         Clear(q, v, c, d)
  PROVE  Clear(q, v, c, d)'
<1> SUFFICES ASSUME NEW w \in Visit \ {v}
             PROVE  /\ tx'[q].done[w] = "todo" => \A b \in Live(w)' : b.day = d => Apart(b.crew, c)
                    /\ Staffs(q, w)' /\ DayAfter(q, w)' = d => Apart(tx'[q].plan[w].crew, c)
  BY DEF Clear, Apart
<1>1. ASSUME tx'[q].done[w] = "todo", NEW b \in Live(w)', b.day = d PROVE Apart(b.crew, c)
  <2>1. CASE \E e \in c : e \in b.crew
    <3>1. Booking(w, b.crew, b.day)
      BY <2>1, NobodyBooksALockedCrew
    <3>2. PICK a \in Live(w) : a.crew = b.crew /\ a.day = b.day
      BY <3>1 DEF Booking
    <3>3. QED
      BY <1>1, <3>2 DEF Clear
  <2>2. CASE ~ \E e \in c : e \in b.crew
    BY <2>2 DEF Apart
  <2>3. QED
    BY <2>1, <2>2
<1>2. ASSUME Staffs(q, w)', DayAfter(q, w)' = d PROVE Apart(tx'[q].plan[w].crew, c)
  <2>1. Staffs(q, w)
    BY <1>2 DEF Staffs
  <2>2. w \in tx[q].scope
    BY <2>1, StaffsLocked
  <2>3. visits'[w] = visits[w]
    BY <2>2, NobodyWritesALockedVisit DEF Locks, Locked, HasCrew
  <2>4. DayAfter(q, w)' = DayAfter(q, w)
    BY <2>3 DEF DayAfter
  <2>5. QED
    BY <1>2, <2>1, <2>4 DEF Clear
<1>3. QED
  BY <1>1, <1>2

LEMMA OthersClear ==
  ASSUME TypeInv, Locks, StillFound, AllClear, [Next]_vars, NEW q \in Proc, tx'[q] = tx[q]
  PROVE  JudgedClear(q)'
<1> SUFFICES ASSUME HasCrew(q)' PROVE JudgedClear(q)'
  BY DEF JudgedClear
<1>0. HasCrew(q) /\ tx[q].scope \subseteq Visit /\ tx[q].crew \subseteq Employee
  BY DEF HasCrew, TypeInv, TypeOK, Tx
<1>1. \A v \in tx[q].scope : rows'[v] = rows[v] /\ visits'[v] = visits[v]
  BY <1>0, NobodyWritesALockedVisit DEF Locks, Locked, HasCrew
<1>2. ASSUME NEW v \in Visit, Staffs(q, v)'
      PROVE  (Clear(q, v, tx[q].plan[v].crew, DayAfter(q, v)))'
  <2>1. Staffs(q, v)
    BY <1>2 DEF Staffs
  <2>2. v \in tx[q].scope /\ \A e \in tx[q].plan[v].crew : e \in Employee /\ crewLock[e] = q
    BY <1>0, <2>1, StaffsLocked
  <2>3. DayAfter(q, v)' = DayAfter(q, v)
    BY <1>1, <2>2 DEF DayAfter
  <2>4. Clear(q, v, tx[q].plan[v].crew, DayAfter(q, v))
    BY <1>0, <2>1 DEF AllClear, JudgedClear
  <2>5. ASSUME NEW c, NEW d, c = tx[q].plan[v].crew, d = DayAfter(q, v) PROVE Clear(q, v, c, d)'
    BY <1>0, <2>2, <2>4, <2>5, ClearStable
  <2>6. QED
    BY <2>3, <2>5 DEF Clear
<1>3. ASSUME tx[q].op = "adjust", NEW v \in tx[q].scope, NEW a \in Drafts(v)'
      PROVE  (Clear(q, v, a.crew, tx[q].plan[v].day))'
  <2>1. a \in Drafts(v)
    BY <1>1 DEF Drafts
  <2>2. tx[q].pc = "judged"
    BY <1>0, <1>3 DEF HasCrew, TypeInv, Shape, ShapeOf, Proc
  <2>3. a.crew \subseteq tx[q].crew
    BY <1>3, <2>1, <2>2 DEF StillFound, Found
  <2>4. \A e \in a.crew : e \in Employee /\ crewLock[e] = q
    BY <1>0, <2>3 DEF Locks
  <2>5. Clear(q, v, a.crew, tx[q].plan[v].day)
    BY <1>0, <1>3, <2>1 DEF AllClear, JudgedClear
  <2>6. ASSUME NEW c, NEW d, c = a.crew, d = tx[q].plan[v].day PROVE Clear(q, v, c, d)'
    BY <1>0, <2>4, <2>5, <2>6, ClearStable
  <2>7. QED
    BY <2>6 DEF Clear
<1>4. QED
  BY <1>2, <1>3 DEF JudgedClear

(* One judgement of a solve: against the committed bookings and its own. *)
LEMMA EntryClear ==
  ASSUME TypeInv, AllClear, NEW r \in Run, NEW v0 \in Visit, JudgeEntry(r, v0)
  PROVE  JudgedClear(r)'
<1> USE DEF Proc
<1>0. tx[r] \in Tx /\ tx = [p \in Proc |-> tx[p]] /\ rows' = rows /\ visits' = visits
      /\ tx[r].pc = "days" /\ tx[r].done[v0] = "todo" /\ tx[r].op = "solve"
  BY DEF JudgeEntry, TypeInv, TypeOK, Shape, ShapeOf
<1>1. \A v \in Visit : Live(v)' = Live(v)
  BY <1>0 DEF Live
<1>2. /\ tx'[r].plan = tx[r].plan /\ tx'[r].op = tx[r].op
  <2>1. Thinks(r)
    BY DEF Thinks
  <2>2. QED
    BY <2>1, ThinksFrame
<1>3. \E o \in {"moved", "stayed", "unassigned"} :
        /\ tx'[r].done = [tx[r].done EXCEPT ![v0] = o]
        /\ o = "moved" => FreeFor(r, v0, tx[r].ids[v0], tx[r].plan[v0].crew, tx[r].plan[v0].day)
        /\ o = "stayed" => FreeFor(r, v0, tx[r].ids[v0], tx[r].plan[v0].crew, visits[v0].day)
  <2>1. ASSUME FreeFor(r, v0, tx[r].ids[v0], tx[r].plan[v0].crew, tx[r].plan[v0].day),
               tx' = [tx EXCEPT ![r].done[v0] = "moved",
                                ![r].ledger = RecordMove(@, v0, visits[v0].day, tx[r].plan[v0].day)]
        PROVE  tx'[r].done = [tx[r].done EXCEPT ![v0] = "moved"]
    BY <1>0, <2>1 DEF Tx
  <2>2. ASSUME NEW o, tx' = [tx EXCEPT ![r].done[v0] = o]
        PROVE  tx'[r].done = [tx[r].done EXCEPT ![v0] = o]
    BY <1>0, <2>2 DEF Tx
  <2>3. QED
    BY <2>1, <2>2 DEF JudgeEntry
<1>4. PICK o \in {"moved", "stayed", "unassigned"} :
        /\ tx'[r].done = [tx[r].done EXCEPT ![v0] = o]
        /\ o = "moved" => FreeFor(r, v0, tx[r].ids[v0], tx[r].plan[v0].crew, tx[r].plan[v0].day)
        /\ o = "stayed" => FreeFor(r, v0, tx[r].ids[v0], tx[r].plan[v0].crew, visits[v0].day)
  BY <1>3
<1>5. /\ tx'[r].done[v0] = o
      /\ \A v \in Visit \ {v0} : tx'[r].done[v] = tx[r].done[v]
  BY <1>0, <1>4 DEF Tx
<1>6. \A v \in Visit \ {v0} : (Staffs(r, v)' <=> Staffs(r, v)) /\ DayAfter(r, v)' = DayAfter(r, v)
  BY <1>0, <1>2, <1>5 DEF Staffs, DayAfter
<1>7. /\ Staffs(r, v0)' => o \in {"moved", "stayed"}
      /\ DayAfter(r, v0)' = IF o = "moved" THEN tx[r].plan[v0].day ELSE visits[v0].day
  BY <1>0, <1>2, <1>5 DEF Staffs, DayAfter
<1> DEFINE d0 == IF o = "moved" THEN tx[r].plan[v0].day ELSE visits[v0].day
           c0 == tx[r].plan[v0].crew
<1>8. ASSUME o \in {"moved", "stayed"}, NEW w \in Visit \ {v0}
      PROVE  /\ tx[r].done[w] = "todo" => \A b \in Live(w) : b.day = d0 => Apart(b.crew, c0)
             /\ Staffs(r, w) /\ DayAfter(r, w) = d0 => Apart(tx[r].plan[w].crew, c0)
  <2>1. FreeFor(r, v0, tx[r].ids[v0], c0, d0)
    BY <1>4, <1>8
  <2> HIDE DEF d0, c0
  <2>2. QED
    BY <2>1 DEF FreeFor, Apart, Staffs, DayAfter
<1> HIDE DEF d0, c0
<1>9. ASSUME NEW v \in Visit, Staffs(r, v)'
      PROVE  (Clear(r, v, tx[r].plan[v].crew, DayAfter(r, v)))'
  <2>1. CASE v = v0
    <3>1. o \in {"moved", "stayed"} /\ DayAfter(r, v0)' = d0 /\ tx'[r].plan[v0].crew = c0
      BY <1>2, <1>7, <1>9, <2>1 DEF d0, c0
    <3>2. QED
      BY <1>1, <1>2, <1>5, <1>6, <1>8, <2>1, <3>1 DEF Clear
  <2>2. CASE v # v0
    <3>1. Staffs(r, v) /\ DayAfter(r, v)' = DayAfter(r, v)
      BY <1>6, <1>9, <2>2
    <3>2. Clear(r, v, tx[r].plan[v].crew, DayAfter(r, v))
      BY <1>0, <3>1 DEF AllClear, JudgedClear, HasCrew
    <3>3. ASSUME Staffs(r, v0)', DayAfter(r, v0)' = DayAfter(r, v)
          PROVE  Apart(tx[r].plan[v0].crew, tx[r].plan[v].crew)
      <4>1. o \in {"moved", "stayed"} /\ d0 = DayAfter(r, v)
        BY <1>7, <3>3 DEF d0
      <4>2. Apart(tx[r].plan[v].crew, c0)
        BY <1>8, <2>2, <3>1, <4>1
      <4>3. QED
        BY <4>2 DEF Apart, c0
    <3>4. tx'[r].done[v0] # "todo"
      BY <1>5
    <3>5. QED
      BY <1>1, <1>2, <1>5, <1>6, <2>2, <3>1, <3>2, <3>3, <3>4 DEF Clear
  <2>3. QED
    BY <2>1, <2>2
<1>10. QED
  BY <1>0, <1>2, <1>9 DEF JudgedClear

LEMMA RequestClear ==
  ASSUME TypeInv, NEW m \in Manager, Judge(m)
  PROVE  JudgedClear(m)'
<1> USE DEF Proc
<1>0. tx[m] \in Tx /\ tx = [p \in Proc |-> tx[p]] /\ rows' = rows /\ visits' = visits /\ tx[m].pc = "checked"
  BY DEF Judge, TypeInv, TypeOK
<1>1. \A v \in Visit : Live(v)' = Live(v) /\ Drafts(v)' = Drafts(v) /\ tx[m].done[v] = "todo"
  BY <1>0 DEF Live, Drafts, TypeInv, Shape, ShapeOf
<1>2. /\ tx'[m].plan = tx[m].plan /\ tx'[m].op = tx[m].op /\ tx'[m].scope = tx[m].scope
  <2>1. Thinks(m)
    BY DEF Thinks
  <2>2. QED
    BY <2>1, ThinksFrame
<1>3. CASE tx[m].op = "assign"
  <2>0. Target(m) \in Visit
    BY <1>3, OneTarget
  <2>1. PICK v0 \in Visit : v0 = Target(m)
    BY <2>0
  <2>2. \/ /\ FreeFor(m, v0, tx[m].ids[v0], tx[m].plan[v0].crew, visits[v0].day)
           /\ tx' = [tx EXCEPT ![m].pc = "judged", ![m].done[v0] = "stayed"]
        \/ tx' = [tx EXCEPT ![m].pc = "judged", ![m].done[v0] = "unassigned"]
    BY <1>3, <2>1 DEF Judge
  <2>3. CASE tx' = [tx EXCEPT ![m].pc = "judged", ![m].done[v0] = "unassigned"]
    <3>1. tx'[m].done = [tx[m].done EXCEPT ![v0] = "unassigned"]
      BY <1>0, <2>3 DEF Tx
    <3>2. \A v \in Visit : ~ Staffs(m, v)'
      BY <1>0, <1>1, <2>1, <3>1 DEF Staffs, Tx
    <3>3. QED
      BY <1>2, <1>3, <3>2 DEF JudgedClear
  <2>4. CASE /\ FreeFor(m, v0, tx[m].ids[v0], tx[m].plan[v0].crew, visits[v0].day)
             /\ tx' = [tx EXCEPT ![m].pc = "judged", ![m].done[v0] = "stayed"]
    <3>1. tx'[m].done = [tx[m].done EXCEPT ![v0] = "stayed"]
      BY <1>0, <2>4 DEF Tx
    <3>2. \A v \in Visit \ {v0} : tx'[m].done[v] = "todo" /\ ~ Staffs(m, v)'
      BY <1>0, <1>1, <2>1, <3>1 DEF Staffs, Tx
    <3>3. DayAfter(m, v0)' = visits[v0].day
      <4>1. tx'[m].done[v0] = "stayed"
        BY <1>0, <2>1, <3>1 DEF Tx
      <4>2. QED
        BY <1>0, <4>1 DEF DayAfter
    <3>4. \A w \in Visit \ {v0} : \A b \in Live(w) : b.day = visits[v0].day => Apart(b.crew, tx[m].plan[v0].crew)
      BY <1>1, <2>4 DEF FreeFor, Apart
    <3>5. (Clear(m, v0, tx[m].plan[v0].crew, DayAfter(m, v0)))'
      <4>1. \A w \in Visit \ {v0} : Live(w)' = Live(w) /\ ~ Staffs(m, w)'
        BY <1>1, <3>2
      <4>2. tx'[m].plan[v0].crew = tx[m].plan[v0].crew
        BY <1>2
      <4>3. QED
        BY <3>3, <3>4, <4>1, <4>2 DEF Clear
    <3>6. ASSUME NEW v \in Visit, Staffs(m, v)' PROVE (Clear(m, v, tx[m].plan[v].crew, DayAfter(m, v)))'
      <4>1. v = v0
        BY <3>2, <3>6
      <4>2. QED
        BY <3>5, <4>1
    <3>7. tx'[m].op # "adjust"
      BY <1>2, <1>3
    <3>8. QED
      BY <3>6, <3>7 DEF JudgedClear
  <2>5. QED
    BY <2>2, <2>3, <2>4
<1>4. CASE tx[m].op # "assign"
  <2>1. tx' = [tx EXCEPT ![m].pc = "judged"]
    BY <1>4 DEF Judge, Goto
  <2>2. tx'[m].done = tx[m].done
    BY <1>0, <2>1 DEF Tx
  <2>3. \A v \in Visit : tx'[m].done[v] = "todo" /\ ~ Staffs(m, v)'
    BY <1>1, <2>2 DEF Staffs
  <2>4. ASSUME tx[m].op = "adjust", NEW v \in tx[m].scope, NEW a \in Drafts(v)
        PROVE  (Clear(m, v, a.crew, tx[m].plan[v].day))'
    <3>1. v = Target(m) /\ v \in Visit
      BY <2>4, OneTarget
    <3>2. FreeFor(m, v, a.id, a.crew, tx[m].plan[v].day)
      BY <2>4, <3>1 DEF Judge
    <3>3. \A w \in Visit \ {v} : \A b \in Live(w) : b.day = tx[m].plan[v].day => Apart(b.crew, a.crew)
      BY <1>1, <3>2 DEF FreeFor, Apart
    <3>4. QED
      BY <1>1, <1>2, <2>3, <3>3 DEF Clear
  <2>5. tx[m].op = "adjust" => \A v \in tx[m].scope : v \in Visit
    BY <1>0 DEF Tx
  <2>6. QED
    BY <1>1, <1>2, <2>3, <2>4, <2>5 DEF JudgedClear
<1>5. QED
  BY <1>3, <1>4

LEMMA ClearInductive ==
  TypeInv /\ Locks /\ StillFound /\ AllClear /\ [Next]_vars => AllClear'
<1> SUFFICES ASSUME TypeInv, Locks, StillFound, AllClear, [Next]_vars, NEW q \in Proc
             PROVE  JudgedClear(q)'
  BY DEF AllClear
<1>0. tx[q] \in Tx /\ tx = [p \in Proc |-> tx[p]]
  BY DEF TypeInv, TypeOK
<1>1. CASE tx'[q] = tx[q]
  BY <1>1, OthersClear
<1>2. CASE LockVisits(q) \/ Abort(q) \/ Opens(q) \/ Commit(q)
  <2>1. tx'[q].pc \in {"idle", "begun", "visits"}
    <3>1. CASE LockVisits(q)
      <4>1. tx'[q] = [tx[q] EXCEPT !.pc = "visits"]
        BY <3>1, LockFrame
      <4>2. QED
        BY <1>0, <4>1 DEF Tx
    <3>2. CASE Opens(q)
      BY <3>2, OpensFrame
    <3>3. CASE Abort(q) \/ Commit(q)
      <4>1. Finish(q)
        BY <3>3, CommitFrame DEF Abort
      <4>2. QED
        BY <4>1, FinishFrame
    <3>4. QED
      BY <1>2, <3>1, <3>2, <3>3
  <2>2. QED
    BY <2>1 DEF JudgedClear, HasCrew
<1>3. CASE Thinks(q)
  <2>1. CASE q \in Run /\ SolveCheck(q)
    <3>1. tx'[q].done = tx[q].done /\ tx'[q].op = tx[q].op /\ tx[q].pc = "visits"
      BY <1>0, <2>1 DEF SolveCheck, Tx
    <3>2. \A v \in Visit : ~ Staffs(q, v)'
      BY <3>1 DEF Staffs, TypeInv, Shape, ShapeOf
    <3>3. tx'[q].op # "adjust"
      BY <2>1, <3>1 DEF TypeInv, Shape, ShapeOf
    <3>4. QED
      BY <3>2, <3>3 DEF JudgedClear
  <2>2. CASE q \in Run /\ \E v \in Visit : JudgeEntry(q, v)
    BY <2>2, EntryClear
  <2>3. CASE q \in Manager /\ Check(q)
    <3>1. tx'[q].pc = "checked"
      BY <1>0, <2>3 DEF Check, Tx
    <3>2. QED
      BY <3>1 DEF JudgedClear, HasCrew
  <2>4. CASE q \in Manager /\ Judge(q)
    BY <2>4, RequestClear
  <2>5. QED
    BY <1>3, <2>1, <2>2, <2>3, <2>4 DEF Thinks
<1>4. QED
  BY <1>1, <1>2, <1>3, Actor

LEMMA SettledBookings ==
  ASSUME TypeInv, NobodyDoubleBooked,
         \A u \in Visit : \A b \in Live(u)' : Booking(u, b.crew, b.day)
  PROVE  NobodyDoubleBooked'
<1> SUFFICES ASSUME NEW v \in Visit, NEW w \in Visit, v # w, NEW a \in Live(v)', NEW b \in Live(w)',
                    a.day = b.day
             PROVE  a.crew \cap b.crew = {}
  BY DEF NobodyDoubleBooked
<1>1. PICK x \in Live(v) : x.crew = a.crew /\ x.day = a.day
  BY DEF Booking
<1>2. PICK y \in Live(w) : y.crew = b.crew /\ y.day = b.day
  BY DEF Booking
<1>3. QED
  BY <1>1, <1>2 DEF NobodyDoubleBooked

(* One transaction books: its own bookings are clear of all the others. *)
LEMMA JudgedBookings ==
  ASSUME TypeInv, Locks, StillFound, AllClear, NobodyDoubleBooked, NEW p \in Proc, HasCrew(p),
         \A u \in Visit : \A b \in Live(u)' :
           \/ Staffs(p, u) /\ b.crew = tx[p].plan[u].crew /\ b.day = DayAfter(p, u)
           \/ tx[p].done[u] = "todo" /\ Booking(u, b.crew, b.day)
  PROVE  NobodyDoubleBooked'
<1>1. ASSUME NEW v \in Visit, NEW w \in Visit, v # w, NEW a \in Live(v)', NEW b \in Live(w)',
             a.day = b.day, Staffs(p, v), a.crew = tx[p].plan[v].crew, a.day = DayAfter(p, v)
      PROVE  a.crew \cap b.crew = {}
  <2>1. Clear(p, v, a.crew, a.day)
    BY <1>1 DEF AllClear, JudgedClear
  <2>2. CASE Staffs(p, w) /\ b.crew = tx[p].plan[w].crew /\ b.day = DayAfter(p, w)
    BY <1>1, <2>1, <2>2 DEF Clear, Apart
  <2>3. CASE tx[p].done[w] = "todo" /\ Booking(w, b.crew, b.day)
    BY <1>1, <2>1, <2>3 DEF Clear, Apart, Booking
  <2>4. QED
    BY <2>2, <2>3
<1>2. ASSUME NEW v \in Visit, NEW w \in Visit, v # w, NEW a \in Live(v)', NEW b \in Live(w)',
             a.day = b.day, Booking(v, a.crew, a.day), Booking(w, b.crew, b.day)
      PROVE  a.crew \cap b.crew = {}
  BY <1>2 DEF Booking, NobodyDoubleBooked
<1>3. ASSUME NEW v \in Visit, NEW w \in Visit, v # w, NEW a \in Live(v)', NEW b \in Live(w)', a.day = b.day
      PROVE  a.crew \cap b.crew = {}
  BY <1>1, <1>2, <1>3
<1>4. QED
  BY <1>3 DEF NobodyDoubleBooked

LEMMA BookedSolve ==
  ASSUME TypeInv, Locks, StillFound, AllClear, NobodyDoubleBooked, NEW r \in Run, SolveCommit(r)
  PROVE  NobodyDoubleBooked'
<1> USE DEF Proc
<1>1. HasCrew(r)
  BY DEF HasCrew, SolveCommit
<1>2. ASSUME NEW u \in Visit, NEW b \in Live(u)', u \notin tx[r].scope
      PROVE  tx[r].done[u] = "todo" /\ Booking(u, b.crew, b.day)
  <2>1. tx[r].done[u] = "todo"
    BY <1>2 DEF TypeInv, Shape, ShapeOf
  <2>2. Live(u)' = Live(u)
    BY <1>2, CommitFrame DEF Commit, Live
  <2>3. QED
    BY <2>1, <2>2, BookingOf
<1>3. QED
  BY <1>1, <1>2, SolvedLive, JudgedBookings

LEMMA BookedAssign ==
  ASSUME TypeInv, Locks, StillFound, AllClear, NobodyDoubleBooked, NEW m \in Manager, AssignCommit(m)
  PROVE  NobodyDoubleBooked'
<1> USE DEF Proc
<1>1. HasCrew(m) /\ tx[m].op = "assign"
  BY DEF HasCrew, AssignCommit, Ready
<1>2. Target(m) \in Visit /\ tx[m].scope = {Target(m)}
  BY <1>1, OneTarget
<1>3. ASSUME NEW u \in Visit, NEW b \in Live(u)', u \notin tx[m].scope
      PROVE  tx[m].done[u] = "todo" /\ Booking(u, b.crew, b.day)
  <2>1. tx[m].done[u] = "todo"
    BY <1>3 DEF TypeInv, Shape, ShapeOf
  <2>2. Live(u)' = Live(u)
    BY <1>3, CommitFrame DEF Commit, Live
  <2>3. QED
    BY <2>1, <2>2, BookingOf
<1>4. CASE tx[m].done[Target(m)] = "stayed"
  <2>1. ASSUME NEW u \in tx[m].scope, NEW b \in Live(u)'
        PROVE  Staffs(m, u) /\ b.crew = tx[m].plan[u].crew /\ b.day = DayAfter(m, u)
    <3> DEFINE lineage == IF Replaced(m, u) = {} THEN ByHand ELSE (CHOOSE a \in Replaced(m, u) : TRUE).run
               new == Draft(made[u] + 1, tx[m].plan[u].crew, visits[u].day, lineage, Unpinned)
    <3>0. u = Target(m) /\ u \in Visit
      BY <1>2
    <3>1. rows' = [rows EXCEPT ![u] = (@ \ Replaced(m, u)) \cup {new}]
      BY <1>4, <3>0 DEF AssignCommit
    <3>2. new.status = "DRAFT" /\ new.day = visits[u].day /\ new.crew = tx[m].plan[u].crew
      BY DraftFields
    <3> HIDE DEF new
    <3>3. rows'[u] = (rows[u] \ Replaced(m, u)) \cup {new}
      BY <3>0, <3>1 DEF TypeInv, TypeOK
    <3>4. tx[m].pc = "judged"
      BY DEF AssignCommit, Ready
    <3>5. SnapshotHolds(u, tx[m].ids[u])
      BY <1>1, <3>0, <3>4 DEF StillFound, Found
    <3>6. Live(u) = Replaced(m, u)
      BY <3>0, <3>5, ReplacedIsLive
    <3>7. Live(u)' = {new}
      BY <3>0, <3>2, <3>3, <3>6, LiveAfterDraft
    <3>8. QED
      BY <1>4, <3>0, <3>2, <3>7 DEF Staffs, DayAfter
  <2>2. QED
    BY <1>1, <1>3, <2>1, JudgedBookings
<1>5. CASE tx[m].done[Target(m)] = "unassigned"
  <2>1. rows' = rows
    BY <1>5 DEF AssignCommit
  <2>2. \A u \in Visit : Live(u)' = Live(u)
    BY <2>1 DEF Live
  <2>3. QED
    BY <2>2, BookingOf, SettledBookings
<1>6. QED
  BY <1>4, <1>5 DEF AssignCommit

LEMMA BookedAdjust ==
  ASSUME TypeInv, Locks, StillFound, AllClear, NobodyDoubleBooked, NEW m \in Manager, AdjustCommit(m)
  PROVE  NobodyDoubleBooked'
<1> USE DEF Proc
<1>1. HasCrew(m) /\ tx[m].op = "adjust"
  BY DEF HasCrew, AdjustCommit, Ready
<1>2. PICK v0 \in Visit : tx[m].scope = {v0}
  BY <1>1, OneTarget
<1>3. \A u \in Visit : tx[m].done[u] = "todo"
  BY <1>1 DEF TypeInv, Shape, ShapeOf
<1>4. \A u \in Visit \ {v0} : Live(u)' = Live(u)
  BY <1>2, CommitFrame DEF Commit, Live
<1>5. ASSUME NEW a \in Live(v0)', NEW w \in Visit \ {v0}, NEW b \in Live(w)', a.day = b.day
      PROVE  Apart(b.crew, a.crew)
  <2>1. PICK x \in Drafts(v0) : a.crew = x.crew /\ a.day = tx[m].plan[v0].day
    BY <1>2, AdjustedLive
  <2>2. Clear(m, v0, x.crew, tx[m].plan[v0].day)
    BY <1>1, <1>2, <2>1 DEF AllClear, JudgedClear
  <2>3. QED
    BY <1>3, <1>4, <1>5, <2>1, <2>2 DEF Clear
<1> SUFFICES ASSUME NEW v \in Visit, NEW w \in Visit, v # w, NEW a \in Live(v)', NEW b \in Live(w)',
                    a.day = b.day
             PROVE  a.crew \cap b.crew = {}
  BY DEF NobodyDoubleBooked
<1>6. CASE v = v0
  BY <1>5, <1>6 DEF Apart
<1>7. CASE w = v0
  BY <1>5, <1>7 DEF Apart
<1>8. CASE v # v0 /\ w # v0
  BY <1>4, <1>8 DEF NobodyDoubleBooked
<1>9. QED
  BY <1>6, <1>7, <1>8

LEMMA BookedInductive ==
  TypeInv /\ Locks /\ StillFound /\ AllClear /\ NobodyDoubleBooked /\ [Next]_vars => NobodyDoubleBooked'
<1> SUFFICES ASSUME TypeInv, Locks, StillFound, AllClear, NobodyDoubleBooked, [Next]_vars
             PROVE  NobodyDoubleBooked'
  OBVIOUS
<1> USE DEF Proc
<1>1. ASSUME rows' = rows PROVE NobodyDoubleBooked'
  <2>1. \A u \in Visit : Live(u)' = Live(u)
    BY <1>1 DEF Live
  <2>2. QED
    BY <2>1, BookingOf, SettledBookings
<1>2. ASSUME NEW p \in Proc, Commit(p) PROVE NobodyDoubleBooked'
  <2>1. CASE p \in Manager /\ (UnassignCommit(p) \/ PinCommit(p) \/ PublishCommit(p))
    <3>1. ASSUME NEW u \in Visit, NEW b \in Live(u)' PROVE Booking(u, b.crew, b.day)
      <4>1. CASE u \in tx[p].scope
        BY <2>1, <4>1, KeptLive
      <4>2. CASE u \notin tx[p].scope
        <5>1. Live(u)' = Live(u)
          BY <1>2, <4>2, CommitFrame DEF Live
        <5>2. QED
          BY <5>1, BookingOf
      <4>3. QED
        BY <4>1, <4>2
    <3>2. QED
      BY <3>1, SettledBookings
  <2>2. QED
    BY <1>2, <2>1, BookedSolve, BookedAssign, BookedAdjust DEF Commit
<1>3. ASSUME NEW p \in Proc, LockVisits(p) \/ Abort(p) \/ Opens(p) \/ Thinks(p) PROVE NobodyDoubleBooked'
  BY <1>1, <1>3, LockFrame, OpensFrame, ThinksFrame DEF Abort
<1>4. CASE OutsideEdit
  <2>1. ASSUME NEW v \in Visit, NEW locked \in BOOLEAN, SetLocked(v, locked) PROVE NobodyDoubleBooked'
    BY <1>1, <2>1 DEF SetLocked
  <2>2. ASSUME NEW v \in Visit, Withdraw(v) PROVE NobodyDoubleBooked'
    <3>1. PICK a \in rows[v] :
            rows' = [rows EXCEPT ![v] = (@ \ {a}) \cup {[a EXCEPT !.status = "SUPERSEDED"]}]
      BY <2>2 DEF Withdraw
    <3>2. a \in Row /\ [a EXCEPT !.status = "SUPERSEDED"].status = "SUPERSEDED"
      BY DEF TypeInv, TypeOK, Row
    <3>3. \A u \in Visit : \A x \in rows'[u] : x \in rows[u] \/ x.status = "SUPERSEDED"
      BY <3>1, <3>2 DEF TypeInv, TypeOK
    <3>4. \A u \in Visit : \A x \in Live(u)' : x \in Live(u)
      BY <3>3 DEF Live
    <3>5. QED
      BY <3>4, BookingOf, SettledBookings
  <2>3. QED
    BY <1>4, <2>1, <2>2 DEF OutsideEdit
<1>5. CASE UNCHANGED vars
  BY <1>1, <1>5 DEF vars
<1>6. QED
  BY <1>2, <1>3, <1>4, <1>5, Steps

-----------------------------------------------------------------------------
(* Theorems *)

(* The invariant: what each writer holds, what it found, and the board.     *)
WritersInv == TypeInv /\ Locks /\ StillFound /\ BoardInv /\ AllClear /\ NobodyDoubleBooked

LEMMA WritersInit == Init => WritersInv
<1> SUFFICES ASSUME Init PROVE WritersInv
  OBVIOUS
<1>1. TypeInv
  BY TypeInit, ShapeInit DEF TypeInv
<1>2. \A p \in Proc : tx[p].pc = "idle"
  BY DEF Init, Idle
<1>3. Locks /\ StillFound /\ AllClear
  BY <1>2 DEF Locks, Locked, HasCrew, StillFound, Found, AllClear, JudgedClear
<1>4. \A v \in Visit : Live(v) = {}
  BY DEF Init, Live
<1>5. BoardInv /\ NobodyDoubleBooked
  BY <1>4 DEF Init, BoardInv, BoardOf, NobodyDoubleBooked
<1>6. QED
  BY <1>1, <1>3, <1>5 DEF WritersInv

LEMMA WritersInductive == WritersInv /\ [Next]_vars => WritersInv'
  BY TypeInvInductive, LocksInductive, FoundInductive, BoardInductive, ClearInductive, BookedInductive
     DEF WritersInv

LEMMA WritersAlways == Spec => []WritersInv
  BY WritersInit, WritersInductive, PTL DEF Spec

(* However many solves, managers and repairs write at once, a visit never    *)
(* has two assignments in force (assertScheduleSnapshot under the row lock). *)
THEOREM OneAssignmentInForce == Spec => []OneLiveAssignment
<1>1. WritersInv => OneLiveAssignment
  BY DEF WritersInv, BoardInv, BoardOf, OneLiveAssignment
<1>2. QED
  BY <1>1, WritersAlways, PTL

(* Two writers that saw the same employee free never both book them: the     *)
(* shared employee locks and the re-judgement under them are enough, for any *)
(* number of visits, employees, days, runs and managers.                     *)
THEOREM NobodyInTwoPlaces == Spec => []NobodyDoubleBooked
<1>1. WritersInv => NobodyDoubleBooked
  BY DEF WritersInv
<1>2. QED
  BY <1>1, WritersAlways, PTL

(* A crew is due on the day its visit stands on, and the queue entry agrees  *)
(* with the assignments, after every commit of every writer.                 *)
THEOREM BoardAgrees == Spec => []BoardTellsTheTruth
<1>1. WritersInv => BoardTellsTheTruth
  BY DEF WritersInv, BoardInv, BoardOf, BoardTellsTheTruth, OneLiveAssignment
<1>2. QED
  BY <1>1, WritersAlways, PTL

-----------------------------------------------------------------------------
(* The writers implement the board. *)

(* Nobody is ever told of an assignment without a crew. *)
Staffed == \A v \in Visit : \A a \in Live(v) : a.crew # {}

LEMMA StaffedInductive == WritersInv /\ Staffed /\ [Next]_vars => Staffed'
<1> SUFFICES ASSUME WritersInv, Staffed, [Next]_vars, NEW v \in Visit, NEW b \in Live(v)'
             PROVE  b.crew # {}
  BY DEF Staffed
<1> USE DEF Proc
<1>1. ASSUME Booking(v, b.crew, b.day) PROVE b.crew # {}
  BY <1>1 DEF Booking, Staffed
<1>2. ASSUME rows'[v] = rows[v] PROVE b.crew # {}
  BY <1>2 DEF Live, Staffed
<1>3. ASSUME NEW p \in Proc, Staffs(p, v) PROVE tx[p].plan[v].crew # {}
  <2>1. tx[p].done[v] # "todo" /\ ShapeOf(p, tx[p])
    BY <1>3 DEF Staffs, WritersInv, TypeInv, Shape
  <2>2. QED
    BY <2>1 DEF ShapeOf
<1>4. ASSUME NEW p \in Proc, Commit(p) PROVE b.crew # {}
  <2>1. CASE v \notin tx[p].scope
    BY <1>2, <1>4, <2>1, CommitFrame DEF WritersInv
  <2>2. CASE v \in tx[p].scope /\ p \in Run /\ SolveCommit(p)
    BY <1>3, <2>2, SolvedLive DEF WritersInv
  <2>3. CASE v \in tx[p].scope /\ p \in Manager /\ AssignCommit(p)
    BY <1>3, <2>3, AssignedLive DEF WritersInv, Staffed
  <2>4. CASE v \in tx[p].scope /\ p \in Manager /\ AdjustCommit(p)
    <3>1. PICK a \in Drafts(v) : b.crew = a.crew
      BY <2>4, AdjustedLive DEF WritersInv
    <3>2. QED
      BY <3>1 DEF Drafts, Live, Staffed
  <2>5. CASE v \in tx[p].scope /\ p \in Manager /\ (UnassignCommit(p) \/ PinCommit(p) \/ PublishCommit(p))
    BY <1>1, <2>5, KeptLive DEF WritersInv
  <2>6. QED
    BY <1>4, <2>1, <2>2, <2>3, <2>4, <2>5 DEF Commit
<1>5. ASSUME NEW p \in Proc, LockVisits(p) \/ Abort(p) \/ Opens(p) \/ Thinks(p) PROVE b.crew # {}
  BY <1>2, <1>5, LockFrame, OpensFrame, ThinksFrame DEF Abort, WritersInv
<1>6. CASE OutsideEdit
  <2>1. ASSUME NEW w \in Visit, NEW locked \in BOOLEAN, SetLocked(w, locked) PROVE b.crew # {}
    BY <1>2, <2>1 DEF SetLocked
  <2>2. ASSUME NEW w \in Visit, Withdraw(w) PROVE b.crew # {}
    <3>1. PICK a \in rows[w] :
            rows' = [rows EXCEPT ![w] = (@ \ {a}) \cup {[a EXCEPT !.status = "SUPERSEDED"]}]
      BY <2>2 DEF Withdraw
    <3>2. a \in Row /\ [a EXCEPT !.status = "SUPERSEDED"].status = "SUPERSEDED"
      BY DEF WritersInv, TypeInv, TypeOK, Row
    <3>3. \A x \in rows'[v] : x \in rows[v] \/ x.status = "SUPERSEDED"
      BY <3>1, <3>2 DEF WritersInv, TypeInv, TypeOK
    <3>4. QED
      BY <3>3 DEF Live, Staffed
  <2>3. QED
    BY <1>6, <2>1, <2>2 DEF OutsideEdit
<1>7. CASE UNCHANGED vars
  BY <1>2, <1>7 DEF vars
<1>8. QED
  BY <1>4, <1>5, <1>6, <1>7, Steps

IsTold(v) == \E a \in rows[v] : a.status = "PUBLISHED"

LEMMA BoardTypes ==
  ASSUME TypeInv
  PROVE  BoardDay \in [Visit -> Day] /\ BoardCrew \in [Visit -> SUBSET Employee]
<1>1. \A v \in Visit : visits[v].day \in Day
  BY DEF TypeInv, TypeOK
<1>2. \A v \in Visit : UNION {a.crew : a \in Live(v)} \subseteq Employee
  BY DEF TypeInv, TypeOK, Live, Row
<1>3. QED
  BY <1>1, <1>2 DEF BoardDay, BoardCrew

LEMMA BoardConsistent == WritersInv => Board!Consistent
<1> SUFFICES ASSUME WritersInv, NEW v \in Visit, NEW w \in Visit, v # w, visits[v].day = visits[w].day,
                    NEW e, \E a \in Live(v) : e \in a.crew, \E b \in Live(w) : e \in b.crew
             PROVE  FALSE
  BY DEF Board!Consistent, BoardDay, BoardCrew
<1>1. PICK a \in Live(v) : e \in a.crew
  OBVIOUS
<1>2. PICK b \in Live(w) : e \in b.crew
  OBVIOUS
<1>3. a.day = b.day
  BY DEF WritersInv, BoardInv, BoardOf
<1>4. a.crew \cap b.crew = {}
  BY <1>3 DEF WritersInv, NobodyDoubleBooked
<1>5. QED
  BY <1>1, <1>2, <1>4

(* A commit on visits nobody was told about, which tells nobody. *)
LEMMA RewriteStep ==
  ASSUME WritersInv, WritersInv', NEW p \in Proc, Commit(p),
         \A v \in tx[p].scope : ~ IsTold(v) /\ ~ IsTold(v)'
  PROVE  Board!Rewrite
<1>1. \A v \in Visit \ tx[p].scope : rows'[v] = rows[v] /\ visits'[v] = visits[v]
  BY CommitFrame DEF WritersInv
<1>2. \A v \in Visit \ tx[p].scope : Live(v)' = Live(v) /\ (IsTold(v)' <=> IsTold(v))
  BY <1>1 DEF Live, IsTold
<1>3. Told' = Told
  BY <1>2 DEF Told, IsTold
<1>4. (BoardDay \in [Visit -> Day] /\ BoardCrew \in [Visit -> SUBSET Employee])'
  BY BoardTypes, PTL DEF WritersInv
<1>5. ASSUME NEW v \in Told PROVE BoardDay'[v] = BoardDay[v] /\ BoardCrew'[v] = BoardCrew[v]
  <2>1. v \in Visit \ tx[p].scope
    BY DEF Told, IsTold
  <2>2. QED
    BY <1>1, <1>2, <2>1 DEF BoardDay, BoardCrew
<1>6. Board!Consistent'
  BY BoardConsistent, PTL
<1>7. QED
  BY <1>3, <1>4, <1>5, <1>6 DEF Board!Rewrite

LEMMA SameCrew ==
  ASSUME NEW v \in Visit,
         \A b \in Live(v)' : \E a \in Live(v) : a.crew = b.crew,
         \A a \in Live(v) : \E b \in Live(v)' : a.crew = b.crew
  PROVE  (UNION {a.crew : a \in Live(v)})' = UNION {a.crew : a \in Live(v)}
  OBVIOUS

LEMMA RowMap ==
  ASSUME NEW v \in Visit, NEW f, rows'[v] = {f[a] : a \in rows[v]},
         \A a \in rows[v] : f[a].crew = a.crew /\ (f[a].status \in InForce <=> a.status \in InForce)
  PROVE  (UNION {a.crew : a \in Live(v)})' = UNION {a.crew : a \in Live(v)}
<1>1. \A b \in Live(v)' : \E a \in Live(v) : a.crew = b.crew
  BY DEF Live, InForce
<1>2. \A a \in Live(v) : f[a] \in Live(v)' /\ a.crew = f[a].crew
  BY DEF Live, InForce
<1>3. QED
  BY <1>1, <1>2, SameCrew

LEMMA TellStep ==
  ASSUME WritersInv, Staffed', NEW m \in Manager, PublishCommit(m)
  PROVE  Board!Tell
<1> USE DEF Proc
<1>0. Commit(m) /\ visits' = visits /\ tx[m].op = "publish" /\ tx[m].pc = "judged" /\ tx[m].scope \subseteq Visit
  BY DEF Commit, PublishCommit, Ready, WritersInv, TypeInv, TypeOK, Tx
<1>1. BoardDay' = BoardDay
  BY <1>0 DEF BoardDay
<1>2. ASSUME NEW v \in tx[m].scope
      PROVE  /\ (UNION {a.crew : a \in Live(v)})' = UNION {a.crew : a \in Live(v)}
             /\ IsTold(v)'
  <2> DEFINE out(a) == IF a \in Replaced(m, v) THEN [a EXCEPT !.status = "PUBLISHED"]
                       ELSE IF a.status = "PUBLISHED" THEN [a EXCEPT !.status = "SUPERSEDED"] ELSE a
             f == [a \in rows[v] |-> out(a)]
  <2>0. v \in Visit /\ BoardOf(v) /\ rows[v] \subseteq Row
    BY <1>0 DEF WritersInv, TypeInv, TypeOK, BoardInv
  <2>1. Replaced(m, v) # {} /\ Replaced(m, v) \subseteq Live(v)
    BY <1>0, <2>0 DEF WritersInv, StillFound, Found, Replaced, Drafts, Live
  <2>2. rows'[v] = {out(a) : a \in rows[v]}
    BY <2>0 DEF PublishCommit
  <2>3. \A a \in rows[v] : a.status \in InForce <=> a \in Live(v)
    BY DEF Live, InForce
  <2>4. Live(v) = Replaced(m, v)
    BY <2>0, <2>1 DEF BoardOf
  <2>5. \A a \in rows[v] : (out(a).status \in InForce <=> a.status \in InForce) /\ out(a).crew = a.crew
    BY <2>0, <2>3, <2>4 DEF Row, InForce
  <2>6. \A a \in Replaced(m, v) : out(a).status = "PUBLISHED" /\ out(a) \in rows'[v]
    BY <2>0, <2>1, <2>2 DEF Row, Live
  <2> HIDE DEF out
  <2>7. rows'[v] = {f[a] : a \in rows[v]}
    BY <2>2
  <2>75. \A a \in rows[v] : f[a].crew = a.crew /\ (f[a].status \in InForce <=> a.status \in InForce)
    BY <2>5
  <2> HIDE DEF f
  <2>8. (UNION {a.crew : a \in Live(v)})' = UNION {a.crew : a \in Live(v)}
    BY <2>0, <2>7, <2>75, RowMap
  <2>9. IsTold(v)'
    BY <2>1, <2>6 DEF IsTold
  <2>10. QED
    BY <2>8, <2>9
<1>3. \A v \in Visit \ tx[m].scope : rows'[v] = rows[v] /\ Live(v)' = Live(v)
  BY <1>0, CommitFrame DEF WritersInv, Live
<1>4. ASSUME NEW v \in Visit PROVE (UNION {a.crew : a \in Live(v)})' = UNION {a.crew : a \in Live(v)}
  BY <1>2, <1>3
<1>5. BoardCrew' = BoardCrew
  BY <1>4 DEF BoardCrew
<1>6. Told \subseteq Told'
  BY <1>2, <1>3 DEF Told, IsTold
<1>7. ASSUME NEW v \in Told' PROVE BoardCrew[v] # {}
  <2>1. v \in Visit /\ IsTold(v)'
    BY DEF Told, IsTold
  <2>2. BoardCrew'[v] # {}
    <3>1. PICK a \in rows'[v] : a.status = "PUBLISHED"
      BY <2>1 DEF IsTold
    <3>2. a \in Live(v)'
      BY <3>1 DEF Live
    <3>3. a.crew # {}
      BY <2>1, <3>2 DEF Staffed
    <3>4. QED
      BY <2>1, <3>2, <3>3 DEF BoardCrew
  <2>3. QED
    BY <1>5, <2>2
<1>8. Told' \subseteq Visit
  BY DEF Told
<1>9. QED
  BY <1>1, <1>5, <1>6, <1>7, <1>8 DEF Board!Tell

LEMMA RewritesUntold ==
  ASSUME WritersInv, NEW p \in Proc, Commit(p), ~ (p \in Manager /\ (PinCommit(p) \/ PublishCommit(p))),
         NEW v \in tx[p].scope
  PROVE  ~ IsTold(v) /\ ~ IsTold(v)'
<1> USE DEF Proc
<1>0. v \in Visit /\ rows[v] \subseteq Row /\ Locked(p) /\ rows = [w \in Visit |-> rows[w]]
  BY CommitFrame DEF WritersInv, TypeInv, TypeOK, Tx
<1>1. ASSUME ~ IsTold(v), rows'[v] \subseteq rows[v] PROVE ~ IsTold(v)'
  BY <1>1 DEF IsTold
<1>2. ASSUME Unpublished(v) PROVE ~ IsTold(v)
  BY <1>2 DEF IsTold, Unpublished, History
<1>3. ASSUME ~ IsTold(v), \A b \in rows'[v] : b \in rows[v] \/ b.status # "PUBLISHED" PROVE ~ IsTold(v)'
  BY <1>3 DEF IsTold
<1>4. CASE p \in Run /\ SolveCommit(p)
  <2>1. Unpublished(v)
    BY <1>4 DEF SolveCommit, WritersInv, StillFound, Found, EntryStands, SnapshotHolds
  <2>2. \A a \in rows[v] : [a EXCEPT !.status = "CANCELLED"].status # "PUBLISHED"
    BY <1>0 DEF Row
  <2>3. Replaced(p, v) \subseteq rows[v]
    BY DEF Replaced, Drafts
  <2>4. \A b \in rows'[v] : b \in rows[v] \/ b.status # "PUBLISHED"
    <3>1. CASE Staffs(p, v)
      <4>1. rows'[v] = (rows[v] \ Replaced(p, v)) \cup
                   {Draft(made[v] + 1, tx[p].plan[v].crew, DayAfter(p, v), p, Inherited(p, v))}
        BY <1>0, <1>4, <3>1 DEF SolveCommit
      <4>2. QED
        BY <4>1, DraftFields
    <3>2. CASE ~ Staffs(p, v)
      <4>1. rows'[v] = (rows[v] \ Replaced(p, v)) \cup {[a EXCEPT !.status = "CANCELLED"] : a \in Replaced(p, v)}
        BY <1>0, <1>4, <3>2 DEF SolveCommit
      <4>2. QED
        BY <2>2, <2>3, <4>1
    <3>3. QED
      BY <3>1, <3>2
  <2>5. QED
    BY <1>2, <1>3, <2>1, <2>4
<1>5. CASE p \in Manager /\ AssignCommit(p)
  <2>0. tx[p].op = "assign" /\ tx[p].pc = "judged"
    BY <1>5 DEF AssignCommit, Ready
  <2>00. v = Target(p)
    BY <1>5, <2>0, OneTarget DEF WritersInv
  <2>1. Unpublished(v)
    BY <2>0 DEF WritersInv, StillFound, Found, SnapshotHolds
  <2> DEFINE lineage == IF Replaced(p, v) = {} THEN ByHand ELSE (CHOOSE a \in Replaced(p, v) : TRUE).run
             new == Draft(made[v] + 1, tx[p].plan[v].crew, visits[v].day, lineage, Unpinned)
  <2>2. \/ rows' = [rows EXCEPT ![v] = (@ \ Replaced(p, v)) \cup {new}]
        \/ rows' = rows
    BY <1>5, <2>00 DEF AssignCommit
  <2>3. new.status = "DRAFT"
    BY DraftFields
  <2> HIDE DEF new
  <2>4. \A b \in rows'[v] : b \in rows[v] \/ b.status # "PUBLISHED"
    BY <1>0, <2>2, <2>3
  <2>5. QED
    BY <1>2, <1>3, <2>1, <2>4
<1>6. CASE p \in Manager /\ UnassignCommit(p)
  <2>0. tx[p].op = "unassign" /\ tx[p].pc = "checked"
    BY <1>6 DEF UnassignCommit, Ready
  <2>1. Unpublished(v)
    BY <2>0 DEF WritersInv, StillFound, Found, SnapshotHolds
  <2>2. rows'[v] \subseteq rows[v]
    BY <1>0, <1>6 DEF UnassignCommit
  <2>3. QED
    BY <1>1, <1>2, <2>1, <2>2
<1>7. CASE p \in Manager /\ AdjustCommit(p)
  <2>0. tx[p].op = "adjust" /\ tx[p].pc = "judged"
    BY <1>7 DEF AdjustCommit, Ready
  <2>00. v = Target(p)
    BY <1>7, <2>0, OneTarget DEF WritersInv
  <2>1. Unpublished(v)
    BY <2>0 DEF WritersInv, StillFound, Found
  <2>2. rows'[v] = {IF a \in Drafts(v) THEN Shifted(a, tx[p].plan[v].day) ELSE a : a \in rows[v]}
    BY <1>0, <1>7, <2>00 DEF AdjustCommit
  <2>3. \A a \in Drafts(v) : Shifted(a, tx[p].plan[v].day).status # "PUBLISHED"
    BY <1>0 DEF Drafts, Shifted, Row
  <2>4. \A b \in rows'[v] : b \in rows[v] \/ b.status # "PUBLISHED"
    BY <2>2, <2>3
  <2>5. QED
    BY <1>2, <1>3, <2>1, <2>4
<1>8. QED
  BY <1>4, <1>5, <1>6, <1>7 DEF Commit

LEMMA PinStutter ==
  ASSUME WritersInv, NEW m \in Manager, PinCommit(m)
  PROVE  UNCHANGED <<BoardDay, BoardCrew, Told>>
<1> USE DEF Proc
<1>0. tx[m].op \in {"pin", "unpin"}
  BY DEF PinCommit, Ready
<1>1. Target(m) \in Visit
  BY <1>0, OneTarget DEF WritersInv
<1>2. PICK v \in Visit : v = Target(m)
  BY <1>1
<1>3. rows[v] \subseteq Row /\ rows = [w \in Visit |-> rows[w]] /\ visits \in [Visit -> VisitRow]
  BY DEF WritersInv, TypeInv, TypeOK, VisitRow
<1> DEFINE held == tx[m].op = "pin"
           pinned(a) == [a EXCEPT !.pins[tx[m].pin] = [held |-> held, rev |-> @.rev + 1]]
           f == [a \in rows[v] |-> IF a \in Row0(m) THEN pinned(a) ELSE a]
<1>4. rows' = [rows EXCEPT ![v] = {IF a \in Row0(m) THEN pinned(a) ELSE a : a \in @}]
      /\ visits' = [visits EXCEPT ![v].rev = @ + 1]
  BY <1>2 DEF PinCommit
<1>5. \A a \in Row : pinned(a).status = a.status /\ pinned(a).crew = a.crew
  BY DEF Row
<1> HIDE DEF pinned
<1>6. rows'[v] = {f[a] : a \in rows[v]}
  BY <1>3, <1>4
<1>7. \A a \in rows[v] : f[a].crew = a.crew /\ f[a].status = a.status
  BY <1>3, <1>5
<1> HIDE DEF f
<1>8. (UNION {a.crew : a \in Live(v)})' = UNION {a.crew : a \in Live(v)}
  BY <1>6, <1>7, RowMap
<1>9. \A w \in Visit \ {v} : rows'[w] = rows[w] /\ Live(w)' = Live(w)
  BY <1>3, <1>4 DEF Live
<1>10. ASSUME NEW w \in Visit
       PROVE  (UNION {a.crew : a \in Live(w)})' = UNION {a.crew : a \in Live(w)} /\ (IsTold(w)' <=> IsTold(w))
  BY <1>6, <1>7, <1>8, <1>9 DEF IsTold
<1>11. BoardCrew' = BoardCrew /\ Told' = Told
  BY <1>10 DEF BoardCrew, Told, IsTold
<1>12. BoardDay' = BoardDay
  BY <1>3, <1>4 DEF BoardDay, VisitRow
<1>13. QED
  BY <1>11, <1>12

LEMMA WithdrawStep ==
  ASSUME WritersInv, NEW v \in Visit, Withdraw(v)
  PROVE  Board!Withdraw
<1>0. rows = [w \in Visit |-> rows[w]] /\ visits \in [Visit -> VisitRow] /\ BoardOf(v)
  BY DEF WritersInv, TypeInv, TypeOK, VisitRow, BoardInv
<1>1. PICK a \in rows[v] : a.status = "PUBLISHED" /\
        rows' = [rows EXCEPT ![v] = (@ \ {a}) \cup {[a EXCEPT !.status = "SUPERSEDED"]}]
  BY DEF Withdraw
<1>2. a \in Row /\ [a EXCEPT !.status = "SUPERSEDED"].status = "SUPERSEDED"
  BY DEF WritersInv, TypeInv, TypeOK, Row
<1>3. Live(v) = {a}
  BY <1>0, <1>1 DEF BoardOf, Live
<1>4. rows'[v] = (rows[v] \ {a}) \cup {[a EXCEPT !.status = "SUPERSEDED"]}
  BY <1>0, <1>1
<1>5. Live(v)' = {} /\ ~ IsTold(v)' /\ IsTold(v)
  BY <1>1, <1>2, <1>3, <1>4 DEF Live, IsTold
<1>6. \A w \in Visit \ {v} : rows'[w] = rows[w] /\ Live(w)' = Live(w) /\ (IsTold(w)' <=> IsTold(w))
  BY <1>0, <1>1 DEF Live, IsTold
<1>7. Told' \subseteq Told /\ Told \ Told' = {v}
  BY <1>5, <1>6 DEF Told, IsTold
<1>8. \A w \in Visit : BoardCrew'[w] = IF w \in Told \ Told' THEN {} ELSE BoardCrew[w]
  BY <1>5, <1>6, <1>7 DEF BoardCrew
<1>9. visits' = [visits EXCEPT ![v].status = "UNASSIGNED", ![v].reason = visits[v].day, ![v].rev = @ + 1]
  BY DEF Withdraw
<1>10. \A w \in Visit : visits'[w].day = visits[w].day
  BY <1>0, <1>9 DEF VisitRow
<1>11. BoardDay' = BoardDay
  BY <1>10 DEF BoardDay
<1>12. QED
  BY <1>7, <1>8, <1>11 DEF Board!Withdraw

LEMMA BoardNext ==
  WritersInv /\ WritersInv' /\ Staffed' /\ [Next]_vars =>
    [Board!Rewrite \/ Board!Tell \/ Board!Withdraw]_(Board!board)
<1> SUFFICES ASSUME WritersInv, WritersInv', Staffed', [Next]_vars
             PROVE  Board!Rewrite \/ Board!Tell \/ Board!Withdraw \/ UNCHANGED <<BoardDay, BoardCrew, Told>>
  BY DEF Board!board
<1> USE DEF Proc
<1>1. ASSUME rows' = rows, \A v \in Visit : visits'[v].day = visits[v].day
      PROVE  UNCHANGED <<BoardDay, BoardCrew, Told>>
  <2>1. \A v \in Visit : Live(v)' = Live(v)
    BY <1>1 DEF Live
  <2>2. QED
    BY <1>1, <2>1 DEF BoardDay, BoardCrew, Told
<1>2. ASSUME NEW p \in Proc, LockVisits(p) \/ Abort(p) \/ Opens(p) \/ Thinks(p)
      PROVE  UNCHANGED <<BoardDay, BoardCrew, Told>>
  BY <1>1, <1>2, LockFrame, OpensFrame, ThinksFrame DEF Abort, WritersInv
<1>3. ASSUME NEW p \in Proc, Commit(p)
      PROVE  Board!Rewrite \/ Board!Tell \/ UNCHANGED <<BoardDay, BoardCrew, Told>>
  <2>1. CASE p \in Manager /\ PinCommit(p)
    BY <2>1, PinStutter
  <2>2. CASE p \in Manager /\ PublishCommit(p)
    BY <2>2, TellStep
  <2>3. CASE ~ (p \in Manager /\ (PinCommit(p) \/ PublishCommit(p)))
    BY <1>3, <2>3, RewritesUntold, RewriteStep
  <2>4. QED
    BY <2>1, <2>2, <2>3
<1>4. CASE OutsideEdit
  <2>1. ASSUME NEW v \in Visit, NEW locked \in BOOLEAN, SetLocked(v, locked)
        PROVE  UNCHANGED <<BoardDay, BoardCrew, Told>>
    <3>1. visits \in [Visit -> VisitRow]
      BY DEF WritersInv, TypeInv, TypeOK, VisitRow
    <3>2. rows' = rows /\ \A w \in Visit : visits'[w].day = visits[w].day
      BY <2>1, <3>1 DEF SetLocked, VisitRow
    <3>3. QED
      BY <1>1, <3>2
  <2>2. ASSUME NEW v \in Visit, Withdraw(v) PROVE Board!Withdraw
    BY <2>2, WithdrawStep
  <2>3. QED
    BY <1>4, <2>1, <2>2 DEF OutsideEdit
<1>5. CASE UNCHANGED vars
  BY <1>1, <1>5 DEF vars
<1>6. QED
  BY <1>2, <1>3, <1>4, <1>5, Steps

(* The solver's save, the managers' transactions, publication and repair are *)
(* each one atomic step of the board, or none, whatever is interleaved with  *)
(* them: the board is consistent and what a crew was told is only withdrawn. *)
THEOREM WritersImplementBoard == Spec => ImplementsBoard
<1>1. Init => Board!BoardInit
  <2> SUFFICES ASSUME Init PROVE Board!BoardInit
    OBVIOUS
  <2>1. \A v \in Visit : Live(v) = {} /\ visits[v].day = FirstDay[v] /\ rows[v] = {}
    BY DEF Init, Live
  <2>2. BoardDay \in [Visit -> Day]
    BY <2>1, WriterAssumption DEF BoardDay
  <2>3. BoardCrew = [v \in Visit |-> {}] /\ Told = {}
    BY <2>1 DEF BoardCrew, Told
  <2>4. QED
    BY <2>2, <2>3 DEF Board!BoardInit
<1>2. Init => Staffed
  BY DEF Init, Staffed, Live
<1>3. Spec => [](WritersInv /\ Staffed)
  BY <1>2, WritersInit, WritersInductive, StaffedInductive, PTL DEF Spec
<1>4. QED
  BY <1>1, <1>3, BoardNext, PTL DEF Spec, ImplementsBoard, Board!BoardSpec

-----------------------------------------------------------------------------
(* What writers leave behind.  The first part: no writer overwrites what      *)
(* it did not read, changes what a crew was told, moves a day a manager       *)
(* chose or drops a pinned crew; each follows from what the writers found     *)
(* under their locks (StillFound).  The second: a published run says the      *)
(* truth about itself and nothing is added to it afterwards, and the days it  *)
(* moved work to can carry it.                                                *)

(* Nothing that happens outside a transaction touches a visit's date, or a    *)
(* draft.                                                                     *)
LEMMA OutsideKeeps ==
  ASSUME WritersInv, OutsideEdit, NEW v \in Visit
  PROVE  /\ visits'[v].day = visits[v].day
         /\ \A a \in Drafts(v) : a \in Drafts(v)'
         /\ \A a \in History(v) : \E b \in rows'[v] :
              b.id = a.id /\ b.crew = a.crew /\ b.day = a.day /\ b.status \in {"PUBLISHED", "SUPERSEDED"}
<1>0. rows = [w \in Visit |-> rows[w]] /\ visits \in [Visit -> VisitRow] /\ rows[v] \subseteq Row
  BY DEF WritersInv, TypeInv, TypeOK, VisitRow
<1>1. ASSUME NEW w \in Visit, NEW locked \in BOOLEAN, SetLocked(w, locked)
      PROVE  rows' = rows /\ visits'[v].day = visits[v].day
  BY <1>0, <1>1 DEF SetLocked, VisitRow
<1>2. ASSUME NEW w \in Visit, Withdraw(w)
      PROVE  /\ visits'[v].day = visits[v].day
             /\ \A a \in Drafts(v) : a \in Drafts(v)'
             /\ \A a \in History(v) : \E b \in rows'[v] :
                  b.id = a.id /\ b.crew = a.crew /\ b.day = a.day /\ b.status \in {"PUBLISHED", "SUPERSEDED"}
  <2>1. visits' = [visits EXCEPT ![w].status = "UNASSIGNED", ![w].reason = visits[w].day, ![w].rev = @ + 1]
    BY <1>2 DEF Withdraw
  <2>2. visits'[v].day = visits[v].day
    BY <1>0, <2>1 DEF VisitRow
  <2>3. PICK x \in rows[w] : x.status = "PUBLISHED" /\
          rows' = [rows EXCEPT ![w] = (@ \ {x}) \cup {[x EXCEPT !.status = "SUPERSEDED"]}]
    BY <1>2 DEF Withdraw
  <2>4. x \in Row
    BY DEF WritersInv, TypeInv, TypeOK
  <2> DEFINE y == [x EXCEPT !.status = "SUPERSEDED"]
  <2>5. y.status = "SUPERSEDED" /\ y.id = x.id /\ y.crew = x.crew /\ y.day = x.day
    BY <2>4 DEF Row
  <2> HIDE DEF y
  <2>6. \A a \in rows[v] : a # x => a \in rows'[v]
    BY <1>0, <2>3 DEF y
  <2>7. \A a \in Drafts(v) : a \in Drafts(v)'
    BY <2>3, <2>6 DEF Drafts
  <2>8. w = v => y \in rows'[v]
    BY <1>0, <2>3 DEF y
  <2>9. w # v => rows'[v] = rows[v]
    BY <1>0, <2>3
  <2>10. \A a \in History(v) : \E b \in rows'[v] :
           b.id = a.id /\ b.crew = a.crew /\ b.day = a.day /\ b.status \in {"PUBLISHED", "SUPERSEDED"}
    BY <2>5, <2>6, <2>8, <2>9 DEF History
  <2>11. QED
    BY <2>2, <2>7, <2>10
<1>3. CASE \E w \in Visit, locked \in BOOLEAN : SetLocked(w, locked)
  <2>1. rows' = rows /\ visits'[v].day = visits[v].day
    BY <1>1, <1>3
  <2>2. QED
    BY <2>1 DEF Drafts, History
<1>4. QED
  BY <1>2, <1>3 DEF OutsideEdit

(* A solve writes what it proposed, where it found what it had read. *)
LEMMA SolveLands ==
  ASSUME WritersInv, NEW r \in Run, SolveCommit(r), NEW v \in tx[r].scope
  PROVE  /\ EntryStands(r, v) /\ v \in Visit /\ r \in Proc
         /\ visits'[v].day = DayAfter(r, v)
         /\ DayAfter(r, v) # visits[v].day => Moves(r, v)
<1> USE DEF Proc
<1>0. v \in Visit /\ tx[r].pc = "days" /\ visits[v] \in VisitRow
  BY DEF WritersInv, TypeInv, TypeOK, Tx, VisitRow, SolveCommit
<1>1. EntryStands(r, v)
  BY <1>0 DEF WritersInv, StillFound, Found
<1>2. visits'[v] = [visits[v] EXCEPT !.rev = @ + 1,
                              !.status = IF Staffs(r, v) THEN "SCHEDULED" ELSE "UNASSIGNED",
                              !.day = DayAfter(r, v),
                              !.reason = IF Staffs(r, v) THEN None ELSE visits[v].day]
  BY <1>0 DEF SolveCommit
<1>3. visits'[v].day = DayAfter(r, v)
  BY <1>0, <1>2 DEF VisitRow
<1>4. ASSUME DayAfter(r, v) # visits[v].day PROVE Moves(r, v)
  <2>1. tx[r].done[v] = "moved" /\ tx[r].plan[v].day # visits[v].day
    BY <1>4 DEF DayAfter
  <2>2. tx[r].plan[v].kind = "assign"
    BY <1>0, <2>1 DEF WritersInv, TypeInv, Shape, ShapeOf
  <2>3. QED
    BY <2>1, <2>2 DEF Moves
<1>5. QED
  BY <1>0, <1>1, <1>3, <1>4

(* A request about one visit moves it only when it is a hand edit. *)
LEMMA OnlyAdjustMoves ==
  ASSUME WritersInv, NEW m \in Manager, Commit(m), NEW v \in Visit, visits'[v].day # visits[v].day
  PROVE  AdjustCommit(m) /\ v \in tx[m].scope /\ tx[m].op = "adjust"
<1> USE DEF Proc
<1>0. visits \in [Visit -> VisitRow]
  BY DEF WritersInv, TypeInv, TypeOK, VisitRow
<1>1. v \in tx[m].scope
  BY CommitFrame DEF WritersInv
<1>2. ~ SolveCommit(m) \/ m \notin Run
  BY WriterAssumption
<1>3. ASSUME AssignCommit(m) PROVE FALSE
  <2>1. \/ visits' = [visits EXCEPT ![Target(m)].status = "SCHEDULED", ![Target(m)].reason = None, ![Target(m)].rev = @ + 1]
        \/ visits' = visits
        \/ visits' = [visits EXCEPT ![Target(m)].status = "UNASSIGNED", ![Target(m)].reason = visits[Target(m)].day,
                                    ![Target(m)].rev = @ + 1]
    BY <1>3 DEF AssignCommit
  <2>2. QED
    BY <1>0, <2>1 DEF VisitRow
<1>4. ASSUME UnassignCommit(m) PROVE FALSE
  BY <1>0, <1>4 DEF UnassignCommit, VisitRow
<1>5. ASSUME PinCommit(m) PROVE FALSE
  BY <1>0, <1>5 DEF PinCommit, VisitRow
<1>6. ASSUME PublishCommit(m) PROVE FALSE
  BY <1>6 DEF PublishCommit
<1>7. AdjustCommit(m)
  BY <1>2, <1>3, <1>4, <1>5, <1>6 DEF Commit
<1>8. QED
  BY <1>1, <1>7 DEF AdjustCommit, Ready

(* A day a manager chose, locked or pinned changes only by a hand edit, also   *)
(* when a solve that began before it commits after it.                         *)
THEOREM HandDatesAreKept == Spec => HandDatesHold
<1>1. WritersInv /\ [Next]_vars =>
        [\A v \in Visit :
           (visits[v].adjusted \/ visits[v].locked \/ \E a \in Drafts(v) : TimePinned(a))
           /\ visits'[v].day # visits[v].day =>
             \E m \in Manager : Committing(m, "adjust") /\ v \in tx[m].scope]_vars
  <2> SUFFICES ASSUME WritersInv, [Next]_vars, NEW v \in Visit,
                      visits[v].adjusted \/ visits[v].locked \/ \E a \in Drafts(v) : TimePinned(a),
                      visits'[v].day # visits[v].day
               PROVE  \E m \in Manager : Committing(m, "adjust") /\ v \in tx[m].scope
    OBVIOUS
  <2> USE DEF Proc
  <2>1. \E p \in Proc : Commit(p)
    <3>1. ASSUME NEW p \in Proc, LockVisits(p) \/ Abort(p) \/ Opens(p) \/ Thinks(p) PROVE FALSE
      BY <3>1, LockFrame, OpensFrame, ThinksFrame DEF Abort, WritersInv
    <3>2. ~ OutsideEdit
      BY OutsideKeeps
    <3>3. ~ UNCHANGED vars
      BY DEF vars
    <3>4. QED
      BY <3>1, <3>2, <3>3, Steps
  <2>2. PICK p \in Proc : Commit(p)
    BY <2>1
  <2>3. v \in tx[p].scope
    BY <2>2, CommitFrame DEF WritersInv
  <2>4. CASE p \in Run /\ SolveCommit(p)
    <3>1. EntryStands(p, v) /\ Moves(p, v)
      BY <2>3, <2>4, SolveLands
    <3>2. tx[p].plan[v].kind = "assign"
      BY <3>1 DEF Moves
    <3>3. QED
      BY <3>1, <3>2 DEF EntryStands
  <2>5. CASE p \in Manager
    <3>1. AdjustCommit(p) /\ tx[p].op = "adjust"
      BY <2>2, <2>5, OnlyAdjustMoves
    <3>2. tx[p].pc # "idle" /\ tx'[p].pc = "idle"
      BY <2>2, CommitFrame, FinishFrame DEF Locked, WritersInv
    <3>3. QED
      BY <2>3, <2>5, <3>1, <3>2 DEF Committing
  <2>6. QED
    BY <2>2, <2>4, <2>5 DEF Commit
<1>2. QED
  BY <1>1, WritersAlways, PTL DEF Spec, HandDatesHold

(* A result is saved over exactly what the solver read: nobody changed any of  *)
(* its visits between the snapshot and the commit.                             *)
THEOREM SolveReadIsCurrent == Spec => SolveOverwritesWhatItRead
<1>1. WritersInv /\ [Next]_vars =>
        [\A r \in Run : runs[r].status = "RUNNING" /\ runs'[r].status = "SUCCEEDED" =>
           \A v \in tx[r].scope : visits[v].rev = tx[r].revs[v] /\ SnapshotHolds(v, tx[r].ids[v])]_vars
  <2> SUFFICES ASSUME WritersInv, [Next]_vars, NEW r \in Run,
                      runs[r].status = "RUNNING", runs'[r].status = "SUCCEEDED"
               PROVE  \A v \in tx[r].scope : visits[v].rev = tx[r].revs[v] /\ SnapshotHolds(v, tx[r].ids[v])
    OBVIOUS
  <2> USE DEF Proc
  <2>0. runs \in [Run -> RunRow]
    BY DEF WritersInv, TypeInv, TypeOK, RunRow
  <2>1. SolveCommit(r)
    <3>1. ASSUME runs' = runs PROVE FALSE
      BY <3>1
    <3>2. ASSUME NEW p \in Proc, Abort(p) PROVE FALSE
      BY <2>0, <3>2 DEF Abort, RunRow
    <3>3. ASSUME NEW q \in Run, SolveSnapshot(q) PROVE FALSE
      BY <2>0, <3>3 DEF SolveSnapshot, RunRow
    <3>4. ASSUME NEW q \in Run, SolveCommit(q) PROVE q = r
      <4>1. q # r => runs'[r] = runs[r]
        BY <2>0, <3>4 DEF SolveCommit
      <4>2. QED
        BY <4>1
    <3>5. ASSUME NEW m \in Manager, PublishCommit(m) PROVE FALSE
      <4>1. runs'[r] \in {PublishedRun(r, tx[m].scope), [runs[r] EXCEPT !.status = "SUPERSEDED"], runs[r]}
        BY <3>5 DEF PublishCommit
      <4>2. PublishedRun(r, tx[m].scope).status = runs[r].status
        BY <2>0 DEF PublishedRun, RunRow
      <4>3. [runs[r] EXCEPT !.status = "SUPERSEDED"].status = "SUPERSEDED"
        BY <2>0 DEF RunRow
      <4>4. QED
        BY <4>1, <4>2, <4>3
    <3>6. ASSUME NEW p \in Proc, LockVisits(p) PROVE FALSE
      BY <3>1, <3>6 DEF LockVisits
    <3>7. ASSUME NEW q \in Run, SolveCheck(q) \/ \E v \in Visit : JudgeEntry(q, v) PROVE FALSE
      BY <3>1, <3>7 DEF SolveCheck, JudgeEntry
    <3>8. ASSUME NEW m \in Manager, OpenRequest(m) PROVE FALSE
      BY <3>1, <3>8 DEF OpenRequest, Open, OpenAssign, OpenUnassign, OpenAdjust, OpenPin, OpenUnpin, OpenPublish
    <3>9. ASSUME NEW m \in Manager,
                 Check(m) \/ Judge(m) \/ AssignCommit(m) \/ UnassignCommit(m) \/ AdjustCommit(m) \/ PinCommit(m)
          PROVE  FALSE
      BY <3>1, <3>9 DEF Check, Judge, AssignCommit, UnassignCommit, AdjustCommit, PinCommit
    <3>10. ~ OutsideEdit
      BY <3>1 DEF OutsideEdit, SetLocked, Withdraw
    <3>11. ~ UNCHANGED vars
      BY <3>1 DEF vars
    <3>12. QED
      BY <3>2, <3>3, <3>4, <3>5, <3>6, <3>7, <3>8, <3>9, <3>10, <3>11, Steps DEF Opens, Thinks, Commit
  <2>2. QED
    BY <2>1, SolveLands DEF EntryStands
<1>2. QED
  BY <1>1, WritersAlways, PTL DEF Spec, SolveOverwritesWhatItRead

(* What pinning and publication do to the rows of a visit, one by one. *)
LEMMA PinnedRows ==
  ASSUME WritersInv, NEW m \in Manager, PinCommit(m), NEW v \in tx[m].scope, NEW a \in rows[v]
  PROVE  /\ tx[m].op \in {"pin", "unpin"} /\ tx[m].pin \in Scopes
         /\ visits'[v].day = visits[v].day
         /\ \E b \in rows'[v] :
              /\ b.id = a.id /\ b.crew = a.crew /\ b.day = a.day /\ b.status = a.status
              /\ tx[m].op = "pin" => \A s \in Scopes : a.pins[s].held => b.pins[s].held
<1> USE DEF Proc
<1>0. tx[m].op \in {"pin", "unpin"} /\ tx[m].pin \in Scopes
  BY DEF PinCommit, Ready, WritersInv, TypeInv, Shape, ShapeOf
<1>1. v = Target(m) /\ v \in Visit
  BY <1>0, OneTarget DEF WritersInv
<1>2. rows[v] \subseteq Row /\ rows = [w \in Visit |-> rows[w]] /\ visits \in [Visit -> VisitRow]
  BY <1>1 DEF WritersInv, TypeInv, TypeOK, VisitRow
<1> DEFINE held == tx[m].op = "pin"
           pinned(x) == [x EXCEPT !.pins[tx[m].pin] = [held |-> held, rev |-> @.rev + 1]]
<1>3. rows' = [rows EXCEPT ![v] = {IF x \in Row0(m) THEN pinned(x) ELSE x : x \in @}]
      /\ visits' = [visits EXCEPT ![v].rev = @ + 1]
  BY <1>1 DEF PinCommit
<1>4. visits'[v].day = visits[v].day
  BY <1>1, <1>2, <1>3 DEF VisitRow
<1>5. a \in Row
  BY <1>2
<1>6. /\ pinned(a).id = a.id /\ pinned(a).crew = a.crew /\ pinned(a).day = a.day
      /\ pinned(a).status = a.status
  BY <1>5 DEF Row
<1>7. tx[m].op = "pin" => \A s \in Scopes : a.pins[s].held => pinned(a).pins[s].held
  BY <1>0, <1>5 DEF Row, Pins
<1> HIDE DEF pinned
<1>8. rows'[v] = {IF x \in Row0(m) THEN pinned(x) ELSE x : x \in rows[v]}
  BY <1>1, <1>2, <1>3
<1>9. PICK b \in rows'[v] : b = (IF a \in Row0(m) THEN pinned(a) ELSE a)
  BY <1>8
<1>10. QED
  BY <1>0, <1>4, <1>6, <1>7, <1>9

LEMMA PublishedRows ==
  ASSUME WritersInv, NEW m \in Manager, PublishCommit(m), NEW v \in tx[m].scope, NEW a \in rows[v]
  PROVE  /\ visits'[v].day = visits[v].day
         /\ \E b \in rows'[v] :
              /\ b.id = a.id /\ b.crew = a.crew /\ b.day = a.day /\ b.pins = a.pins
              /\ a.status = "DRAFT" => b.status \in {"DRAFT", "PUBLISHED"}
              /\ a.status \in {"PUBLISHED", "SUPERSEDED"} => b.status \in {"PUBLISHED", "SUPERSEDED"}
<1> USE DEF Proc
<1>0. v \in Visit /\ visits' = visits
  BY DEF PublishCommit, WritersInv, TypeInv, TypeOK, Tx
<1> DEFINE out(x) == IF x \in Replaced(m, v) THEN [x EXCEPT !.status = "PUBLISHED"]
                     ELSE IF x.status = "PUBLISHED" THEN [x EXCEPT !.status = "SUPERSEDED"] ELSE x
<1>1. rows'[v] = {out(x) : x \in rows[v]}
  BY <1>0 DEF PublishCommit
<1>2. a \in Row
  BY <1>0 DEF WritersInv, TypeInv, TypeOK
<1>3. out(a) \in rows'[v]
  BY <1>1
<1>4. /\ out(a).id = a.id /\ out(a).crew = a.crew /\ out(a).day = a.day /\ out(a).pins = a.pins
      /\ a.status = "DRAFT" => out(a).status \in {"DRAFT", "PUBLISHED"}
      /\ a.status \in {"PUBLISHED", "SUPERSEDED"} => out(a).status \in {"PUBLISHED", "SUPERSEDED"}
  BY <1>2 DEF Row, Replaced, Drafts
<1> HIDE DEF out
<1>5. QED
  BY <1>0, <1>3, <1>4

(* A request that writes a visit's crew or day writes a visit never published. *)
LEMMA WritesUnpublished ==
  ASSUME WritersInv, NEW p \in Proc, Commit(p), ~ (p \in Manager /\ (PinCommit(p) \/ PublishCommit(p))),
         NEW v \in tx[p].scope
  PROVE  Unpublished(v)
<1>1. CASE p \in Run /\ SolveCommit(p)
  BY <1>1 DEF SolveCommit, WritersInv, StillFound, Found, EntryStands, SnapshotHolds
<1>2. CASE p \in Manager /\ AssignCommit(p)
  BY <1>2 DEF AssignCommit, Ready, WritersInv, StillFound, Found, SnapshotHolds
<1>3. CASE p \in Manager /\ UnassignCommit(p)
  BY <1>3 DEF UnassignCommit, Ready, WritersInv, StillFound, Found, SnapshotHolds
<1>4. CASE p \in Manager /\ AdjustCommit(p)
  BY <1>4 DEF AdjustCommit, Ready, WritersInv, StillFound, Found
<1>5. QED
  BY <1>1, <1>2, <1>3, <1>4 DEF Commit

(* A step that is no commit writes no row but outside an open transaction. *)
LEMMA CommitOrKept ==
  ASSUME WritersInv, [Next]_vars
  PROVE  (\E p \in Proc : Commit(p)) \/ OutsideEdit \/ (rows' = rows /\ visits' = visits)
<1>1. ASSUME NEW p \in Proc, LockVisits(p) \/ Abort(p) \/ Opens(p) \/ Thinks(p)
      PROVE  rows' = rows /\ visits' = visits
  BY <1>1, LockFrame, OpensFrame, ThinksFrame DEF Abort, WritersInv
<1>2. CASE UNCHANGED vars
  BY <1>2 DEF vars
<1>3. QED
  BY <1>1, <1>2, Steps

(* What a crew was told stays as it was told, whatever is solved, edited,      *)
(* pinned or published afterwards.                                             *)
THEOREM PublishedStays == Spec => PublishedFrozen
<1>1. WritersInv /\ [Next]_vars =>
        [\A v \in Visit : \A a \in History(v) :
           /\ \E b \in rows'[v] : b.id = a.id /\ b.crew = a.crew /\ b.day = a.day
                                  /\ b.status \in {"PUBLISHED", "SUPERSEDED"}
           /\ visits'[v].day = visits[v].day]_vars
  <2> SUFFICES ASSUME WritersInv, [Next]_vars, NEW v \in Visit, NEW a \in History(v)
               PROVE  /\ \E b \in rows'[v] : b.id = a.id /\ b.crew = a.crew /\ b.day = a.day
                                             /\ b.status \in {"PUBLISHED", "SUPERSEDED"}
                      /\ visits'[v].day = visits[v].day
    OBVIOUS
  <2>0. a \in rows[v] /\ a.status \in {"PUBLISHED", "SUPERSEDED"}
    BY DEF History
  <2>1. CASE rows' = rows /\ visits' = visits
    BY <2>0, <2>1
  <2>2. CASE OutsideEdit
    BY <2>2, OutsideKeeps
  <2>3. ASSUME NEW p \in Proc, Commit(p), v \notin tx[p].scope PROVE rows'[v] = rows[v] /\ visits'[v] = visits[v]
    BY <2>3, CommitFrame DEF WritersInv
  <2>4. ASSUME NEW p \in Proc, Commit(p), v \in tx[p].scope PROVE p \in Manager /\ (PinCommit(p) \/ PublishCommit(p))
    BY <2>4, WritesUnpublished DEF Unpublished
  <2>5. ASSUME NEW m \in Manager, PinCommit(m) \/ PublishCommit(m), v \in tx[m].scope
        PROVE  /\ \E b \in rows'[v] : b.id = a.id /\ b.crew = a.crew /\ b.day = a.day
                                      /\ b.status \in {"PUBLISHED", "SUPERSEDED"}
               /\ visits'[v].day = visits[v].day
    BY <2>0, <2>5, PinnedRows, PublishedRows
  <2>6. QED
    BY <2>0, <2>1, <2>2, <2>3, <2>4, <2>5, CommitOrKept
<1>2. QED
  BY <1>1, WritersAlways, PTL DEF Spec, PublishedFrozen

PinnedOn(a, b) == b.crew = a.crew /\ \A s \in Scopes : a.pins[s].held => b.pins[s].held

(* A solve that began before the pin commits after it: either its crew is the  *)
(* pinned one, or its check refused it; the new draft takes the pins over.     *)
LEMMA SolveKeepsPins ==
  ASSUME WritersInv, NEW r \in Run, SolveCommit(r), NEW v \in tx[r].scope,
         NEW a \in Drafts(v), CrewPinned(a)
  PROVE  \E b \in Live(v)' : PinnedOn(a, b)
<1> USE DEF Proc
<1>0. v \in Visit /\ tx[r].pc = "days" /\ tx[r].op = "solve" /\ a \in Live(v) /\ Pinned(a) /\ rows[v] \subseteq Row
  <2>1. tx[r] \in Tx /\ rows[v] \subseteq Row
    <3>1. tx[r] \in Tx /\ rows \in [Visit -> SUBSET Row]
      BY DEF WritersInv, TypeInv, TypeOK
    <3>2. v \in Visit
      BY <3>1 DEF Tx
    <3>3. QED
      BY <3>1, <3>2
  <2>2. v \in Visit
    BY <2>1 DEF Tx
  <2>3. tx[r].pc = "days"
    BY DEF SolveCommit
  <2>4. tx[r].op = "solve"
    BY <2>3 DEF WritersInv, TypeInv, Shape, ShapeOf
  <2>5. a \in Live(v)
    BY DEF Drafts, Live
  <2>6. Pinned(a)
    BY DEF CrewPinned, Pinned, Held
  <2>7. QED
    BY <2>1, <2>2, <2>3, <2>4, <2>5, <2>6
<1>1. EntryStands(r, v)
  BY <1>0 DEF WritersInv, StillFound, Found
<1>2. Live(v) = Replaced(r, v)
  BY <1>0, <1>1, ReplacedIsLive DEF WritersInv, EntryStands
<1>3. tx[r].plan[v].kind = "assign" /\ tx[r].plan[v].crew = a.crew
  <2>1. tx[r].plan[v].kind \in {"none", "unassign", "assign"}
    BY <1>0 DEF WritersInv, TypeInv, TypeOK, Tx, Plan
  <2>2. tx[r].plan[v].kind # "none"
    BY <1>0 DEF WritersInv, TypeInv, Shape, ShapeOf
  <2>3. QED
    BY <1>0, <1>1, <2>1, <2>2 DEF EntryStands
<1>4. Staffs(r, v)
  <2>1. tx[r].done[v] # "todo"
    BY <1>3 DEF SolveCommit
  <2>2. tx[r].done[v] # "unassigned"
    BY <1>0, <1>2 DEF WritersInv, StillFound, Found
  <2>3. tx[r].done[v] \in {"todo", "moved", "stayed", "unassigned"}
    BY <1>0 DEF WritersInv, TypeInv, TypeOK, Tx
  <2>4. QED
    BY <2>1, <2>2, <2>3 DEF Staffs
<1>5. Inherited(r, v) = a.pins
  BY <1>0, <1>2 DEF Inherited, WritersInv, BoardInv, BoardOf
<1> DEFINE new == Draft(made[v] + 1, tx[r].plan[v].crew, DayAfter(r, v), r, Inherited(r, v))
<1>6. rows'[v] = (rows[v] \ Replaced(r, v)) \cup {new}
  BY <1>0, <1>4 DEF SolveCommit
<1>7. new.status = "DRAFT" /\ new.crew = a.crew /\ new.pins = a.pins
  BY <1>3, <1>5 DEF Draft
<1> HIDE DEF new
<1>8. new \in Live(v)'
  BY <1>6, <1>7 DEF Live
<1>9. QED
  BY <1>7, <1>8 DEF PinnedOn

(* A hand edit moves the draft with its pins. *)
LEMMA AdjustKeepsPins ==
  ASSUME WritersInv, NEW m \in Manager, AdjustCommit(m), NEW v \in tx[m].scope, NEW a \in Drafts(v)
  PROVE  \E b \in Live(v)' : PinnedOn(a, b)
<1> USE DEF Proc
<1>0. v = Target(m) /\ v \in Visit
  BY OneTarget DEF AdjustCommit, Ready, WritersInv
<1>1. rows' = [rows EXCEPT ![v] = {IF x \in Drafts(v) THEN Shifted(x, tx[m].plan[v].day) ELSE x : x \in @}]
  BY <1>0 DEF AdjustCommit
<1>2. rows = [w \in Visit |-> rows[w]] /\ a \in rows[v] /\ a \in Row /\ a.status = "DRAFT"
  BY <1>0 DEF WritersInv, TypeInv, TypeOK, Drafts
<1>3. Shifted(a, tx[m].plan[v].day) \in rows'[v]
  BY <1>0, <1>1, <1>2
<1>4. /\ Shifted(a, tx[m].plan[v].day).status = "DRAFT"
      /\ Shifted(a, tx[m].plan[v].day).crew = a.crew
      /\ Shifted(a, tx[m].plan[v].day).pins = a.pins
  BY <1>2 DEF Shifted, Row
<1>5. QED
  BY <1>3, <1>4 DEF Live, PinnedOn

(* A pinned crew is the crew after any step, and only an unpin takes the pin   *)
(* away: no solve, crew change, hand edit or publication drops it.             *)
THEOREM PinsAreKept == Spec => PinsHold
<1>1. WritersInv /\ [Next]_vars =>
        [\A v \in Visit : \A a \in Drafts(v) : CrewPinned(a) =>
           \E b \in Live(v)' :
             /\ b.crew = a.crew
             /\ \/ \A s \in Scopes : a.pins[s].held => b.pins[s].held
                \/ \E m \in Manager : Committing(m, "unpin") /\ v \in tx[m].scope]_vars
  <2> SUFFICES ASSUME WritersInv, [Next]_vars, NEW v \in Visit, NEW a \in Drafts(v), CrewPinned(a)
               PROVE  \/ \E b \in Live(v)' : PinnedOn(a, b)
                      \/ /\ \E b \in Live(v)' : b.crew = a.crew
                         /\ \E m \in Manager : Committing(m, "unpin") /\ v \in tx[m].scope
    BY DEF PinnedOn
  <2> USE DEF Proc
  <2>0. a \in rows[v] /\ a.status = "DRAFT" /\ Pinned(a) /\ PinnedOn(a, a)
    BY DEF Drafts, CrewPinned, Pinned, Held, PinnedOn
  <2>1. ASSUME a \in Drafts(v)' PROVE \E b \in Live(v)' : PinnedOn(a, b)
    BY <2>0, <2>1 DEF Live, Drafts
  <2>2. CASE rows' = rows
    BY <2>1, <2>2 DEF Drafts
  <2>3. CASE OutsideEdit
    BY <2>1, <2>3, OutsideKeeps
  <2>4. ASSUME NEW p \in Proc, Commit(p), v \notin tx[p].scope PROVE \E b \in Live(v)' : PinnedOn(a, b)
    <3>1. rows'[v] = rows[v]
      BY <2>4, CommitFrame DEF WritersInv
    <3>2. QED
      BY <2>1, <3>1 DEF Drafts
  <2>5. ASSUME NEW r \in Run, SolveCommit(r), v \in tx[r].scope PROVE \E b \in Live(v)' : PinnedOn(a, b)
    BY <2>5, SolveKeepsPins
  <2>6. ASSUME NEW m \in Manager, AssignCommit(m) \/ UnassignCommit(m), v \in tx[m].scope PROVE FALSE
    <3>1. tx[m].pc \in {"checked", "judged"} /\ tx[m].op \in {"assign", "unassign"}
      BY <2>6 DEF AssignCommit, UnassignCommit, Ready
    <3>2. QED
      BY <2>0, <2>6, <3>1 DEF WritersInv, StillFound, Found
  <2>7. ASSUME NEW m \in Manager, AdjustCommit(m), v \in tx[m].scope PROVE \E b \in Live(v)' : PinnedOn(a, b)
    BY <2>7, AdjustKeepsPins
  <2>8. ASSUME NEW m \in Manager, PublishCommit(m), v \in tx[m].scope PROVE \E b \in Live(v)' : PinnedOn(a, b)
    BY <2>0, <2>8, PublishedRows DEF Live, PinnedOn
  <2>9. ASSUME NEW m \in Manager, PinCommit(m), v \in tx[m].scope
        PROVE  \/ \E b \in Live(v)' : PinnedOn(a, b)
               \/ /\ \E b \in Live(v)' : b.crew = a.crew
                  /\ \E n \in Manager : Committing(n, "unpin") /\ v \in tx[n].scope
    <3>1. /\ tx[m].op \in {"pin", "unpin"}
          /\ \E b \in rows'[v] :
               /\ b.crew = a.crew /\ b.status = a.status
               /\ tx[m].op = "pin" => \A s \in Scopes : a.pins[s].held => b.pins[s].held
      BY <2>0, <2>9, PinnedRows
    <3>2. PICK b \in rows'[v] : /\ b.crew = a.crew /\ b.status = a.status
                                /\ tx[m].op = "pin" => PinnedOn(a, b)
      BY <3>1 DEF PinnedOn
    <3>3. b \in Live(v)'
      BY <2>0, <3>2 DEF Live
    <3>4. tx[m].pc # "idle" /\ tx'[m].pc = "idle"
      BY <2>9, CommitFrame, FinishFrame DEF Commit, Locked, WritersInv
    <3>5. QED
      BY <2>9, <3>1, <3>2, <3>3, <3>4 DEF Committing
  <2>10. ASSUME NEW p \in Proc, Commit(p)
         PROVE  \/ \E b \in Live(v)' : PinnedOn(a, b)
                \/ /\ \E b \in Live(v)' : b.crew = a.crew
                   /\ \E n \in Manager : Committing(n, "unpin") /\ v \in tx[n].scope
    BY <2>4, <2>5, <2>6, <2>7, <2>8, <2>9, <2>10 DEF Commit
  <2>11. QED
    BY <2>2, <2>3, <2>10, CommitOrKept
<1>2. QED
  BY <1>1, WritersAlways, PTL DEF Spec, PinsHold

(* What crews were told, the crews managers pinned and the days they chose     *)
(* hold against the solver, publication and the other managers.                *)
THEOREM DecisionsAreKept == Spec => DecisionsHold
<1>1. QED
  BY HandDatesAreKept, PublishedStays, PinsAreKept, PTL DEF DecisionsHold

-----------------------------------------------------------------------------
(* What went out of a run: the visits with a row that was told under it. *)
ToldOf(r) == {v \in Visit : \E a \in History(v) : a.run = r}

(* A run has one life: its own solve works on it while it is RUNNING, and only  *)
(* when that is over may it be published.                                      *)
RunsLive ==
  \A r \in Run :
    /\ tx[r].pc # "idle" => runs[r].status = "RUNNING"
    /\ runs[r].published => runs[r].status # "RUNNING"

(* What was told was told by a published run: published rows come from there only. *)
ToldByPublished ==
  \A v \in Visit : \A a \in History(v) : a.run \in Run /\ runs[a.run].published

(* A publication covers every draft its run has, from its first read to its     *)
(* commit, and the drafts it compared are the run's own.                        *)
CoversRun(m) ==
  tx[m].op = "publish" =>
    /\ runs[tx[m].run].status # "RUNNING"
    /\ DraftsOf(tx[m].run) \subseteq tx[m].scope
    /\ tx[m].pc \in {"checked", "judged"} =>
         \A v \in tx[m].scope : \E a \in Replaced(m, v) : a.run = tx[m].run

RunInv == RunsLive /\ ToldByPublished /\ (\A m \in Manager : CoversRun(m)) /\ PublishedRunIsWhole

(* The runs whose drafts a visit has, and those under which it was told. *)
DraftRuns(v) == {a.run : a \in Drafts(v)}
ToldRuns(v) == {a.run : a \in History(v)}

LEMMA RunsKept ==
  ASSUME NEW v \in Visit, rows'[v] = rows[v]
  PROVE  DraftRuns(v)' = DraftRuns(v) /\ ToldRuns(v)' = ToldRuns(v)
  BY DEF DraftRuns, ToldRuns, Drafts, History

(* Replacing drafts by a draft or by cancelled rows. *)
LEMMA RunsReplaced ==
  ASSUME TypeInv, NEW v \in Visit, NEW gone \in SUBSET Drafts(v), NEW fresh,
         rows'[v] = (rows[v] \ gone) \cup fresh,
         \A b \in fresh : b.status \in {"DRAFT", "CANCELLED"}
  PROVE  /\ ToldRuns(v)' = ToldRuns(v)
         /\ DraftRuns(v)' \subseteq DraftRuns(v) \cup {b.run : b \in {x \in fresh : x.status = "DRAFT"}}
<1>1. History(v)' = History(v)
  BY DEF History, Drafts
<1>2. ToldRuns(v)' = ToldRuns(v)
  BY <1>1 DEF ToldRuns
<1>3. \A b \in Drafts(v)' : b \in Drafts(v) \/ (b \in fresh /\ b.status = "DRAFT")
  BY DEF Drafts
<1>4. QED
  BY <1>2, <1>3 DEF DraftRuns

(* Editing rows in place. *)
LEMMA RunsMapped ==
  ASSUME NEW v \in Visit, NEW f, rows'[v] = {f[a] : a \in rows[v]},
         \A a \in rows[v] : f[a].run = a.run /\ f[a].status = a.status
  PROVE  DraftRuns(v)' = DraftRuns(v) /\ ToldRuns(v)' = ToldRuns(v)
<1>1. \A b \in rows'[v] : \E a \in rows[v] : b = f[a]
  OBVIOUS
<1>2. \A a \in rows[v] : f[a] \in rows'[v]
  OBVIOUS
<1>3. DraftRuns(v)' = DraftRuns(v)
  BY <1>1, <1>2 DEF DraftRuns, Drafts
<1>4. ToldRuns(v)' = ToldRuns(v)
  BY <1>1, <1>2 DEF ToldRuns, History
<1>5. QED
  BY <1>3, <1>4

LEMMA SolveRuns ==
  ASSUME TypeInv, NEW r \in Run, SolveCommit(r), NEW v \in tx[r].scope
  PROVE  ToldRuns(v)' = ToldRuns(v) /\ DraftRuns(v)' \subseteq DraftRuns(v) \cup {r}
<1> DEFINE gone == Replaced(r, v)
           made1 == {Draft(made[v] + 1, tx[r].plan[v].crew, DayAfter(r, v), r, Inherited(r, v))}
           cancelled == {[a EXCEPT !.status = "CANCELLED"] : a \in gone}
<1>0. v \in Visit /\ gone \in SUBSET Drafts(v) /\ gone \subseteq Row
  BY ReplacedType DEF Proc, TypeInv, TypeOK, Tx
<1>1. rows'[v] = IF Staffs(r, v) THEN (rows[v] \ gone) \cup made1 ELSE (rows[v] \ gone) \cup cancelled
  BY <1>0 DEF SolveCommit
<1>2. \A b \in made1 : b.status = "DRAFT" /\ b.run = r
  BY DEF Draft
<1>3. \A b \in cancelled : b.status = "CANCELLED"
  BY <1>0 DEF Row
<1> HIDE DEF gone, made1, cancelled
<1>4. CASE Staffs(r, v)
  <2>1. rows'[v] = (rows[v] \ gone) \cup made1
    BY <1>1, <1>4
  <2>2. /\ ToldRuns(v)' = ToldRuns(v)
        /\ DraftRuns(v)' \subseteq DraftRuns(v) \cup {b.run : b \in {x \in made1 : x.status = "DRAFT"}}
    BY <1>0, <1>2, <2>1, RunsReplaced
  <2>3. QED
    BY <1>2, <2>2
<1>5. CASE ~ Staffs(r, v)
  <2>1. rows'[v] = (rows[v] \ gone) \cup cancelled
    BY <1>1, <1>5
  <2>2. /\ ToldRuns(v)' = ToldRuns(v)
        /\ DraftRuns(v)' \subseteq DraftRuns(v) \cup {b.run : b \in {x \in cancelled : x.status = "DRAFT"}}
    BY <1>0, <1>3, <2>1, RunsReplaced
  <2>3. QED
    BY <1>3, <2>2
<1>6. QED
  BY <1>4, <1>5

LEMMA AssignRuns ==
  ASSUME WritersInv, NEW m \in Manager, AssignCommit(m), NEW v \in tx[m].scope
  PROVE  ToldRuns(v)' = ToldRuns(v) /\ DraftRuns(v)' \subseteq DraftRuns(v) \cup {ByHand}
<1> USE DEF Proc
<1>0. v \in Visit /\ v = Target(m)
  BY OneTarget DEF AssignCommit, Ready, WritersInv, TypeInv, TypeOK, Tx
<1> DEFINE gone == Replaced(m, v)
           lineage == IF gone = {} THEN ByHand ELSE (CHOOSE a \in gone : TRUE).run
           fresh == {Draft(made[v] + 1, tx[m].plan[v].crew, visits[v].day, lineage, Unpinned)}
<1>1. gone \in SUBSET Drafts(v)
  BY <1>0, ReplacedType DEF WritersInv, TypeInv
<1>2. \/ rows'[v] = (rows[v] \ gone) \cup fresh
      \/ rows'[v] = rows[v]
  BY <1>0 DEF AssignCommit, WritersInv, TypeInv, TypeOK
<1>3. \A b \in fresh : b.status = "DRAFT" /\ b.run = lineage
  BY DEF Draft
<1>4. lineage \in DraftRuns(v) \cup {ByHand}
  BY <1>1 DEF DraftRuns
<1> HIDE DEF gone, lineage, fresh
<1>5. CASE rows'[v] = (rows[v] \ gone) \cup fresh
  <2>1. /\ ToldRuns(v)' = ToldRuns(v)
        /\ DraftRuns(v)' \subseteq DraftRuns(v) \cup {b.run : b \in {x \in fresh : x.status = "DRAFT"}}
    BY <1>0, <1>1, <1>3, <1>5, RunsReplaced DEF WritersInv
  <2>2. QED
    BY <1>3, <1>4, <2>1
<1>6. CASE rows'[v] = rows[v]
  BY <1>0, <1>6, RunsKept
<1>7. QED
  BY <1>2, <1>5, <1>6

LEMMA UnassignRuns ==
  ASSUME WritersInv, NEW m \in Manager, UnassignCommit(m), NEW v \in tx[m].scope
  PROVE  ToldRuns(v)' = ToldRuns(v) /\ DraftRuns(v)' \subseteq DraftRuns(v)
<1>0. v \in Visit /\ v = Target(m)
  BY OneTarget DEF UnassignCommit, Ready, WritersInv, TypeInv, TypeOK, Tx, Proc
<1>1. rows'[v] = (rows[v] \ Replaced(m, v)) \cup {}
  BY <1>0 DEF UnassignCommit, WritersInv, TypeInv, TypeOK
<1>2. Replaced(m, v) \in SUBSET Drafts(v)
  BY DEF Replaced
<1>3. /\ ToldRuns(v)' = ToldRuns(v)
      /\ DraftRuns(v)' \subseteq DraftRuns(v) \cup {b.run : b \in {x \in {} : x.status = "DRAFT"}}
  <2> DEFINE none == {}
  <2>1. rows'[v] = (rows[v] \ Replaced(m, v)) \cup none /\ TypeInv
    BY <1>1 DEF WritersInv
  <2>2. \A b \in none : b.status \in {"DRAFT", "CANCELLED"}
    OBVIOUS
  <2> HIDE DEF none
  <2>3. /\ ToldRuns(v)' = ToldRuns(v)
        /\ DraftRuns(v)' \subseteq DraftRuns(v) \cup {b.run : b \in {x \in none : x.status = "DRAFT"}}
    BY <1>0, <1>2, <2>1, <2>2, RunsReplaced
  <2>4. QED
    BY <2>3 DEF none
<1>4. QED
  BY <1>3

LEMMA AdjustRuns ==
  ASSUME WritersInv, NEW m \in Manager, AdjustCommit(m), NEW v \in tx[m].scope
  PROVE  ToldRuns(v)' = ToldRuns(v) /\ DraftRuns(v)' = DraftRuns(v)
<1>0. v \in Visit /\ v = Target(m) /\ rows[v] \subseteq Row
  BY OneTarget DEF AdjustCommit, Ready, WritersInv, TypeInv, TypeOK, Tx, Proc
<1> DEFINE f == [a \in rows[v] |-> IF a \in Drafts(v) THEN Shifted(a, tx[m].plan[v].day) ELSE a]
<1>1. rows'[v] = {f[a] : a \in rows[v]}
  BY <1>0 DEF AdjustCommit, WritersInv, TypeInv, TypeOK
<1>2. \A a \in rows[v] : f[a].run = a.run /\ f[a].status = a.status
  BY <1>0 DEF Shifted, Row
<1> HIDE DEF f
<1>3. QED
  BY <1>0, <1>1, <1>2, RunsMapped

LEMMA PinRuns ==
  ASSUME WritersInv, NEW m \in Manager, PinCommit(m), NEW v \in tx[m].scope
  PROVE  ToldRuns(v)' = ToldRuns(v) /\ DraftRuns(v)' = DraftRuns(v)
<1>0. v \in Visit /\ v = Target(m) /\ rows[v] \subseteq Row
  BY OneTarget DEF PinCommit, Ready, WritersInv, TypeInv, TypeOK, Tx, Proc
<1> DEFINE held == tx[m].op = "pin"
           pinned(x) == [x EXCEPT !.pins[tx[m].pin] = [held |-> held, rev |-> @.rev + 1]]
           f == [a \in rows[v] |-> IF a \in Row0(m) THEN pinned(a) ELSE a]
<1>1. rows' = [rows EXCEPT ![v] = {IF a \in Row0(m) THEN pinned(a) ELSE a : a \in @}]
  BY <1>0 DEF PinCommit
<1>2. \A a \in Row : pinned(a).run = a.run /\ pinned(a).status = a.status
  BY DEF Row
<1> HIDE DEF pinned
<1>3. rows'[v] = {IF a \in Row0(m) THEN pinned(a) ELSE a : a \in rows[v]}
  BY <1>0, <1>1 DEF WritersInv, TypeInv, TypeOK
<1>4. rows'[v] = {f[a] : a \in rows[v]} /\ \A a \in rows[v] : f[a].run = a.run /\ f[a].status = a.status
  BY <1>0, <1>2, <1>3
<1> HIDE DEF f
<1>5. QED
  BY <1>0, <1>4, RunsMapped

(* A publication turns every draft of its visits into told work. *)
LEMMA PublishRuns ==
  ASSUME WritersInv, NEW m \in Manager, PublishCommit(m), NEW v \in tx[m].scope
  PROVE  /\ DraftRuns(v)' = {}
         /\ ToldRuns(v)' = ToldRuns(v) \cup {a.run : a \in Replaced(m, v)}
<1> USE DEF Proc
<1>0. v \in Visit /\ rows[v] \subseteq Row
  BY DEF WritersInv, TypeInv, TypeOK, Tx
<1> DEFINE out(x) == IF x \in Replaced(m, v) THEN [x EXCEPT !.status = "PUBLISHED"]
                     ELSE IF x.status = "PUBLISHED" THEN [x EXCEPT !.status = "SUPERSEDED"] ELSE x
<1>1. rows'[v] = {out(x) : x \in rows[v]}
  BY <1>0 DEF PublishCommit
<1>2. Drafts(v) = Replaced(m, v)
  <2>1. Replaced(m, v) # {}
    BY <1>0 DEF PublishCommit, Ready, WritersInv, StillFound, Found
  <2>2. \A a, b \in Drafts(v) : a = b
    BY <1>0 DEF WritersInv, BoardInv, BoardOf, Live, Drafts
  <2>3. QED
    BY <2>1, <2>2 DEF Replaced
<1>3. \A x \in rows[v] :
        /\ out(x).run = x.run /\ out(x).status # "DRAFT"
        /\ out(x).status \in {"PUBLISHED", "SUPERSEDED"} <=> x \in History(v) \/ x \in Replaced(m, v)
  BY <1>0, <1>2 DEF Row, History, Drafts
<1> HIDE DEF out
<1>4. \A b \in rows'[v] : \E x \in rows[v] : b = out(x)
  BY <1>1
<1>5. \A x \in rows[v] : out(x) \in rows'[v]
  BY <1>1
<1>6. DraftRuns(v)' = {}
  BY <1>3, <1>4 DEF DraftRuns, Drafts
<1>7. \A x \in History(v) \cup Replaced(m, v) : x \in rows[v] /\ out(x) \in History(v)' /\ out(x).run = x.run
  BY <1>3, <1>5 DEF History, Replaced, Drafts
<1>8. \A b \in History(v)' : \E x \in History(v) \cup Replaced(m, v) : b.run = x.run
  BY <1>3, <1>4 DEF History
<1>9. QED
  BY <1>6, <1>7, <1>8 DEF ToldRuns

LEMMA OutsideRuns ==
  ASSUME WritersInv, OutsideEdit, NEW v \in Visit
  PROVE  ToldRuns(v)' = ToldRuns(v) /\ DraftRuns(v)' = DraftRuns(v)
<1>1. ASSUME NEW w \in Visit, NEW locked \in BOOLEAN, SetLocked(w, locked)
      PROVE  rows'[v] = rows[v]
  BY <1>1 DEF SetLocked
<1>2. ASSUME NEW w \in Visit, Withdraw(w), v # w PROVE rows'[v] = rows[v]
  BY <1>2 DEF Withdraw, WritersInv, TypeInv, TypeOK
<1>3. ASSUME Withdraw(v) PROVE ToldRuns(v)' = ToldRuns(v) /\ DraftRuns(v)' = DraftRuns(v)
  <2>1. PICK a \in rows[v] : a.status = "PUBLISHED" /\
          rows' = [rows EXCEPT ![v] = (@ \ {a}) \cup {[a EXCEPT !.status = "SUPERSEDED"]}]
    BY <1>3 DEF Withdraw
  <2> DEFINE b == [a EXCEPT !.status = "SUPERSEDED"]
  <2>2. rows'[v] = (rows[v] \ {a}) \cup {b}
    BY <2>1 DEF WritersInv, TypeInv, TypeOK
  <2>3. b.run = a.run /\ b.status = "SUPERSEDED"
    BY DEF WritersInv, TypeInv, TypeOK, Row
  <2> HIDE DEF b
  <2>4. Drafts(v)' = Drafts(v)
    BY <2>1, <2>2, <2>3 DEF Drafts
  <2>5. History(v)' = (History(v) \ {a}) \cup {b} /\ a \in History(v)
    BY <2>1, <2>2, <2>3 DEF History
  <2>6. QED
    BY <2>3, <2>4, <2>5 DEF ToldRuns, DraftRuns
<1>4. QED
  BY <1>1, <1>2, <1>3, RunsKept DEF OutsideEdit

(* What any step does to the runs of a visit's rows. *)
LEMMA StepRuns ==
  ASSUME WritersInv, [Next]_vars, NEW v \in Visit
  PROVE  \/ \E r \in Run : SolveCommit(r) /\ ToldRuns(v)' = ToldRuns(v)
                           /\ DraftRuns(v)' \subseteq DraftRuns(v) \cup {r}
         \/ \E m \in Manager : PublishCommit(m) /\ v \in tx[m].scope /\ DraftRuns(v)' = {}
                               /\ ToldRuns(v)' = ToldRuns(v) \cup {a.run : a \in Replaced(m, v)}
         \/ ToldRuns(v)' = ToldRuns(v) /\ DraftRuns(v)' \subseteq DraftRuns(v) \cup {ByHand}
<1>1. CASE rows'[v] = rows[v]
  BY <1>1, RunsKept
<1>2. ASSUME NEW p \in Proc, Commit(p), v \notin tx[p].scope PROVE rows'[v] = rows[v]
  BY <1>2, CommitFrame DEF WritersInv
<1>3. ASSUME NEW r \in Run, SolveCommit(r), v \in tx[r].scope
      PROVE  ToldRuns(v)' = ToldRuns(v) /\ DraftRuns(v)' \subseteq DraftRuns(v) \cup {r}
  BY <1>3, SolveRuns DEF WritersInv
<1>4. ASSUME NEW m \in Manager, v \in tx[m].scope,
             AssignCommit(m) \/ UnassignCommit(m) \/ AdjustCommit(m) \/ PinCommit(m)
      PROVE  ToldRuns(v)' = ToldRuns(v) /\ DraftRuns(v)' \subseteq DraftRuns(v) \cup {ByHand}
  BY <1>4, AssignRuns, UnassignRuns, AdjustRuns, PinRuns
<1>5. ASSUME NEW m \in Manager, v \in tx[m].scope, PublishCommit(m)
      PROVE  DraftRuns(v)' = {} /\ ToldRuns(v)' = ToldRuns(v) \cup {a.run : a \in Replaced(m, v)}
  BY <1>5, PublishRuns
<1>6. CASE OutsideEdit
  BY <1>6, OutsideRuns
<1>7. ASSUME NEW p \in Proc, Commit(p), v \in tx[p].scope
      PROVE  \/ p \in Run /\ SolveCommit(p)
             \/ p \in Manager /\ (AssignCommit(p) \/ UnassignCommit(p) \/ AdjustCommit(p) \/ PinCommit(p))
             \/ p \in Manager /\ PublishCommit(p)
  BY <1>7 DEF Commit
<1>8. QED
  BY <1>1, <1>2, <1>3, <1>4, <1>5, <1>6, <1>7, CommitOrKept

(* A visit's rows from the point of view of one run. *)
LEMMA InDrafts == \A r, v : v \in DraftsOf(r) <=> v \in Visit /\ r \in DraftRuns(v)
  BY DEF DraftsOf, DraftRuns

LEMMA InTold == \A r, v : v \in ToldOf(r) <=> v \in Visit /\ r \in ToldRuns(v)
  BY DEF ToldOf, ToldRuns

(* The run rows: who writes them, and what. *)
SameRun(r) ==
  /\ runs'[r].published = runs[r].published
  /\ runs[r].published => runs'[r].scheduled = runs[r].scheduled
  /\ runs[r].status # "RUNNING" => runs'[r].status # "RUNNING"

LEMMA RunOfPublication ==
  ASSUME WritersInv, ToldByPublished, NEW m \in Manager, PublishCommit(m), NEW r \in Run
  PROVE  /\ tx[m].op = "publish" /\ tx[m].pc = "judged" /\ tx[m].run \in Run /\ tx[m].scope \subseteq Visit
         /\ ~ runs[tx[m].run].published
         /\ r = tx[m].run => /\ runs'[r].published /\ runs'[r].scheduled = Cardinality(tx[m].scope)
                             /\ runs'[r].status = "SUCCEEDED"
         /\ r # tx[m].run => SameRun(r)
         /\ r # tx[m].run /\ runs'[r].status = "RUNNING" => runs[r].status = "RUNNING"
         /\ r # tx[m].run /\ runs[r].status = "RUNNING" /\ ~ runs[r].published => runs'[r].status = "RUNNING"
<1> USE DEF Proc
<1>1. tx[m].op = "publish" /\ tx[m].pc = "judged" /\ tx[m].run \in Run /\ tx[m].scope \subseteq Visit
  BY DEF PublishCommit, Ready, WritersInv, TypeInv, TypeOK, Tx, Shape, ShapeOf
<1>2. runs[r] \in RunRow /\ runs[tx[m].run].status = "SUCCEEDED" /\ ~ runs[tx[m].run].published
  BY DEF PublishCommit, WritersInv, TypeInv, TypeOK, RunRow
<1> DEFINE superseded == {a.run : a \in UNION {{b \in rows[v] : b.status = "PUBLISHED"} : v \in tx[m].scope}}
                         \cap (Run \ {tx[m].run})
<1>3. runs'[r] = IF r = tx[m].run THEN PublishedRun(r, tx[m].scope)
                 ELSE IF r \in superseded THEN [runs[r] EXCEPT !.status = "SUPERSEDED"] ELSE runs[r]
  BY DEF PublishCommit
<1>4. r \in superseded => runs[r].published
  BY <1>1 DEF ToldByPublished, History
<1> HIDE DEF superseded
<1>5. r = tx[m].run => /\ runs'[r].published /\ runs'[r].scheduled = Cardinality(tx[m].scope)
                       /\ runs'[r].status = "SUCCEEDED"
  BY <1>2, <1>3 DEF PublishedRun, RunRow
<1>6. r # tx[m].run => runs'[r] = runs[r] \/ (runs'[r] = [runs[r] EXCEPT !.status = "SUPERSEDED"] /\ runs[r].published)
  BY <1>3, <1>4
<1>7. [runs[r] EXCEPT !.status = "SUPERSEDED"].status = "SUPERSEDED"
      /\ [runs[r] EXCEPT !.status = "SUPERSEDED"].published = runs[r].published
      /\ [runs[r] EXCEPT !.status = "SUPERSEDED"].scheduled = runs[r].scheduled
  BY <1>2 DEF RunRow
<1>8. QED
  BY <1>1, <1>2, <1>5, <1>6, <1>7 DEF SameRun

(* Every other step, one by one: a solve writes its own run only. *)
LEMMA RunOfSolve ==
  ASSUME WritersInv, RunsLive, NEW q \in Run, SolveSnapshot(q) \/ SolveCommit(q) \/ Abort(q), NEW r \in Run
  PROVE  /\ SameRun(r)
         /\ r # q => runs'[r] = runs[r]
         /\ SolveSnapshot(q) => runs'[q].status = "RUNNING"
         /\ runs[q].status = "RUNNING"
<1> USE DEF Proc
<1>1. runs[r] \in RunRow /\ runs[q] \in RunRow
  BY DEF WritersInv, TypeInv, TypeOK, RunRow
<1>2. runs[q].status = "RUNNING" /\ ~ runs[q].published
  BY DEF RunsLive, SolveSnapshot, SolveCommit, Abort
<1>3. ASSUME SolveSnapshot(q)
      PROVE  \E n : runs' = [runs EXCEPT ![q].considered = n]
  BY <1>3 DEF SolveSnapshot
<1>4. ASSUME SolveCommit(q)
      PROVE  \E n : runs' = [runs EXCEPT ![q].status = "SUCCEEDED", ![q].scheduled = n]
  BY <1>4 DEF SolveCommit
<1>5. ASSUME Abort(q)
      PROVE  runs' = [runs EXCEPT ![q].status = "FAILED"]
  BY <1>5 DEF Abort
<1>6. runs \in [Run -> RunRow]
  BY DEF WritersInv, TypeInv, TypeOK, RunRow
<1>7. r # q => runs'[r] = runs[r]
  BY <1>3, <1>4, <1>5, <1>6
<1>8. runs'[q].published = runs[q].published
  BY <1>3, <1>4, <1>5, <1>6 DEF RunRow
<1>9. SolveSnapshot(q) => runs'[q].status = "RUNNING"
  BY <1>2, <1>3, <1>6 DEF RunRow
<1>10. QED
  BY <1>2, <1>7, <1>8, <1>9 DEF SameRun

RunWriters(r) == SolveSnapshot(r) \/ SolveCommit(r) \/ Abort(r)

LEMMA RunRowSteps ==
  ASSUME WritersInv, [Next]_vars
  PROVE  \/ \E q \in Run : RunWriters(q)
         \/ \E m \in Manager : PublishCommit(m)
         \/ runs' = runs
<1>1. ASSUME NEW p \in Proc, LockVisits(p) \/ Thinks(p) PROVE runs' = runs
  BY <1>1 DEF LockVisits, Thinks, SolveCheck, JudgeEntry, Check, Judge
<1>2. ASSUME NEW p \in Proc, Abort(p) PROVE p \in Run \/ runs' = runs
  BY <1>2 DEF Abort
<1>3. ASSUME NEW p \in Manager, OpenRequest(p) PROVE runs' = runs
  BY <1>3 DEF OpenRequest, OpenAssign, OpenUnassign, OpenAdjust, OpenPin, OpenUnpin, OpenPublish, Open
<1>4. ASSUME NEW p \in Manager, AssignCommit(p) \/ UnassignCommit(p) \/ AdjustCommit(p) \/ PinCommit(p)
      PROVE  runs' = runs
  BY <1>4 DEF AssignCommit, UnassignCommit, AdjustCommit, PinCommit
<1>5. OutsideEdit => runs' = runs
  BY DEF OutsideEdit, SetLocked, Withdraw
<1>6. ASSUME NEW p \in Proc, Opens(p) PROVE (p \in Run /\ SolveSnapshot(p)) \/ runs' = runs
  BY <1>3, <1>6 DEF Opens
<1>7. ASSUME NEW p \in Proc, Commit(p)
      PROVE  (p \in Run /\ SolveCommit(p)) \/ (p \in Manager /\ PublishCommit(p)) \/ runs' = runs
  BY <1>4, <1>7 DEF Commit
<1>8. UNCHANGED vars => runs' = runs
  BY DEF vars
<1>9. QED
  BY <1>1, <1>2, <1>5, <1>6, <1>7, <1>8, Steps DEF RunWriters

(* A run is rewritten by its own publication, or keeps what it says of itself. *)
LEMMA RunEffects ==
  ASSUME WritersInv, RunsLive, ToldByPublished, [Next]_vars, NEW r \in Run
  PROVE  SameRun(r) \/ \E m \in Manager : PublishCommit(m) /\ tx[m].run = r
<1>1. CASE runs' = runs
  BY <1>1 DEF SameRun
<1>2. ASSUME NEW q \in Run, RunWriters(q) PROVE SameRun(r)
  BY <1>2, RunOfSolve DEF RunWriters
<1>3. ASSUME NEW m \in Manager, PublishCommit(m), tx[m].run # r PROVE SameRun(r)
  BY <1>3, RunOfPublication
<1>4. QED
  BY <1>1, <1>2, <1>3, RunRowSteps

LEMMA SolvesWhileRunning ==
  ASSUME RunsLive, NEW r \in Run, SolveCommit(r)
  PROVE  runs[r].status = "RUNNING" /\ ~ runs[r].published
  BY DEF RunsLive, SolveCommit

LEMMA RunsLiveInductive ==
  ASSUME WritersInv, RunsLive, ToldByPublished, [Next]_vars
  PROVE  RunsLive'
<1> SUFFICES ASSUME NEW r \in Run
             PROVE  /\ tx'[r].pc # "idle" => runs'[r].status = "RUNNING"
                    /\ runs'[r].published => runs'[r].status # "RUNNING"
  BY DEF RunsLive
<1> USE DEF Proc
<1>1. runs'[r].published => runs'[r].status # "RUNNING"
  <2>1. CASE SameRun(r)
    BY <2>1 DEF SameRun, RunsLive
  <2>2. ASSUME NEW m \in Manager, PublishCommit(m), tx[m].run = r PROVE runs'[r].status # "RUNNING"
    BY <2>2, RunOfPublication
  <2>3. QED
    BY <2>1, <2>2, RunEffects
<1>2. ASSUME tx'[r].pc # "idle", runs[r].status = "RUNNING" PROVE runs'[r].status = "RUNNING"
  <2>1. ~ runs[r].published
    BY <1>2 DEF RunsLive
  <2>2. ASSUME NEW q \in Run, RunWriters(q) PROVE runs'[r].status = "RUNNING"
    <3>1. CASE q # r
      BY <1>2, <2>2, <3>1, RunOfSolve DEF RunWriters
    <3>2. CASE q = r
      <4>1. ~ (SolveCommit(r) \/ Abort(r))
        BY <1>2, FinishFrame DEF SolveCommit, Abort, WritersInv
      <4>2. QED
        BY <2>2, <3>2, <4>1, RunOfSolve DEF RunWriters
    <3>3. QED
      BY <3>1, <3>2
  <2>3. ASSUME NEW m \in Manager, PublishCommit(m) PROVE runs'[r].status = "RUNNING"
    <3>1. tx[m].run # r
      BY <1>2, <2>3 DEF PublishCommit
    <3>2. QED
      BY <1>2, <2>1, <2>3, <3>1, RunOfPublication
  <2>4. QED
    BY <1>2, <2>2, <2>3, RunRowSteps
<1>3. ASSUME tx[r].pc = "idle", tx'[r].pc # "idle" PROVE runs'[r].status = "RUNNING"
  <2>1. SolveSnapshot(r)
    <3>1. ~ (LockVisits(r) \/ Abort(r) \/ Thinks(r) \/ Commit(r))
      BY <1>3, ThinksFrame, CommitFrame DEF WritersInv, LockVisits, Abort, Locked
    <3>2. Opens(r)
      BY <1>3, <3>1, Actor DEF WritersInv
    <3>3. r \notin Manager
      BY WriterAssumption
    <3>4. QED
      BY <3>2, <3>3 DEF Opens
  <2>2. QED
    BY <2>1, RunOfSolve
<1>4. QED
  BY <1>1, <1>2, <1>3 DEF RunsLive

(* The drafts a publication checked are its run's own. *)
LEMMA ReplacedOfRun ==
  ASSUME WritersInv, NEW m \in Manager, CoversRun(m), tx[m].op = "publish", tx[m].pc \in {"checked", "judged"},
         NEW v \in tx[m].scope, NEW a \in Replaced(m, v)
  PROVE  a.run = tx[m].run
<1>1. v \in Visit
  BY DEF WritersInv, TypeInv, TypeOK, Tx, Proc
<1>2. PICK b \in Replaced(m, v) : b.run = tx[m].run
  BY DEF CoversRun
<1>3. a = b
  BY <1>1 DEF Replaced, Drafts, Live, WritersInv, BoardInv, BoardOf
<1>4. QED
  BY <1>2, <1>3

LEMMA ToldInductive ==
  ASSUME WritersInv, RunsLive, ToldByPublished, \A m \in Manager : CoversRun(m), [Next]_vars
  PROVE  ToldByPublished'
<1> SUFFICES ASSUME NEW v \in Visit, NEW r \in ToldRuns(v)'
             PROVE  r \in Run /\ runs'[r].published
  BY DEF ToldByPublished, ToldRuns
<1>1. ASSUME r \in ToldRuns(v) PROVE r \in Run /\ runs'[r].published
  <2>1. r \in Run /\ runs[r].published
    BY <1>1 DEF ToldByPublished, ToldRuns
  <2>2. ASSUME NEW m \in Manager, PublishCommit(m) PROVE tx[m].run # r
    BY <2>1, <2>2 DEF PublishCommit
  <2>3. QED
    BY <2>1, <2>2, RunEffects DEF SameRun
<1>2. ASSUME NEW m \in Manager, PublishCommit(m), v \in tx[m].scope, NEW a \in Replaced(m, v), a.run = r
      PROVE  r \in Run /\ runs'[r].published
  <2>1. tx[m].op = "publish" /\ tx[m].pc = "judged" /\ tx[m].run \in Run
    BY <1>2, RunOfPublication DEF PublishCommit, Ready, WritersInv, TypeInv, Shape, ShapeOf, Proc
  <2>2. r = tx[m].run
    BY <1>2, <2>1, ReplacedOfRun
  <2>3. QED
    BY <1>2, <2>1, <2>2, RunOfPublication
<1>3. QED
  BY <1>1, <1>2, StepRuns

(* While a publication is open its run gets no further drafts, and it holds the *)
(* ones it compared.                                                           *)
LEMMA CoversStable ==
  ASSUME WritersInv, RunsLive, ToldByPublished, [Next]_vars, NEW m \in Manager, CoversRun(m),
         tx[m].op = "publish", tx'[m].run = tx[m].run, tx'[m].scope = tx[m].scope
  PROVE  /\ runs'[tx[m].run].status # "RUNNING"
         /\ DraftsOf(tx[m].run)' \subseteq tx[m].scope
<1>1. tx[m].run \in Run /\ tx[m].run # ByHand
  BY WriterAssumption DEF WritersInv, TypeInv, Shape, ShapeOf, Proc, ByHand
<1>2. runs'[tx[m].run].status # "RUNNING"
  <2>1. CASE SameRun(tx[m].run)
    BY <2>1 DEF SameRun, CoversRun
  <2>2. ASSUME NEW o \in Manager, PublishCommit(o), tx[o].run = tx[m].run
        PROVE  runs'[tx[m].run].status # "RUNNING"
    BY <1>1, <2>2, RunOfPublication
  <2>3. QED
    BY <1>1, <2>1, <2>2, RunEffects
<1>3. ASSUME NEW v \in DraftsOf(tx[m].run)' PROVE v \in DraftsOf(tx[m].run)
  <2>1. v \in Visit /\ tx[m].run \in DraftRuns(v)'
    BY <1>3, <1>1 DEF DraftsOf, DraftRuns
  <2>2. ASSUME NEW r \in Run, SolveCommit(r) PROVE r # tx[m].run
    BY <2>2, SolvesWhileRunning DEF CoversRun
  <2>3. tx[m].run \in DraftRuns(v)
    BY <1>1, <2>1, <2>2, StepRuns
  <2>4. QED
    BY <2>1, <2>3, InDrafts
<1>4. QED
  BY <1>2, <1>3 DEF CoversRun

LEMMA ReplacedStable ==
  ASSUME WritersInv, [Next]_vars, NEW m \in Manager, Locked(m), NEW v \in tx[m].scope,
         tx'[m].ids = tx[m].ids, rows'[v] = rows[v]
  PROVE  Replaced(m, v)' = Replaced(m, v)
  BY DEF Replaced, Drafts

LEMMA PublishOpened ==
  ASSUME TypeInv, NEW m \in Manager, OpenRequest(m), tx'[m].op = "publish"
  PROVE  \E r \in Run, ack \in BOOLEAN : OpenPublish(m, r, ack)
<1> USE DEF Proc
<1>0. tx \in [Proc -> Tx] /\ m \in Proc
  BY DEF TypeInv, TypeOK
<1>1. ASSUME NEW v \in Visit, NEW op \in {"assign", "unassign", "adjust", "pin", "unpin"}
      PROVE  Request(op, v).op = op /\ Request(op, v) \in Tx
  <2>1. Request(op, v).op = op
    BY DEF Request, Idle
  <2>2. Request(op, v) \in Tx
    BY RequestType DEF TypeInv
  <2>3. QED
    BY <2>1, <2>2
<1>2. \A t \in Tx : \A v \in Visit : \A x, y, z, w :
        /\ [t EXCEPT !.plan[v] = x].op = t.op
        /\ [t EXCEPT !.ids[v] = x, !.revs[v] = y, !.pin = z].op = t.op
  BY DEF Tx
<1>3. ASSUME NEW v \in Visit, NEW c \in Crews, OpenAssign(m, v, c) PROVE FALSE
  BY <1>0, <1>1, <1>2, <1>3 DEF OpenAssign, Open
<1>4. ASSUME NEW v \in Visit, OpenUnassign(m, v) PROVE FALSE
  BY <1>0, <1>1, <1>4 DEF OpenUnassign, Open
<1>5. ASSUME NEW v \in Visit, NEW d \in Day, OpenAdjust(m, v, d) PROVE FALSE
  BY <1>0, <1>1, <1>2, <1>5 DEF OpenAdjust, Open
<1>6. ASSUME NEW v \in Visit, NEW a \in rows[v], NEW s \in Scopes, OpenPin(m, v, a, s) PROVE FALSE
  BY <1>0, <1>1, <1>2, <1>6 DEF OpenPin, Open
<1>7. ASSUME NEW v \in Visit, NEW a \in rows[v], NEW s \in Scopes, OpenUnpin(m, v, a, s) PROVE FALSE
  BY <1>0, <1>1, <1>2, <1>7 DEF OpenUnpin, Open
<1>8. QED
  BY <1>3, <1>4, <1>5, <1>6, <1>7 DEF OpenRequest

LEMMA CoversInductive ==
  ASSUME WritersInv, RunsLive, ToldByPublished, [Next]_vars, NEW m \in Manager, CoversRun(m)
  PROVE  CoversRun(m)'
<1> USE DEF Proc
<1>0. tx[m].op = "publish" => tx[m].scope \subseteq Visit
  BY DEF WritersInv, TypeInv, TypeOK, Tx
<1>1. CASE tx'[m] = tx[m]
  <2> SUFFICES ASSUME tx[m].op = "publish" PROVE CoversRun(m)'
    BY <1>1 DEF CoversRun
  <2>1. /\ runs'[tx[m].run].status # "RUNNING"
        /\ DraftsOf(tx[m].run)' \subseteq tx[m].scope
    BY <1>1, CoversStable
  <2>2. ASSUME tx[m].pc \in {"checked", "judged"}, NEW v \in tx[m].scope
        PROVE  \E a \in Replaced(m, v)' : a.run = tx[m].run
    <3>1. Locked(m)
      BY <2>2 DEF Locked
    <3>2. rows'[v] = rows[v]
      BY <1>0, <1>1, <3>1, NobodyWritesALockedVisit DEF WritersInv, Locks
    <3>3. QED
      BY <1>1, <2>2, <3>1, <3>2, ReplacedStable DEF CoversRun
  <2>3. QED
    BY <1>1, <2>1, <2>2 DEF CoversRun
<1>2. CASE LockVisits(m)
  <2>1. tx'[m].pc = "visits" /\ tx'[m].op = tx[m].op /\ tx'[m].run = tx[m].run /\ tx'[m].scope = tx[m].scope
    <3>1. tx'[m].pc = "visits" /\ tx'[m] = [tx[m] EXCEPT !.pc = "visits"]
      BY <1>2, LockFrame DEF WritersInv
    <3>2. tx[m] \in Tx
      BY DEF WritersInv, TypeInv, TypeOK
    <3>3. QED
      BY <3>1, <3>2 DEF Tx
  <2>2. QED
    BY <2>1, CoversStable DEF CoversRun
<1>3. CASE Abort(m) \/ Commit(m)
  <2>1. tx'[m].op = "none"
    BY <1>3, CommitFrame, FinishFrame DEF WritersInv, Abort, Idle
  <2>2. QED
    BY <2>1 DEF CoversRun
<1>4. CASE Opens(m)
  <2>1. rows' = rows /\ tx'[m].pc = "begun"
    BY <1>4, OpensFrame DEF WritersInv
  <2>2. OpenRequest(m)
    BY <1>4, WriterAssumption DEF Opens
  <2>3. tx'[m].op = "publish" => \E r \in Run, ack \in BOOLEAN : OpenPublish(m, r, ack)
    BY <2>2, PublishOpened DEF WritersInv
  <2>4. ASSUME NEW r \in Run, NEW ack \in BOOLEAN, OpenPublish(m, r, ack) PROVE CoversRun(m)'
    <3>1. tx'[m].run = r /\ tx'[m].scope = DraftsOf(r) /\ runs' = runs /\ runs[r].status = "SUCCEEDED"
      BY <2>4 DEF OpenPublish, Open, Idle, WritersInv, TypeInv, TypeOK
    <3>2. DraftsOf(r)' = DraftsOf(r)
      BY <2>1 DEF DraftsOf, Drafts
    <3>3. QED
      BY <2>1, <3>1, <3>2 DEF CoversRun
  <2>5. QED
    BY <2>3, <2>4 DEF CoversRun
<1>5. CASE Thinks(m)
  <2> SUFFICES ASSUME tx'[m].op = "publish" PROVE CoversRun(m)'
    BY DEF CoversRun
  <2>1. /\ rows' = rows /\ tx'[m].scope = tx[m].scope /\ tx[m].op = "publish" /\ tx'[m].ids = tx[m].ids
        /\ tx'[m].run = tx[m].run
    BY <1>5, ThinksFrame DEF WritersInv
  <2>2. /\ runs'[tx[m].run].status # "RUNNING"
        /\ DraftsOf(tx[m].run)' \subseteq tx[m].scope
    BY <2>1, CoversStable
  <2>3. \A v : Replaced(m, v)' = Replaced(m, v)
    BY <2>1 DEF Replaced, Drafts
  <2>4. \A v \in tx[m].scope : \E a \in Replaced(m, v) : a.run = tx[m].run
    <3>1. CASE Check(m)
      BY <2>1, <3>1 DEF Check, RequestStands
    <3>2. CASE Judge(m)
      BY <2>1, <3>2 DEF Judge, CoversRun
    <3>3. QED
      BY <1>5, <3>1, <3>2, WriterAssumption DEF Thinks
  <2>5. QED
    BY <2>1, <2>2, <2>3, <2>4 DEF CoversRun
<1>6. QED
  BY <1>1, <1>2, <1>3, <1>4, <1>5, Actor DEF WritersInv

(* What a publication makes of its run. *)
LEMMA PublishedWhole ==
  ASSUME WritersInv, ToldByPublished, NEW m \in Manager, CoversRun(m), PublishCommit(m), NEW r \in Run, r = tx[m].run
  PROVE  /\ DraftsOf(r)' = {}
         /\ runs'[r].scheduled = Cardinality(ToldOf(r)')
<1> USE DEF Proc
<1>1. /\ tx[m].op = "publish" /\ tx[m].pc = "judged" /\ tx[m].scope \subseteq Visit
      /\ ~ runs[r].published /\ runs'[r].scheduled = Cardinality(tx[m].scope)
  BY RunOfPublication
<1>2. \A v \in Visit : r \notin ToldRuns(v)
  BY <1>1 DEF ToldByPublished, ToldRuns
<1>3. ASSUME NEW v \in tx[m].scope PROVE r \notin DraftRuns(v)' /\ r \in ToldRuns(v)'
  BY <1>1, PublishRuns DEF CoversRun
<1>4. ASSUME NEW v \in Visit, v \notin tx[m].scope PROVE r \notin DraftRuns(v)' /\ r \notin ToldRuns(v)'
  <2>1. rows'[v] = rows[v]
    BY <1>4, CommitFrame DEF Commit, WritersInv
  <2>2. r \notin DraftRuns(v)
    BY <1>1, <1>4, InDrafts DEF CoversRun
  <2>3. QED
    BY <1>2, <2>1, <2>2, RunsKept
<1>5. DraftsOf(r)' = {}
  BY <1>3, <1>4 DEF DraftsOf, DraftRuns
<1>6. ToldOf(r)' = tx[m].scope
  <2>1. \A v : v \in ToldOf(r)' <=> v \in Visit /\ r \in ToldRuns(v)'
    BY DEF ToldOf, ToldRuns
  <2>2. QED
    BY <1>1, <1>3, <1>4, <2>1
<1>7. QED
  BY <1>1, <1>5, <1>6

(* A published run gets no draft and goes out to nobody else. *)
LEMMA WholeStays ==
  ASSUME WritersInv, RunsLive, \A m \in Manager : CoversRun(m), [Next]_vars,
         NEW r \in Run, runs[r].published, DraftsOf(r) = {}
  PROVE  DraftsOf(r)' = {} /\ ToldOf(r)' = ToldOf(r)
<1> USE DEF Proc
<1>0. r # ByHand
  BY WriterAssumption DEF ByHand
<1>1. ASSUME NEW v \in Visit
      PROVE  r \notin DraftRuns(v)' /\ (r \in ToldRuns(v)' <=> r \in ToldRuns(v))
  <2>0. r \notin DraftRuns(v)
    BY InDrafts
  <2>1. ASSUME NEW q \in Run, SolveCommit(q) PROVE q # r
    BY <2>1, SolvesWhileRunning
  <2>2. ASSUME NEW m \in Manager, PublishCommit(m), v \in tx[m].scope
        PROVE  r \notin {a.run : a \in Replaced(m, v)}
    <3>1. tx[m].op = "publish" /\ tx[m].pc = "judged" /\ tx[m].run # r
      BY <2>2 DEF PublishCommit, Ready
    <3>2. QED
      BY <2>2, <3>1, ReplacedOfRun
  <2>3. QED
    BY <1>0, <2>0, <2>1, <2>2, StepRuns
<1>2. DraftsOf(r)' = {}
  BY <1>1 DEF DraftsOf, DraftRuns
<1>3. ToldOf(r)' = ToldOf(r)
  <2>1. \A v : v \in ToldOf(r)' <=> v \in Visit /\ r \in ToldRuns(v)'
    BY DEF ToldOf, ToldRuns
  <2>2. QED
    BY <1>1, <2>1, InTold
<1>4. QED
  BY <1>2, <1>3

Whole(r) == runs[r].published => DraftsOf(r) = {} /\ runs[r].scheduled = Cardinality(ToldOf(r))

LEMMA WholeIs == PublishedRunIsWhole <=> \A r \in Run : Whole(r)
  BY DEF PublishedRunIsWhole, Whole, ToldOf

LEMMA WholeInductive ==
  ASSUME WritersInv, RunInv, [Next]_vars, NEW r \in Run
  PROVE  Whole(r)'
<1>0. /\ RunsLive /\ ToldByPublished /\ (\A m \in Manager : CoversRun(m))
      /\ Whole(r)
  BY WholeIs DEF RunInv
<1>1. ASSUME NEW m \in Manager, PublishCommit(m), tx[m].run = r PROVE Whole(r)'
  BY <1>0, <1>1, PublishedWhole DEF Whole
<1>2. CASE SameRun(r)
  BY <1>0, <1>2, WholeStays DEF Whole, SameRun
<1>3. QED
  BY <1>0, <1>1, <1>2, RunEffects

LEMMA RunInit == Init => RunInv
<1> SUFFICES ASSUME Init PROVE RunInv
  OBVIOUS
<1> USE DEF Proc
<1>1. /\ \A p \in Proc : tx[p].pc = "idle" /\ tx[p].op = "none"
      /\ \A r \in Run : ~ runs[r].published
      /\ \A v \in Visit : rows[v] = {}
  BY DEF Init, Idle
<1>2. RunsLive /\ ToldByPublished /\ (\A m \in Manager : CoversRun(m))
  BY <1>1 DEF RunsLive, ToldByPublished, CoversRun, History
<1>3. QED
  BY <1>1, <1>2 DEF RunInv, PublishedRunIsWhole

LEMMA RunInductive == WritersInv /\ RunInv /\ [Next]_vars => RunInv'
<1> SUFFICES ASSUME WritersInv, RunInv, [Next]_vars PROVE RunInv'
  OBVIOUS
<1>1. RunsLive /\ ToldByPublished /\ (\A m \in Manager : CoversRun(m))
  BY DEF RunInv
<1>2. RunsLive' /\ ToldByPublished'
  BY <1>1, RunsLiveInductive, ToldInductive
<1>3. \A m \in Manager : CoversRun(m)'
  BY <1>1, CoversInductive
<1>4. PublishedRunIsWhole'
  <2>1. (\A r \in Run : Whole(r))' => PublishedRunIsWhole'
    BY DEF PublishedRunIsWhole, Whole, ToldOf
  <2>2. QED
    BY <2>1, WholeInductive
<1>5. QED
  BY <1>2, <1>3, <1>4 DEF RunInv

(* A run is published once and then closed: its counter is the number of visits *)
(* that went out of it, and no later solve, crew change, edit, publication or   *)
(* withdrawal leaves a draft of it or changes that number.                     *)
THEOREM PublishedRunsAreWhole == Spec => []PublishedRunIsWhole
<1>1. Init => RunInv
  BY RunInit
<1>2. WritersInv /\ RunInv /\ [Next]_vars => RunInv'
  BY RunInductive
<1>3. RunInv => PublishedRunIsWhole
  BY DEF RunInv
<1>4. QED
  BY <1>1, <1>2, <1>3, WritersAlways, PTL DEF Spec

-----------------------------------------------------------------------------
(* The capacity of a day.  A solve counts a day once, under the day's lock,    *)
(* and keeps its own ledger from then on.  The ledger stays an upper bound of  *)
(* what will stand on the day when the solve lands, whatever other solves and  *)
(* managers commit in between.                                                *)

(* The day a visit will be on when the transaction lands, and the work no     *)
(* manager placed by hand that will then be on a day.                         *)
PlacedBySystem(d) == {v \in Visit : visits[v].day = d /\ ~ visits[v].adjusted}
WillStand(r, d) == {v \in Visit : DayAfter(r, v) = d /\ ~ visits[v].adjusted}
Minutes(vs) == Cardinality(CrewMinutes(vs))

LandsOn(r, d) == \E v \in Visit : tx[r].done[v] = "moved" /\ tx[r].plan[v].day = d

(* A solve that has its days holds their locks; its ledger bounds what each of *)
(* them will carry, and what it lets land on a day fits.                       *)
LedgerHolds(r) ==
  tx[r].pc = "days" =>
    /\ \A v \in tx[r].scope : tx[r].done[v] = "moved" => Moves(r, v)
    /\ \A d \in Targets(r) :
         /\ dayLock[d] = r
         /\ Minutes(WillStand(r, d)) <= tx[r].ledger[d]
         /\ LandsOn(r, d) => tx[r].ledger[d] <= Cap[d]

LedgerInv == (\A r \in Run : LedgerHolds(r)) /\ SystemMovesFit

(* Crew-minutes add up. *)
LEMMA MinutesType ==
  ASSUME NEW vs \in SUBSET Visit
  PROVE  IsFiniteSet(CrewMinutes(vs)) /\ Minutes(vs) \in Nat
<1>1. IsFiniteSet(Visit \X (1 .. MaxWork))
  <2>1. IsFiniteSet(1 .. MaxWork)
    BY WriterAssumption, FS_Interval
  <2>2. QED
    BY <2>1, WriterAssumption, FS_Product
<1>2. IsFiniteSet(CrewMinutes(vs))
  BY <1>1, FS_Subset DEF CrewMinutes
<1>3. QED
  BY <1>2, FS_CardinalityType DEF Minutes

LEMMA MinutesGrow ==
  ASSUME NEW vs \in SUBSET Visit, NEW ws \in SUBSET vs
  PROVE  Minutes(ws) <= Minutes(vs)
<1>1. CrewMinutes(ws) \in SUBSET CrewMinutes(vs)
  BY DEF CrewMinutes
<1>2. QED
  BY <1>1, MinutesType, FS_Subset DEF Minutes

LEMMA MinutesOfOne == ASSUME NEW v \in Visit PROVE Minutes({v}) = Work[v]
<1>0. Work[v] \in 0 .. MaxWork /\ MaxWork \in Nat
  BY WriterAssumption
<1>1. CrewMinutes({v}) = {v} \X (1 .. Work[v])
  BY <1>0 DEF CrewMinutes
<1>2. IsFiniteSet(1 .. Work[v]) /\ Cardinality(1 .. Work[v]) = Work[v]
  <2>1. Work[v] \in Int /\ 1 \in Int
    BY <1>0
  <2>2. /\ IsFiniteSet(1 .. Work[v])
        /\ Cardinality(1 .. Work[v]) = IF 1 > Work[v] THEN 0 ELSE Work[v] - 1 + 1
    BY <2>1, FS_Interval
  <2>3. Work[v] \in Nat
    BY <1>0
  <2>4. (IF 1 > Work[v] THEN 0 ELSE Work[v] - 1 + 1) = Work[v]
    BY <2>3
  <2>5. QED
    BY <2>2, <2>4
<1>3. IsFiniteSet({v}) /\ Cardinality({v}) = 1
  BY FS_Singleton
<1>4. Cardinality({v} \X (1 .. Work[v])) = 1 * Work[v]
  <2>1. Cardinality({v} \X (1 .. Work[v])) = Cardinality({v}) * Cardinality(1 .. Work[v])
    BY <1>2, <1>3, FS_Product
  <2>2. QED
    BY <1>2, <1>3, <2>1
<1>5. Cardinality(CrewMinutes({v})) = 1 * Work[v]
  BY <1>1, <1>4
<1>6. Work[v] \in Nat
  BY <1>0
<1>7. QED
  BY <1>5, <1>6 DEF Minutes

LEMMA MinutesAdd ==
  ASSUME NEW vs \in SUBSET Visit, NEW v \in Visit \ vs
  PROVE  Minutes(vs \cup {v}) = Minutes(vs) + Work[v]
<1>1. CrewMinutes(vs \cup {v}) = CrewMinutes(vs) \cup CrewMinutes({v})
  BY DEF CrewMinutes
<1>2. CrewMinutes(vs) \cap CrewMinutes({v}) = {}
  BY DEF CrewMinutes
<1>3. IsFiniteSet(CrewMinutes(vs)) /\ IsFiniteSet(CrewMinutes({v})) /\ Minutes(vs) \in Nat
  BY MinutesType
<1>4. Cardinality(CrewMinutes(vs) \cup CrewMinutes({v}))
        = Cardinality(CrewMinutes(vs)) + Cardinality(CrewMinutes({v})) - Cardinality({})
  BY <1>2, <1>3, FS_Union
<1>5. Cardinality({}) = 0
  BY FS_EmptySet
<1>6. Work[v] \in Nat /\ Cardinality(CrewMinutes({v})) = Work[v]
  BY WriterAssumption, MinutesOfOne DEF Minutes
<1>7. Cardinality(CrewMinutes(vs \cup {v})) = Cardinality(CrewMinutes(vs)) + Work[v] - 0
  BY <1>1, <1>4, <1>5, <1>6
<1>8. QED
  BY <1>3, <1>6, <1>7 DEF Minutes

-----------------------------------------------------------------------------
LEMMA TargetsType ==
  ASSUME TypeInv, NEW r \in Run, tx[r].pc # "idle"
  PROVE  /\ Targets(r) \subseteq Day /\ tx[r].scope \subseteq Visit /\ tx[r].op = "solve"
         /\ \A v \in Visit : Moves(r, v) => v \in tx[r].scope /\ tx[r].plan[v].day \in Targets(r)
         /\ \A v \in Visit : tx[r].done[v] = "moved" => v \in tx[r].scope
         /\ tx[r].ledger \in [Day -> Nat] /\ tx[r].done \in [Visit -> {"todo", "moved", "stayed", "unassigned"}]
<1> USE DEF Proc
<1>1. tx[r] \in Tx /\ ShapeOf(r, tx[r])
  BY DEF TypeInv, TypeOK, Shape
<1>2. tx[r].op = "solve" /\ tx[r].scope \subseteq Visit /\ tx[r].ledger \in [Day -> Nat]
      /\ tx[r].done \in [Visit -> {"todo", "moved", "stayed", "unassigned"}]
  BY <1>1 DEF ShapeOf, Tx
<1>3. \A v \in Visit : Moves(r, v) => v \in tx[r].scope /\ tx[r].plan[v].day \in Day
  BY <1>1, <1>2 DEF ShapeOf, Moves
<1>4. \A v \in Visit : tx[r].done[v] = "moved" => v \in tx[r].scope
  BY <1>1 DEF ShapeOf
<1>5. QED
  BY <1>2, <1>3, <1>4 DEF Targets

(* The day lock of a solve is taken once and released when the solve ends. *)
LEMMA DayLockKept ==
  ASSUME TypeInv, [Next]_vars, NEW q \in Proc, tx'[q] = tx[q], tx[q].pc # "idle", NEW d \in Day, dayLock[d] = q
  PROVE  dayLock'[d] = q
<1>0. q # None
  BY WriterAssumption DEF Proc
<1>1. ASSUME NEW p \in Proc, Finish(p), p # q PROVE dayLock'[d] = q
  BY <1>1 DEF Finish, Release
<1>2. ~ Finish(q)
  BY FinishFrame
<1>3. ASSUME NEW p \in Proc, NEW days, LockDays(p, days) PROVE dayLock'[d] = q
  BY <1>0, <1>3 DEF LockDays
<1>4. ASSUME NEW p \in Proc, LockVisits(p) PROVE dayLock'[d] = q
  BY <1>4 DEF LockVisits
<1>5. ASSUME NEW p \in Proc, Abort(p) \/ Commit(p) PROVE dayLock'[d] = q
  BY <1>1, <1>2, <1>5, CommitFrame DEF Abort
<1>6. ASSUME NEW p \in Proc, Opens(p) PROVE dayLock'[d] = q
  BY <1>6 DEF Opens, SolveSnapshot, OpenRequest, OpenAssign, OpenUnassign, OpenAdjust, OpenPin, OpenUnpin,
              OpenPublish, Open
<1>7. ASSUME NEW p \in Proc, Thinks(p) PROVE dayLock'[d] = q
  BY <1>3, <1>7 DEF Thinks, SolveCheck, JudgeEntry, Check, Judge
<1>8. OutsideEdit => dayLock' = dayLock
  BY DEF OutsideEdit, SetLocked, Withdraw
<1>9. QED
  BY <1>4, <1>5, <1>6, <1>7, <1>8, Steps DEF vars

(* Only a solve brings a visit nobody placed by hand to another day. *)
LEMMA OnlySolvesBring ==
  ASSUME WritersInv, [Next]_vars, NEW v \in Visit, ~ visits'[v].adjusted
  PROVE  /\ ~ visits[v].adjusted
         /\ \/ visits'[v].day = visits[v].day
            \/ \E p \in Run : SolveCommit(p) /\ v \in tx[p].scope /\ tx[p].done[v] = "moved"
                              /\ visits'[v].day = tx[p].plan[v].day /\ Moves(p, v)
<1> USE DEF Proc
<1>0. visits \in [Visit -> VisitRow] /\ visits[v] \in VisitRow
  BY DEF WritersInv, TypeInv, TypeOK, VisitRow
<1>1. ASSUME NEW r \in Run, SolveCommit(r), v \in tx[r].scope
      PROVE  /\ visits'[v].adjusted = visits[v].adjusted /\ visits'[v].day = DayAfter(r, v)
             /\ DayAfter(r, v) # visits[v].day => Moves(r, v)
  <2>1. visits'[v].adjusted = visits[v].adjusted
    BY <1>0, <1>1 DEF SolveCommit, VisitRow
  <2>2. QED
    BY <1>1, <2>1, SolveLands
<1>2. ASSUME NEW m \in Manager, AdjustCommit(m), v \in tx[m].scope PROVE FALSE
  <2>1. v = Target(m)
    BY <1>2, OneTarget DEF AdjustCommit, Ready, WritersInv
  <2>2. visits'[v].adjusted = TRUE
    BY <1>0, <1>2, <2>1 DEF AdjustCommit, VisitRow
  <2>3. QED
    BY <2>2
<1>3. ASSUME NEW m \in Manager, AssignCommit(m) \/ UnassignCommit(m) \/ PinCommit(m) \/ PublishCommit(m)
      PROVE  visits'[v].adjusted = visits[v].adjusted
  <2>1. CASE AssignCommit(m)
    BY <1>0, <2>1 DEF AssignCommit, VisitRow
  <2>2. CASE UnassignCommit(m)
    BY <1>0, <2>2 DEF UnassignCommit, VisitRow
  <2>3. CASE PinCommit(m)
    <3>1. visits' = [visits EXCEPT ![Target(m)].rev = @ + 1]
      BY <2>3 DEF PinCommit
    <3>2. QED
      BY <1>0, <3>1 DEF VisitRow
  <2>4. CASE PublishCommit(m)
    BY <2>4 DEF PublishCommit
  <2>5. QED
    BY <1>3, <2>1, <2>2, <2>3, <2>4
<1>4. ASSUME NEW m \in Manager, Commit(m), ~ AdjustCommit(m) PROVE visits'[v].day = visits[v].day
  BY <1>4, OnlyAdjustMoves
<1>5. ASSUME NEW p \in Proc, Commit(p), v \notin tx[p].scope PROVE visits'[v] = visits[v]
  BY <1>5, CommitFrame DEF WritersInv
<1>6. CASE OutsideEdit
  <2>1. ASSUME NEW w \in Visit, NEW locked \in BOOLEAN, SetLocked(w, locked)
        PROVE  visits'[v].adjusted = visits[v].adjusted
    BY <1>0, <2>1 DEF SetLocked, VisitRow
  <2>2. ASSUME NEW w \in Visit, Withdraw(w)
        PROVE  visits'[v].adjusted = visits[v].adjusted
    BY <1>0, <2>2 DEF Withdraw, VisitRow
  <2>3. visits'[v].adjusted = visits[v].adjusted
    BY <1>6, <2>1, <2>2 DEF OutsideEdit
  <2>4. QED
    BY <1>6, <2>3, OutsideKeeps
<1>7. ASSUME NEW r \in Run, SolveCommit(r), v \in tx[r].scope, visits'[v].day # visits[v].day
      PROVE  tx[r].done[v] = "moved" /\ visits'[v].day = tx[r].plan[v].day /\ Moves(r, v)
  BY <1>1, <1>7 DEF DayAfter
<1>8. ASSUME NEW p \in Proc, Commit(p), v \in tx[p].scope
      PROVE  /\ ~ visits[v].adjusted
             /\ \/ visits'[v].day = visits[v].day
                \/ \E r \in Run : SolveCommit(r) /\ v \in tx[r].scope /\ tx[r].done[v] = "moved"
                                  /\ visits'[v].day = tx[r].plan[v].day /\ Moves(r, v)
  <2>1. CASE p \in Run /\ SolveCommit(p)
    BY <1>1, <1>7, <1>8, <2>1
  <2>2. CASE p \in Manager /\ AdjustCommit(p)
    BY <1>2, <1>8, <2>2
  <2>3. CASE p \in Manager /\ (AssignCommit(p) \/ UnassignCommit(p) \/ PinCommit(p) \/ PublishCommit(p))
    BY <1>2, <1>3, <1>4, <1>8, <2>3
  <2>4. QED
    BY <1>8, <2>1, <2>2, <2>3 DEF Commit
<1>9. QED
  BY <1>5, <1>6, <1>8, CommitOrKept

LEMMA StandType == \A r, d : WillStand(r, d) \in SUBSET Visit /\ PlacedBySystem(d) \in SUBSET Visit
  BY DEF WillStand, PlacedBySystem

LEMMA RunIsLocked ==
  ASSUME WritersInv, NEW r \in Run, tx[r].pc = "days", [Next]_vars, tx'[r] = tx[r]
  PROVE  \A v \in tx[r].scope : v \in Visit /\ visits'[v] = visits[v] /\ rows'[v] = rows[v]
<1> USE DEF Proc
<1>1. \A v \in tx[r].scope : v \in Visit /\ visitLock[v] = r
  BY TargetsType DEF WritersInv, Locks, Locked
<1>2. QED
  BY <1>1, NobodyWritesALockedVisit DEF WritersInv

(* Nobody else brings work to the days a solve has counted. *)
LEMMA LedgerStable ==
  ASSUME WritersInv, \A p \in Run : LedgerHolds(p), [Next]_vars, NEW r \in Run, tx'[r] = tx[r]
  PROVE  LedgerHolds(r)'
<1> SUFFICES ASSUME tx[r].pc = "days"
             PROVE  /\ \A v \in tx[r].scope : tx[r].done[v] = "moved" => Moves(r, v)'
                    /\ \A d \in Targets(r)' :
                         /\ dayLock'[d] = r
                         /\ Minutes(WillStand(r, d)') <= tx[r].ledger[d]
                         /\ LandsOn(r, d)' => tx[r].ledger[d] <= Cap[d]
  BY DEF LedgerHolds, Minutes
<1> USE DEF Proc
<1>0. /\ Targets(r) \subseteq Day /\ tx[r].scope \subseteq Visit
      /\ \A v \in Visit : tx[r].done[v] = "moved" => v \in tx[r].scope
      /\ tx[r].ledger \in [Day -> Nat]
  BY TargetsType DEF WritersInv
<1>1. \A v \in tx[r].scope : visits'[v] = visits[v]
  BY RunIsLocked
<1>2. \A v \in tx[r].scope : Moves(r, v)' <=> Moves(r, v)
  BY <1>1 DEF Moves
<1>3. Targets(r)' = Targets(r)
  BY <1>2 DEF Targets
<1>4. ASSUME NEW d \in Targets(r)
      PROVE  /\ dayLock'[d] = r
             /\ Minutes(WillStand(r, d)') <= tx[r].ledger[d]
             /\ LandsOn(r, d)' => tx[r].ledger[d] <= Cap[d]
  <2>1. dayLock[d] = r /\ Minutes(WillStand(r, d)) <= tx[r].ledger[d]
        /\ (LandsOn(r, d) => tx[r].ledger[d] <= Cap[d])
    BY <1>4 DEF LedgerHolds
  <2>2. dayLock'[d] = r
    BY <1>0, <2>1, DayLockKept DEF WritersInv
  <2>3. ASSUME NEW v \in WillStand(r, d)' PROVE v \in WillStand(r, d)
    <3>0. v \in Visit /\ DayAfter(r, v)' = d /\ ~ visits'[v].adjusted
      BY <2>3 DEF WillStand
    <3>1. CASE v \in tx[r].scope
      BY <1>1, <3>0, <3>1 DEF WillStand, DayAfter
    <3>2. CASE v \notin tx[r].scope
      <4>1. tx[r].done[v] # "moved"
        BY <1>0, <3>0, <3>2
      <4>2. visits'[v].day = d /\ DayAfter(r, v) = visits[v].day
        BY <3>0, <4>1 DEF DayAfter
      <4>3. ASSUME NEW p \in Run, SolveCommit(p), v \in tx[p].scope, Moves(p, v), tx[p].plan[v].day = d
            PROVE  FALSE
        <5>1. tx[p].pc = "days" /\ d \in Targets(p)
          BY <4>3 DEF SolveCommit, Targets
        <5>2. p = r
          BY <2>1, <5>1 DEF LedgerHolds
        <5>3. tx'[p] = Idle
          BY <4>3, FinishFrame DEF SolveCommit, WritersInv
        <5>4. QED
          BY <5>1, <5>2, <5>3 DEF Idle
      <4>4. ~ visits[v].adjusted /\ visits'[v].day = visits[v].day
        BY <3>0, <4>2, <4>3, OnlySolvesBring
      <4>5. QED
        BY <3>0, <4>2, <4>4 DEF WillStand
    <3>3. QED
      BY <3>1, <3>2
  <2>4. /\ Minutes(WillStand(r, d)') <= Minutes(WillStand(r, d))
        /\ Minutes(WillStand(r, d)') \in Nat /\ Minutes(WillStand(r, d)) \in Nat
    <3> DEFINE now == WillStand(r, d)
               then == WillStand(r, d)'
    <3>1. now \in SUBSET Visit /\ then \in SUBSET now /\ then \in SUBSET Visit
      BY <2>3, StandType
    <3> HIDE DEF now, then
    <3>2. Minutes(then) <= Minutes(now) /\ Minutes(then) \in Nat /\ Minutes(now) \in Nat
      BY <3>1, MinutesGrow, MinutesType
    <3>3. QED
      BY <3>2 DEF now, then
  <2>5. tx[r].ledger[d] \in Nat
    BY <1>0
  <2>6. LandsOn(r, d)' <=> LandsOn(r, d)
    BY DEF LandsOn
  <2>7. Minutes(WillStand(r, d)') <= tx[r].ledger[d]
    BY <2>1, <2>4, <2>5
  <2>8. QED
    BY <2>1, <2>2, <2>6, <2>7
<1>5. QED
  BY <1>2, <1>3, <1>4 DEF LedgerHolds

(* Under the day locks the solve counts everything that stands there. *)
LEMMA LedgerCounted ==
  ASSUME WritersInv, NEW r \in Run, SolveCheck(r)
  PROVE  LedgerHolds(r)'
<1> USE DEF Proc
<1>0. tx[r] \in Tx /\ ShapeOf(r, tx[r]) /\ tx[r].pc = "visits"
  BY DEF SolveCheck, WritersInv, TypeInv, TypeOK, Shape
<1>1. \A v \in Visit : tx[r].done[v] = "todo"
  BY <1>0 DEF ShapeOf, Tx
<1>2. /\ tx'[r].done = tx[r].done /\ tx'[r].plan = tx[r].plan /\ tx'[r].scope = tx[r].scope
      /\ visits' = visits
      /\ Targets(r) # {} => tx'[r].ledger = [d \in Day |-> Load(d)]
  BY <1>0 DEF SolveCheck, Tx, WritersInv, TypeInv, TypeOK
<1>3. Targets(r) \subseteq Day /\ tx[r].scope \subseteq Visit
  BY <1>0, TargetsType DEF WritersInv
<1>4. Targets(r)' = Targets(r)
  BY <1>2 DEF Targets, Moves
<1>5. ASSUME NEW d \in Targets(r)
      PROVE  /\ dayLock'[d] = r /\ ~ LandsOn(r, d)'
             /\ Minutes(WillStand(r, d)') <= tx'[r].ledger[d]
  <2>1. dayLock'[d] = r
    BY <1>3 DEF SolveCheck, LockDays
  <2>2. ~ LandsOn(r, d)'
    BY <1>1, <1>2 DEF LandsOn
  <2>3. WillStand(r, d)' \in SUBSET {v \in Visit : visits[v].day = d}
    BY <1>1, <1>2 DEF WillStand, DayAfter
  <2>4. tx'[r].ledger[d] = Load(d)
    BY <1>2, <1>3
  <2>5. Minutes(WillStand(r, d)') <= Minutes({v \in Visit : visits[v].day = d})
    <3> DEFINE then == WillStand(r, d)'
    <3> HIDE DEF then
    <3>1. then \in SUBSET {v \in Visit : visits[v].day = d}
      BY <2>3 DEF then
    <3>2. Minutes(then) <= Minutes({v \in Visit : visits[v].day = d})
      BY <3>1, MinutesGrow
    <3>3. QED
      BY <3>2 DEF then
  <2>6. QED
    BY <2>1, <2>2, <2>4, <2>5 DEF Load, Minutes
<1>6. QED
  BY <1>1, <1>2, <1>3, <1>4, <1>5 DEF LedgerHolds, Minutes

LEMMA RecordedMove ==
  ASSUME NEW l \in [Day -> Nat], NEW v \in Visit, NEW from \in Day, NEW to \in Day, from # to
  PROVE  LET after == RecordMove(l, v, from, to) IN
         /\ after[to] = l[to] + Work[v]
         /\ after[from] = IF l[from] < Work[v] THEN 0 ELSE l[from] - Work[v]
         /\ \A d \in Day \ {from, to} : after[d] = l[d]
<1>1. Work[v] \in Nat
  BY WriterAssumption
<1> DEFINE taken == [l EXCEPT ![from] = IF @ < Work[v] THEN 0 ELSE @ - Work[v]]
<1>2. taken[from] = (IF l[from] < Work[v] THEN 0 ELSE l[from] - Work[v])
      /\ \A d \in Day \ {from} : taken[d] = l[d]
  OBVIOUS
<1>3. taken \in [Day -> Nat]
  BY <1>1
<1>4. RecordMove(l, v, from, to) = [taken EXCEPT ![to] = @ + Work[v]]
  BY DEF RecordMove
<1> HIDE DEF taken
<1>5. QED
  BY <1>2, <1>3, <1>4

(* What a verdict does to the transaction. *)
LEMMA Verdict ==
  ASSUME WritersInv, NEW r \in Run, NEW v \in Visit, JudgeEntry(r, v)
  PROVE  /\ visits' = visits /\ dayLock' = dayLock /\ tx[r].pc = "days" /\ v \in tx[r].scope
         /\ tx[r].done[v] = "todo" /\ tx[r].plan[v].kind = "assign"
         /\ tx'[r].pc = "days" /\ tx'[r].plan = tx[r].plan /\ tx'[r].scope = tx[r].scope
         /\ \A w \in Visit \ {v} : tx'[r].done[w] = tx[r].done[w]
         /\ \/ /\ Moves(r, v) /\ AdmitsMoveOnto(r, v) /\ tx'[r].done[v] = "moved"
               /\ tx'[r].ledger = RecordMove(tx[r].ledger, v, visits[v].day, tx[r].plan[v].day)
            \/ tx'[r].done[v] # "moved" /\ tx'[r].ledger = tx[r].ledger
<1> USE DEF Proc
<1>0. tx[r] \in Tx /\ tx = [p \in Proc |-> tx[p]]
  BY DEF WritersInv, TypeInv, TypeOK
<1>1. /\ visits' = visits /\ dayLock' = dayLock /\ tx[r].pc = "days" /\ v \in tx[r].scope
      /\ tx[r].done[v] = "todo" /\ tx[r].plan[v].kind = "assign"
  BY DEF JudgeEntry
<1>2. ASSUME Moves(r, v), AdmitsMoveOnto(r, v),
             tx' = [tx EXCEPT ![r].done[v] = "moved",
                              ![r].ledger = RecordMove(@, v, visits[v].day, tx[r].plan[v].day)]
      PROVE  /\ tx'[r].pc = "days" /\ tx'[r].plan = tx[r].plan /\ tx'[r].scope = tx[r].scope
             /\ \A w \in Visit \ {v} : tx'[r].done[w] = tx[r].done[w]
             /\ tx'[r].done[v] = "moved"
             /\ tx'[r].ledger = RecordMove(tx[r].ledger, v, visits[v].day, tx[r].plan[v].day)
  <2> DEFINE l == RecordMove(tx[r].ledger, v, visits[v].day, tx[r].plan[v].day)
  <2>1. tx'[r] = [tx[r] EXCEPT !.done = [tx[r].done EXCEPT ![v] = "moved"], !.ledger = l]
    BY <1>0, <1>2 DEF Tx
  <2> HIDE DEF l
  <2>2. /\ tx'[r].pc = "days" /\ tx'[r].plan = tx[r].plan /\ tx'[r].scope = tx[r].scope
        /\ \A w \in Visit \ {v} : tx'[r].done[w] = tx[r].done[w]
        /\ tx'[r].done[v] = "moved" /\ tx'[r].ledger = l
    BY <1>0, <1>1, <2>1 DEF Tx
  <2>3. QED
    BY <2>2 DEF l
<1>3. ASSUME NEW o \in {"stayed", "unassigned"}, tx' = [tx EXCEPT ![r].done[v] = o]
      PROVE  /\ tx'[r].pc = "days" /\ tx'[r].plan = tx[r].plan /\ tx'[r].scope = tx[r].scope
             /\ \A w \in Visit \ {v} : tx'[r].done[w] = tx[r].done[w]
             /\ tx'[r].done[v] # "moved" /\ tx'[r].ledger = tx[r].ledger
  <2>1. tx'[r] = [tx[r] EXCEPT !.done = [tx[r].done EXCEPT ![v] = o]]
    BY <1>0, <1>3
  <2>2. QED
    BY <1>0, <1>1, <1>3, <2>1 DEF Tx
<1>4. \/ Moves(r, v) /\ AdmitsMoveOnto(r, v)
         /\ tx' = [tx EXCEPT ![r].done[v] = "moved",
                             ![r].ledger = RecordMove(@, v, visits[v].day, tx[r].plan[v].day)]
      \/ \E o \in {"stayed", "unassigned"} : tx' = [tx EXCEPT ![r].done[v] = o]
  BY DEF JudgeEntry
<1>5. QED
  BY <1>1, <1>2, <1>3, <1>4

(* A move is admitted against the ledger and recorded in it, so that the next  *)
(* one is weighed against both days as they will be.                          *)
LEMMA LedgerJudged ==
  ASSUME WritersInv, NEW r \in Run, LedgerHolds(r), NEW v \in Visit, JudgeEntry(r, v)
  PROVE  LedgerHolds(r)'
<1> USE DEF Proc
<1>0. /\ visits' = visits /\ dayLock' = dayLock /\ tx[r].pc = "days" /\ v \in tx[r].scope
      /\ tx[r].done[v] = "todo" /\ tx'[r].pc = "days" /\ tx'[r].plan = tx[r].plan /\ tx'[r].scope = tx[r].scope
      /\ \A w \in Visit \ {v} : tx'[r].done[w] = tx[r].done[w]
  BY Verdict
<1>1. /\ Targets(r) \subseteq Day /\ tx[r].scope \subseteq Visit /\ tx[r].ledger \in [Day -> Nat]
  BY <1>0, TargetsType DEF WritersInv
<1>2. (\A w \in Visit : Moves(r, w)' <=> Moves(r, w)) /\ Targets(r)' = Targets(r)
  BY <1>0 DEF Targets, Moves
<1>3. \A w \in Visit \ {v} : DayAfter(r, w)' = DayAfter(r, w)
  BY <1>0 DEF DayAfter
<1>4. DayAfter(r, v) = visits[v].day /\ visits[v].day \in Day
  BY <1>0 DEF DayAfter, WritersInv, TypeInv, TypeOK
<1>5. \A d \in Targets(r) : /\ dayLock[d] = r /\ Minutes(WillStand(r, d)) <= tx[r].ledger[d]
                            /\ (LandsOn(r, d) => tx[r].ledger[d] <= Cap[d])
  BY <1>0 DEF LedgerHolds
<1>6. CASE tx'[r].done[v] # "moved" /\ tx'[r].ledger = tx[r].ledger
  <2>1. DayAfter(r, v)' = DayAfter(r, v)
    BY <1>0, <1>4, <1>6 DEF DayAfter
  <2>2. \A d : WillStand(r, d)' = WillStand(r, d)
    BY <1>0, <1>3, <2>1 DEF WillStand
  <2>3. \A d : LandsOn(r, d)' => LandsOn(r, d)
    BY <1>0, <1>6 DEF LandsOn
  <2>4. \A w \in tx[r].scope : tx'[r].done[w] = "moved" => Moves(r, w)'
    BY <1>0, <1>1, <1>2, <1>6 DEF LedgerHolds
  <2>5. \A d : Minutes(WillStand(r, d))' = Minutes(WillStand(r, d))
    BY <2>2 DEF Minutes
  <2>6. QED
    BY <1>0, <1>2, <1>5, <1>6, <2>3, <2>4, <2>5 DEF LedgerHolds
<1>7. CASE /\ Moves(r, v) /\ AdmitsMoveOnto(r, v) /\ tx'[r].done[v] = "moved"
           /\ tx'[r].ledger = RecordMove(tx[r].ledger, v, visits[v].day, tx[r].plan[v].day)
  <2> DEFINE from == visits[v].day
             to == tx[r].plan[v].day
  <2>1. from \in Day /\ to \in Day /\ from # to /\ to \in Targets(r)
    BY <1>0, <1>1, <1>4, <1>7 DEF Moves, Targets
  <2>2. /\ tx'[r].ledger[to] = tx[r].ledger[to] + Work[v]
        /\ tx'[r].ledger[from] = IF tx[r].ledger[from] < Work[v] THEN 0 ELSE tx[r].ledger[from] - Work[v]
        /\ \A d \in Day \ {from, to} : tx'[r].ledger[d] = tx[r].ledger[d]
    BY <1>1, <1>7, <2>1, RecordedMove
  <2>3. ~ visits[v].adjusted
    BY <1>0, <1>7 DEF WritersInv, StillFound, Found, EntryStands
  <2>4. DayAfter(r, v)' = to
    BY <1>0, <1>7 DEF DayAfter
  <2>5. \A d \in Day :
          /\ d = to => WillStand(r, d)' = WillStand(r, d) \cup {v} /\ v \notin WillStand(r, d)
          /\ d = from => WillStand(r, d) = WillStand(r, d)' \cup {v} /\ v \notin WillStand(r, d)'
          /\ d \notin {from, to} => WillStand(r, d)' = WillStand(r, d)
    BY <1>0, <1>3, <1>4, <2>1, <2>3, <2>4 DEF WillStand
  <2>6. Work[v] \in Nat /\ Cap \in [Day -> Nat]
    BY WriterAssumption
  <2>7. \A w \in tx[r].scope : tx'[r].done[w] = "moved" => Moves(r, w)'
    BY <1>0, <1>1, <1>2, <1>7 DEF LedgerHolds
  <2>8. ASSUME NEW d \in Targets(r)
        PROVE  Minutes(WillStand(r, d)') <= tx'[r].ledger[d] /\ (LandsOn(r, d)' => tx'[r].ledger[d] <= Cap[d])
    <3>0. d \in Day /\ tx[r].ledger[d] \in Nat /\ Cap[d] \in Nat
      BY <1>1, <2>6
    <3>1. LandsOn(r, d)' => d = to \/ LandsOn(r, d)
      BY <1>0 DEF LandsOn
    <3> DEFINE now == WillStand(r, d)
               then == WillStand(r, d)'
    <3>2. now \in SUBSET Visit /\ then \in SUBSET Visit
      BY DEF WillStand
    <3>3. CASE d = to
      <4>1. tx'[r].ledger[d] <= Cap[d]
        BY <1>7, <2>2, <3>3 DEF AdmitsMoveOnto
      <4>2. then = now \cup {v} /\ v \in Visit \ now
        BY <2>5, <3>0, <3>3
      <4>3. Minutes(now) <= tx[r].ledger[d]
        BY <1>5
      <4> HIDE DEF now, then
      <4>4. Minutes(then) = Minutes(now) + Work[v] /\ Minutes(now) \in Nat
        BY <3>2, <4>2, MinutesAdd, MinutesType
      <4>5. Minutes(then) <= tx'[r].ledger[d]
        <5>1. tx'[r].ledger[d] = tx[r].ledger[d] + Work[v]
          BY <2>2, <3>3
        <5>2. QED
          BY <2>6, <3>0, <4>3, <4>4, <5>1
      <4>6. QED
        BY <4>1, <4>5 DEF then
    <3>4. CASE d = from
      <4>1. now = then \cup {v} /\ v \in Visit \ then
        BY <2>5, <3>0, <3>4
      <4>2. Minutes(now) <= tx[r].ledger[d] /\ (LandsOn(r, d) => tx[r].ledger[d] <= Cap[d])
        BY <1>5
      <4> HIDE DEF now, then
      <4>3. Minutes(now) = Minutes(then) + Work[v] /\ Minutes(then) \in Nat
        BY <3>2, <4>1, MinutesAdd, MinutesType
      <4>4. tx'[r].ledger[d] = tx[r].ledger[d] - Work[v]
        <5>1. ~ tx[r].ledger[d] < Work[v]
          BY <2>6, <3>0, <4>2, <4>3
        <5>2. QED
          BY <2>2, <3>4, <5>1
      <4>5. Minutes(then) <= tx'[r].ledger[d] /\ tx'[r].ledger[d] <= tx[r].ledger[d]
        BY <2>6, <3>0, <4>2, <4>3, <4>4
      <4>6. LandsOn(r, d)' => tx'[r].ledger[d] <= Cap[d]
        BY <2>1, <2>6, <3>0, <3>1, <3>4, <4>2, <4>4
      <4>7. QED
        BY <4>5, <4>6 DEF then
    <3>5. CASE d \notin {from, to}
      BY <1>5, <2>2, <2>5, <3>0, <3>1, <3>5
    <3>6. QED
      BY <3>3, <3>4, <3>5
  <2>9. QED
    BY <1>0, <1>2, <1>5, <2>7, <2>8 DEF LedgerHolds, Minutes
<1>8. QED
  BY <1>6, <1>7, Verdict

(* A step of the solve itself, of another transaction, or none. *)
LEMMA LedgersInductive ==
  ASSUME WritersInv, \A p \in Run : LedgerHolds(p), [Next]_vars, NEW r \in Run
  PROVE  LedgerHolds(r)'
<1> USE DEF Proc
<1>1. CASE tx'[r] = tx[r]
  BY <1>1, LedgerStable
<1>2. CASE LockVisits(r) \/ Abort(r) \/ Commit(r) \/ Opens(r)
  <2>1. tx'[r].pc # "days"
    BY <1>2, LockFrame, CommitFrame, FinishFrame, OpensFrame DEF WritersInv, Abort
  <2>2. QED
    BY <2>1 DEF LedgerHolds
<1>3. CASE Thinks(r)
  <2>1. SolveCheck(r) \/ \E v \in Visit : JudgeEntry(r, v)
    BY <1>3, WriterAssumption DEF Thinks
  <2>2. QED
    BY <2>1, LedgerCounted, LedgerJudged
<1>4. QED
  BY <1>1, <1>2, <1>3, Actor DEF WritersInv

(* What a landing solve leaves on a day it moved work to. *)
LEMMA LandedFits ==
  ASSUME WritersInv, NEW r \in Run, LedgerHolds(r), SolveCommit(r), [Next]_vars, NEW d \in Day, LandsOn(r, d)
  PROVE  Minutes(PlacedBySystem(d)') <= Cap[d]
<1> USE DEF Proc
<1>0. tx[r].pc = "days"
  BY DEF SolveCommit
<1>1. d \in Targets(r)
  BY <1>0, TargetsType DEF LandsOn, LedgerHolds, WritersInv, Targets
<1>2. Minutes(WillStand(r, d)) <= tx[r].ledger[d] /\ tx[r].ledger[d] <= Cap[d]
  BY <1>0, <1>1 DEF LedgerHolds
<1>3. ASSUME NEW v \in PlacedBySystem(d)' PROVE v \in WillStand(r, d)
  <2>0. v \in Visit /\ visits'[v].day = d /\ ~ visits'[v].adjusted
    BY <1>3 DEF PlacedBySystem
  <2>1. ~ visits[v].adjusted
    BY <2>0, OnlySolvesBring
  <2>2. CASE v \in tx[r].scope
    BY <2>0, <2>1, <2>2, SolveLands DEF WillStand
  <2>3. CASE v \notin tx[r].scope
    <3>1. visits'[v] = visits[v]
      BY <2>0, <2>3, CommitFrame DEF Commit, WritersInv
    <3>2. tx[r].done[v] # "moved"
      BY <1>0, <2>0, <2>3, TargetsType DEF WritersInv
    <3>3. QED
      BY <2>0, <2>1, <3>1, <3>2 DEF WillStand, DayAfter
  <2>4. QED
    BY <2>2, <2>3
<1>4. Minutes(PlacedBySystem(d)') <= Minutes(WillStand(r, d))
      /\ Minutes(PlacedBySystem(d)') \in Nat /\ Minutes(WillStand(r, d)) \in Nat
  <2> DEFINE now == WillStand(r, d)
             then == PlacedBySystem(d)'
  <2>1. now \in SUBSET Visit /\ then \in SUBSET now /\ then \in SUBSET Visit
    BY <1>3 DEF WillStand, PlacedBySystem
  <2> HIDE DEF now, then
  <2>2. Minutes(then) <= Minutes(now) /\ Minutes(then) \in Nat /\ Minutes(now) \in Nat
    BY <2>1, MinutesGrow, MinutesType
  <2>3. QED
    BY <2>2 DEF now, then
<1>5. tx[r].ledger[d] \in Nat /\ Cap[d] \in Nat
  BY <1>0, TargetsType, WriterAssumption DEF WritersInv
<1>6. QED
  BY <1>2, <1>4, <1>5

(* Any other step leaves on a day a part of what the system had placed there. *)
LEMMA OthersOnlyTakeAway ==
  ASSUME WritersInv, [Next]_vars, NEW d \in Day, ~ \E r \in Run : SolveCommit(r) /\ LandsOn(r, d),
         NEW v \in PlacedBySystem(d)'
  PROVE  v \in PlacedBySystem(d)
<1>1. v \in Visit /\ visits'[v].day = d /\ ~ visits'[v].adjusted
  BY DEF PlacedBySystem
<1>2. QED
  BY <1>1, OnlySolvesBring DEF PlacedBySystem, LandsOn

LEMMA FitInductive ==
  ASSUME WritersInv, LedgerInv, [Next]_vars
  PROVE  SystemMovesFit'
<1> SUFFICES ASSUME NEW d \in Day, NEW v \in Visit,
                    visits'[v].day = d, d # FirstDay[v], ~ visits'[v].adjusted
             PROVE  Minutes(PlacedBySystem(d)') <= Cap[d]
  BY DEF SystemMovesFit, PlacedBySystem, Minutes
<1>1. ASSUME NEW r \in Run, SolveCommit(r), LandsOn(r, d) PROVE Minutes(PlacedBySystem(d)') <= Cap[d]
  BY <1>1, LandedFits DEF LedgerInv
<1>2. CASE ~ \E r \in Run : SolveCommit(r) /\ LandsOn(r, d)
  <2> DEFINE now == PlacedBySystem(d)
             then == PlacedBySystem(d)'
  <2>1. v \in then
    BY DEF PlacedBySystem
  <2>2. now \in SUBSET Visit /\ then \in SUBSET now /\ then \in SUBSET Visit
    BY <1>2, OthersOnlyTakeAway DEF PlacedBySystem
  <2>3. v \in now
    BY <2>1, <2>2
  <2>4. Minutes(now) <= Cap[d]
    BY <2>3 DEF LedgerInv, SystemMovesFit, PlacedBySystem, Minutes
  <2> HIDE DEF now, then
  <2>5. Minutes(then) <= Minutes(now) /\ Minutes(then) \in Nat /\ Minutes(now) \in Nat /\ Cap[d] \in Nat
    BY <2>2, MinutesGrow, MinutesType, WriterAssumption
  <2>6. Minutes(then) <= Cap[d]
    BY <2>4, <2>5
  <2>7. QED
    BY <2>6 DEF then
<1>3. QED
  BY <1>1, <1>2

LEMMA LedgerInit == Init => LedgerInv
<1> SUFFICES ASSUME Init PROVE LedgerInv
  OBVIOUS
<1>1. \A r \in Run : tx[r].pc = "idle"
  BY DEF Init, Idle, Proc
<1>2. \A v \in Visit : visits[v].day = FirstDay[v]
  BY DEF Init
<1>3. QED
  BY <1>1, <1>2 DEF LedgerInv, LedgerHolds, SystemMovesFit

LEMMA LedgerInductive == WritersInv /\ LedgerInv /\ [Next]_vars => LedgerInv'
<1> SUFFICES ASSUME WritersInv, LedgerInv, [Next]_vars PROVE LedgerInv'
  OBVIOUS
<1>1. \A r \in Run : LedgerHolds(r)'
  BY LedgersInductive DEF LedgerInv
<1>2. QED
  BY <1>1, FitInductive DEF LedgerInv

(* Wherever the scheduler moved a visit, the work no manager placed by hand     *)
(* fits the day: solves that count the same days wait for each other, and the   *)
(* others only take work away.                                                 *)
THEOREM MovesFit == Spec => []SystemMovesFit
<1>1. Init => LedgerInv
  BY LedgerInit
<1>2. WritersInv /\ LedgerInv /\ [Next]_vars => LedgerInv'
  BY LedgerInductive
<1>3. LedgerInv => SystemMovesFit
  BY DEF LedgerInv
<1>4. QED
  BY <1>1, <1>2, <1>3, WritersAlways, PTL DEF Spec

==============================================================================
