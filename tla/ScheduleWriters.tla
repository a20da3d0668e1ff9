--------------------------- MODULE ScheduleWriters ---------------------------
(***************************************************************************)
(* Everybody who writes the schedule, side by side: the solver's result    *)
(* (persistResult), the manager's crew changes (assign, unassign), hand    *)
(* edits (adjust, setLocked), pins (lock, unlock), publication, and the    *)
(* withdrawal of published work by a repair.  Each is one database         *)
(* transaction at READ COMMITTED that reads something before it begins,    *)
(* takes row locks, checks what it read, judges the crews against the rows *)
(* other writers have committed, and commits.                              *)
(*                                                                         *)
(* Abstractions.  A day has one slot, so two bookings of an employee clash *)
(* exactly when they are on the same day.  The other eligibility rules may *)
(* refuse any crew at any time.  A writer takes all its visit locks in one *)
(* step, and its employee and branch-day locks with what it reads under    *)
(* them: the order inside a set only matters for deadlock.  A vehicle is   *)
(* booked and locked like an employee and is left out.  PROPOSED is        *)
(* treated as DRAFT in all this code, so DRAFT stands for both.            *)
(***************************************************************************)
EXTENDS Naturals, FiniteSets

CONSTANTS
  Visit, Employee, Day, \* one branch
  Run,                  \* schedule runs, each executed once
  Manager,              \* requests a manager can have open at a time
  None,                 \* the owner of a free lock, the day of an absent reason
  Crews,                \* the crews a solver or a manager may propose
  Horizons,             \* [Run -> SUBSET SUBSET Visit]: the dates a run may be asked for
  FirstDay,             \* [Visit -> Day]: where generation put each visit
  Legal,                \* [Visit -> SUBSET Day]: the candidate slots' days
  Work, MaxWork,        \* [Visit -> 0 .. MaxWork]: crew-minutes
  Cap,                  \* [Day -> Nat]: the crew-minutes a day may carry
  Scopes,               \* the pin scopes used, among CREW, TIME and FULL
  MaxEdits              \* bound: manager requests in a behaviour

ASSUME WriterAssumption ==
  /\ Horizons \in [Run -> SUBSET SUBSET Visit]
  /\ FirstDay \in [Visit -> Day]
  /\ Legal \in [Visit -> SUBSET Day]
  /\ IsFiniteSet(Visit) /\ MaxWork \in Nat /\ Work \in [Visit -> 0 .. MaxWork]
  /\ Cap \in [Day -> Nat]
  /\ Crews \subseteq (SUBSET Employee) \ {{}}
  /\ Scopes \subseteq {"CREW", "TIME", "FULL"}
  /\ MaxEdits \in Nat
  /\ Run \cap Manager = {}
  /\ None \notin Run \cup Manager \cup Day

Proc == Run \cup Manager

VARIABLES
  visits,     \* [Visit -> record]: generated_visits
  rows,       \* [Visit -> set of records]: assignments of the visit
  made,       \* [Visit -> Nat]: assignments ever created, for their identity
  runs,       \* [Run -> record]: schedule_runs
  tx,         \* [Proc -> record]: the open transaction of each writer
  visitLock, crewLock, dayLock, \* who holds each row or advisory lock
  edits       \* manager requests so far

vars == <<visits, rows, made, runs, tx, visitLock, crewLock, dayLock, edits>>

-----------------------------------------------------------------------------
(* Rows *)

Unpinned == [s \in Scopes |-> [held |-> FALSE, rev |-> 0]]
Pins == [Scopes -> [held : BOOLEAN, rev : Nat]]

\* The run of an assignment a manager made on a visit no run had staffed.
ByHand == None

Row == [id : Nat, crew : SUBSET Employee, day : Day,
        status : {"DRAFT", "PUBLISHED", "SUPERSEDED", "CANCELLED"},
        run : Run \cup {ByHand}, pins : Pins, rev : Nat]

Draft(id, c, d, r, p) ==
  [id |-> id, crew |-> c, day |-> d, status |-> "DRAFT", run |-> r, pins |-> p, rev |-> 0]

Drafts(v) == {a \in rows[v] : a.status = "DRAFT"}
Live(v) == {a \in rows[v] : a.status \in {"DRAFT", "PUBLISHED"}}
History(v) == {a \in rows[v] : a.status \in {"PUBLISHED", "SUPERSEDED"}}

Held(a, s) == s \in Scopes /\ a.pins[s].held
CrewPinned(a) == Held(a, "CREW") \/ Held(a, "FULL")
TimePinned(a) == Held(a, "TIME") \/ Held(a, "FULL")
Pinned(a) == \E s \in Scopes : Held(a, s)

\* Identity of a visit's live assignment, 0 when it has none.
LiveId(v) == IF Live(v) = {} THEN 0 ELSE (CHOOSE a \in Live(v) : TRUE).id

Plan == [kind : {"none", "unassign", "assign"}, crew : SUBSET Employee, day : Day \cup {None}]
NoPlan == [kind |-> "none", crew |-> {}, day |-> None]

Idle == [pc |-> "idle", op |-> "none", scope |-> {}, crew |-> {},
         ids |-> [v \in Visit |-> 0], revs |-> [v \in Visit |-> 0],
         plan |-> [v \in Visit |-> NoPlan], pin |-> "none", run |-> None, ack |-> FALSE,
         done |-> [v \in Visit |-> "todo"], ledger |-> [d \in Day |-> 0]]

\* The crew-minutes of a set of visits, one by one, and what stands on a day.
CrewMinutes(vs) == {m \in Visit \X (1 .. MaxWork) : m[1] \in vs /\ m[2] <= Work[m[1]]}
Load(d) == Cardinality(CrewMinutes({v \in Visit : visits[v].day = d}))

-----------------------------------------------------------------------------
Init ==
  /\ visits = [v \in Visit |-> [day |-> FirstDay[v], status |-> "PENDING", rev |-> 0,
                                adjusted |-> FALSE, locked |-> FALSE, reason |-> None]]
  /\ rows = [v \in Visit |-> {}]
  /\ made = [v \in Visit |-> 0]
  /\ runs = [r \in Run |-> [status |-> "RUNNING", considered |-> 0, scheduled |-> 0,
                            published |-> FALSE]]
  /\ tx = [p \in Proc |-> Idle]
  /\ visitLock = [v \in Visit |-> None]
  /\ crewLock = [e \in Employee |-> None]
  /\ dayLock = [d \in Day |-> None]
  /\ edits = 0

Goto(p, pc) == tx' = [tx EXCEPT ![p].pc = pc]

Release(p) ==
  /\ visitLock' = [v \in Visit |-> IF visitLock[v] = p THEN None ELSE visitLock[v]]
  /\ crewLock' = [e \in Employee |-> IF crewLock[e] = p THEN None ELSE crewLock[e]]
  /\ dayLock' = [d \in Day |-> IF dayLock[d] = p THEN None ELSE dayLock[d]]

Finish(p) == Release(p) /\ tx' = [tx EXCEPT ![p] = Idle]

\* Mutant: the parent row is read without FOR UPDATE.
LockVisitsUnlocked(p) ==
  /\ tx[p].pc = "begun"
  /\ Goto(p, "visits")
  /\ UNCHANGED <<visits, rows, made, runs, visitLock, crewLock, dayLock, edits>>

\* lockScheduleVisits: waits until every visit of the writer is free.
LockVisits(p) ==
  /\ tx[p].pc = "begun"
  /\ \A v \in tx[p].scope : visitLock[v] = None
  /\ visitLock' = [v \in Visit |-> IF v \in tx[p].scope THEN p ELSE visitLock[v]]
  /\ Goto(p, "visits")
  /\ UNCHANGED <<visits, rows, made, runs, crewLock, dayLock, edits>>

\* Mutant: the employees are not locked.
ResourcesUnlocked(p, employees) == UNCHANGED crewLock

\* lockScheduleResources: the employees of every proposed or kept crew.
LockResources(p, employees) ==
  /\ \A e \in employees : crewLock[e] = None
  /\ crewLock' = [e \in Employee |-> IF e \in employees THEN p ELSE crewLock[e]]

\* A refused check, an ineligible crew, the 30 second transaction timeout or
\* a lost process: everything rolls back.  A solve that cannot be saved fails.
Abort(p) ==
  /\ tx[p].pc # "idle"
  /\ Finish(p)
  /\ runs' = IF p \in Run THEN [runs EXCEPT ![p].status = "FAILED"] ELSE runs
  /\ UNCHANGED <<visits, rows, made, edits>>

-----------------------------------------------------------------------------
(* The rule every writer keeps: a visit that was ever published is closed,  *)
(* and the draft is the one the writer read before (assertScheduleSnapshot). *)

Unpublished(v) == History(v) = {}

\* Mutant: the draft found under the lock is not compared with the snapshot.
SnapshotUnread(v, id) == Unpublished(v)

SnapshotHolds(v, id) ==
  /\ Unpublished(v)
  /\ {a.id : a \in Drafts(v)} = IF id = 0 THEN {} ELSE {id}

\* Mutant: earlier results of the same transaction are not seen.
FreeForCommitted(p, v, own, c, d) ==
  \A w \in Visit : tx[p].done[w] = "todo" =>
    \A a \in Live(w) : ~ (w = v /\ a.id = own) /\ a.day = d => a.crew \cap c = {}

\* Who is booked on what, as transaction p sees it: committed live rows of
\* the visits it has not rewritten yet, and its own earlier writes.
FreeFor(p, v, own, c, d) ==
  /\ \A w \in Visit : tx[p].done[w] = "todo" =>
       \A a \in Live(w) : ~ (w = v /\ a.id = own) /\ a.day = d => a.crew \cap c = {}
  /\ \A w \in Visit \ {v} :
       /\ tx[p].done[w] = "moved" /\ tx[p].plan[w].day = d => tx[p].plan[w].crew \cap c = {}
       /\ tx[p].done[w] = "stayed" /\ visits[w].day = d => tx[p].plan[w].crew \cap c = {}

-----------------------------------------------------------------------------
(* The solver's result: executeLeased reads a snapshot, the solver proposes, *)
(* persistResult saves all of it or nothing.                                 *)

Answers == [kind : {"assign"}, crew : Crews, day : Day] \cup {[NoPlan EXCEPT !.kind = "unassign"]}

\* What the run is asked to solve (buildSolveRequest): a visit whose live
\* assignment is published is settled, any other visit of the dates is offered.
Considered(horizon) == {v \in horizon : \A a \in Live(v) : a.status = "DRAFT"}

SolveRequest(horizon, plan) ==
  LET vs == Considered(horizon) IN
  [Idle EXCEPT !.pc = "begun", !.op = "solve", !.scope = vs,
               !.crew = UNION {plan[v].crew : v \in vs},
               !.ids = [v \in Visit |-> IF v \in vs THEN LiveId(v) ELSE 0],
               !.revs = [v \in Visit |-> visits[v].rev],
               !.plan = [v \in Visit |-> IF v \in vs THEN plan[v] ELSE NoPlan]]

\* The snapshot and the solver's answer: any crew and any legal day, or nobody.
SolveSnapshot(r) ==
  /\ runs[r].status = "RUNNING" /\ tx[r].pc = "idle"
  /\ \E horizon \in Horizons[r] : \E plan \in [Considered(horizon) -> Answers] :
       /\ \A v \in Considered(horizon) : plan[v].kind = "assign" =>
            plan[v].day \in Legal[v] \cup {visits[v].day}
       /\ tx' = [tx EXCEPT ![r] = SolveRequest(horizon, plan)]
       /\ runs' = [runs EXCEPT ![r].considered = Cardinality(Considered(horizon))]
  /\ UNCHANGED <<visits, rows, made, visitLock, crewLock, dayLock, edits>>

Moves(p, v) == tx[p].plan[v].kind = "assign" /\ tx[p].plan[v].day # visits[v].day

\* Mutant: a manager's lock or hand edit of the date is not looked at.
EntryStandsUnprotected(r, v) ==
  LET plan == tx[r].plan[v] IN
  /\ SnapshotHolds(v, tx[r].ids[v])
  /\ visits[v].rev = tx[r].revs[v]
  /\ Moves(r, v) => plan.day \in Legal[v]
  /\ \A a \in Drafts(v) :
       /\ plan.kind = "unassign" => ~ Pinned(a)
       /\ plan.kind = "assign" /\ TimePinned(a) => ~ Moves(r, v)
       /\ plan.kind = "assign" /\ CrewPinned(a) => plan.crew = a.crew

\* What the result may do to one visit, after every lock (persistResult's loop
\* over the entries): nothing the solver did not know, nothing a manager holds.
EntryStands(r, v) ==
  LET plan == tx[r].plan[v] IN
  /\ SnapshotHolds(v, tx[r].ids[v])
  /\ visits[v].rev = tx[r].revs[v]
  /\ Moves(r, v) => ~ visits[v].adjusted /\ ~ visits[v].locked /\ plan.day \in Legal[v]
  /\ \A a \in Drafts(v) :
       /\ plan.kind = "unassign" => ~ Pinned(a)
       /\ plan.kind = "assign" /\ TimePinned(a) => ~ Moves(r, v)
       /\ plan.kind = "assign" /\ CrewPinned(a) => plan.crew = a.crew

Targets(r) == {tx[r].plan[v].day : v \in {w \in tx[r].scope : Moves(r, w)}}

\* Mutant: the days are counted without being locked.
CountDays(p, days) == UNCHANGED dayLock

\* lockBranchDays.
LockDays(p, days) ==
  /\ \A d \in days : dayLock[d] = None
  /\ dayLock' = [d \in Day |-> IF d \in days THEN p ELSE dayLock[d]]

\* The crews are locked, the entries checked, then lockAndReadDailyLoad: the
\* days a move could land on are locked, and only then counted.
SolveCheck(r) ==
  /\ tx[r].pc = "visits"
  /\ LockResources(r, tx[r].crew)
  /\ \A v \in tx[r].scope : EntryStands(r, v)
  /\ LockDays(r, Targets(r))
  /\ tx' = [tx EXCEPT ![r].pc = "days",
                      ![r].ledger = IF Targets(r) = {} THEN @ ELSE [d \in Day |-> Load(d)]]
  /\ UNCHANGED <<visits, rows, made, runs, visitLock, edits>>

AdmitsMoveOnto(p, v) == tx[p].ledger[tx[p].plan[v].day] + Work[v] <= Cap[tx[p].plan[v].day]

RecordMove(ledger, v, from, to) ==
  LET taken == [ledger EXCEPT ![from] = IF @ < Work[v] THEN 0 ELSE @ - Work[v]]
  IN  [taken EXCEPT ![to] = @ + Work[v]]

\* The draft this writer replaces, when there is one.
Replaced(p, v) == {a \in Drafts(v) : a.id = tx[p].ids[v]}

\* One proposal: on the proposed day when the day has room and the engine
\* agrees, else on the visit's own day, else nobody; never nobody over a pin.
JudgeEntry(r, v) ==
  /\ tx[r].pc = "days"
  /\ v \in tx[r].scope /\ tx[r].plan[v].kind = "assign" /\ tx[r].done[v] = "todo"
  /\ LET plan == tx[r].plan[v] IN
       \/ /\ Moves(r, v) /\ AdmitsMoveOnto(r, v) /\ FreeFor(r, v, tx[r].ids[v], plan.crew, plan.day)
          /\ tx' = [tx EXCEPT ![r].done[v] = "moved",
                              ![r].ledger = RecordMove(@, v, visits[v].day, plan.day)]
       \/ /\ FreeFor(r, v, tx[r].ids[v], plan.crew, visits[v].day)
          /\ tx' = [tx EXCEPT ![r].done[v] = "stayed"]
       \/ /\ \A a \in Replaced(r, v) : ~ Pinned(a)
          /\ tx' = [tx EXCEPT ![r].done[v] = "unassigned"]
  /\ UNCHANGED <<visits, rows, made, runs, visitLock, crewLock, dayLock, edits>>

Staffs(p, v) == tx[p].done[v] \in {"moved", "stayed"}
DayAfter(p, v) == IF tx[p].done[v] = "moved" THEN tx[p].plan[v].day ELSE visits[v].day

\* The pins of the replaced draft go to its replacement.
Inherited(p, v) == IF Replaced(p, v) = {} THEN Unpinned ELSE (CHOOSE a \in Replaced(p, v) : TRUE).pins

\* persist and recordUnassigned for every entry, and finish, in one commit.
SolveCommit(r) ==
  /\ tx[r].pc = "days"
  /\ \A v \in tx[r].scope : tx[r].plan[v].kind = "assign" => tx[r].done[v] # "todo"
  /\ rows' = [v \in Visit |->
       IF v \notin tx[r].scope THEN rows[v]
       ELSE IF Staffs(r, v)
            THEN (rows[v] \ Replaced(r, v)) \cup
                   {Draft(made[v] + 1, tx[r].plan[v].crew, DayAfter(r, v), r, Inherited(r, v))}
            ELSE (rows[v] \ Replaced(r, v)) \cup {[a EXCEPT !.status = "CANCELLED"] : a \in Replaced(r, v)}]
  /\ made' = [v \in Visit |-> IF v \in tx[r].scope /\ Staffs(r, v) THEN made[v] + 1 ELSE made[v]]
  /\ visits' = [v \in Visit |->
       IF v \notin tx[r].scope THEN visits[v]
       ELSE [visits[v] EXCEPT !.rev = @ + 1,
                              !.status = IF Staffs(r, v) THEN "SCHEDULED" ELSE "UNASSIGNED",
                              !.day = DayAfter(r, v),
                              !.reason = IF Staffs(r, v) THEN None ELSE visits[v].day]]
  /\ runs' = [runs EXCEPT ![r].status = "SUCCEEDED",
                          ![r].scheduled = Cardinality({v \in tx[r].scope : Staffs(r, v)})]
  /\ Finish(r)
  /\ UNCHANGED edits

-----------------------------------------------------------------------------
(* Managers.  Every request reads what the screen shows before its           *)
(* transaction begins, and the transaction compares.                         *)

Open(m, request) ==
  /\ tx[m].pc = "idle" /\ edits < MaxEdits
  /\ tx' = [tx EXCEPT ![m] = request]
  /\ edits' = edits + 1
  /\ UNCHANGED <<visits, rows, made, runs, visitLock, crewLock, dayLock>>

Request(op, v) ==
  [Idle EXCEPT !.pc = "begun", !.op = op, !.scope = {v}, !.ids[v] = LiveId(v)]

OpenAssign(m, v, c) == Open(m, [Request("assign", v) EXCEPT !.plan[v] = [kind |-> "assign", crew |-> c, day |-> None]])
OpenUnassign(m, v) == Open(m, Request("unassign", v))
OpenAdjust(m, v, d) == Open(m, [Request("adjust", v) EXCEPT !.plan[v] = [NoPlan EXCEPT !.day = d]])

\* Pinning reads the assignment's revision, unpinning that of the pin.
OpenPin(m, v, a, s) ==
  Open(m, [Request("pin", v) EXCEPT !.ids[v] = a.id, !.revs[v] = a.rev, !.pin = s])
OpenUnpin(m, v, a, s) ==
  /\ Held(a, s)
  /\ Open(m, [Request("unpin", v) EXCEPT !.ids[v] = a.id, !.revs[v] = a.pins[s].rev, !.pin = s])

DraftsOf(r) == {v \in Visit : \E a \in Drafts(v) : a.run = r}

\* missingPublishAcknowledgement: a partial run needs the manager to say so.
Acknowledged(r, scheduled, ack) == scheduled < runs[r].considered => ack

OpenPublish(m, r, ack) ==
  /\ runs[r].status = "SUCCEEDED" /\ ~ runs[r].published
  /\ runs[r].scheduled > 0 /\ DraftsOf(r) # {}
  /\ Acknowledged(r, runs[r].scheduled, ack)
  /\ Open(m, [Idle EXCEPT !.pc = "begun", !.op = "publish", !.run = r, !.ack = ack,
                          !.scope = DraftsOf(r),
                          !.ids = [v \in Visit |->
                             IF v \in DraftsOf(r)
                             THEN (CHOOSE a \in Drafts(v) : a.run = r).id ELSE 0]])

OpenRequest(m) ==
  \/ \E v \in Visit, c \in Crews : OpenAssign(m, v, c)
  \/ \E v \in Visit : OpenUnassign(m, v)
  \/ \E v \in Visit, d \in Day : OpenAdjust(m, v, d)
  \/ \E v \in Visit : \E a \in rows[v] : \E s \in Scopes : OpenPin(m, v, a, s)
  \/ \E v \in Visit : \E a \in rows[v] : \E s \in Scopes : OpenUnpin(m, v, a, s)
  \/ \E r \in Run, ack \in BOOLEAN : OpenPublish(m, r, ack)

\* The one visit of a request that is not a publication.
Target(m) == CHOOSE v \in tx[m].scope : TRUE

Row0(m) == {a \in rows[Target(m)] : a.id = tx[m].ids[Target(m)]}

\* What each transaction compares once it holds the visit.
RequestStands(m) ==
  LET v == Target(m) IN
  CASE tx[m].op = "assign"   -> SnapshotHolds(v, tx[m].ids[v]) /\ \A a \in Drafts(v) : ~ Pinned(a)
    [] tx[m].op = "unassign" -> /\ SnapshotHolds(v, tx[m].ids[v]) /\ Drafts(v) # {}
                                /\ \A a \in Drafts(v) : ~ Pinned(a)
    [] tx[m].op = "adjust"   -> Unpublished(v)
    [] tx[m].op = "pin"      -> \E a \in Row0(m) : a \notin History(v) /\ a.rev = tx[m].revs[v]
    [] tx[m].op = "unpin"    -> \E a \in Row0(m) : /\ a \notin History(v) /\ Held(a, tx[m].pin)
                                                   /\ a.pins[tx[m].pin].rev = tx[m].revs[v]
    [] OTHER                 -> /\ \A w \in tx[m].scope : \E a \in Replaced(m, w) : a.run = tx[m].run
                                /\ Acknowledged(tx[m].run, Cardinality(tx[m].scope), tx[m].ack)

\* The employees a request has to lock: those it books, or the draft's own.
CrewToLock(m) ==
  CASE tx[m].op = "assign"  -> tx[m].plan[Target(m)].crew
    [] tx[m].op = "adjust"  -> UNION {a.crew : a \in Drafts(Target(m))}
    [] tx[m].op = "publish" -> UNION {a.crew : a \in UNION {Replaced(m, w) : w \in tx[m].scope}}
    [] OTHER                -> {}

Check(m) ==
  /\ tx[m].pc = "visits" /\ tx[m].op # "solve"
  /\ RequestStands(m)
  /\ tx' = [tx EXCEPT ![m].pc = "checked", ![m].crew = CrewToLock(m)]
  /\ UNCHANGED <<visits, rows, made, runs, visitLock, crewLock, dayLock, edits>>

\* The crew is locked and the engine judges what would be left standing.  A refused
\* crew ends a hand edit or a publication (Abort); a refused assign commits why.
Judge(m) ==
  LET v == Target(m) IN
  /\ tx[m].pc = "checked"
  /\ LockResources(m, tx[m].crew)
  /\ \/ /\ tx[m].op = "assign"
        /\ \/ /\ FreeFor(m, v, tx[m].ids[v], tx[m].plan[v].crew, visits[v].day)
              /\ tx' = [tx EXCEPT ![m].pc = "judged", ![m].done[v] = "stayed"]
           \/ tx' = [tx EXCEPT ![m].pc = "judged", ![m].done[v] = "unassigned"]
     \/ /\ tx[m].op = "adjust"
        /\ \A a \in Drafts(v) : FreeFor(m, v, a.id, a.crew, tx[m].plan[v].day)
        /\ Goto(m, "judged")
     \/ /\ tx[m].op = "publish"
        /\ \A w \in tx[m].scope : \A a \in Replaced(m, w) : FreeFor(m, w, a.id, a.crew, a.day)
        /\ Goto(m, "judged")
  /\ UNCHANGED <<visits, rows, made, runs, visitLock, dayLock, edits>>

\* Ready to write: unassign and the pins judge no crew and lock nobody.
Ready(m, op) ==
  /\ tx[m].op = op
  /\ tx[m].pc = IF op \in {"assign", "adjust", "publish"} THEN "judged" ELSE "checked"

\* A crew set by hand takes the draft's place in its run.
AssignCommit(m) ==
  LET v == Target(m)
      lineage == IF Replaced(m, v) = {} THEN ByHand ELSE (CHOOSE a \in Replaced(m, v) : TRUE).run
  IN
  /\ Ready(m, "assign")
  /\ \/ /\ tx[m].done[v] = "stayed"
        /\ rows' = [rows EXCEPT ![v] = (@ \ Replaced(m, v)) \cup
                      {Draft(made[v] + 1, tx[m].plan[v].crew, visits[v].day, lineage, Unpinned)}]
        /\ made' = [made EXCEPT ![v] = @ + 1]
        /\ visits' = [visits EXCEPT ![v].status = "SCHEDULED", ![v].reason = None, ![v].rev = @ + 1]
     \/ /\ tx[m].done[v] = "unassigned"
        /\ visits' = IF Replaced(m, v) # {} THEN visits
                     ELSE [visits EXCEPT ![v].status = "UNASSIGNED", ![v].reason = visits[v].day,
                                         ![v].rev = @ + 1]
        /\ UNCHANGED <<rows, made>>
  /\ Finish(m)
  /\ UNCHANGED <<runs, edits>>

UnassignCommit(m) ==
  LET v == Target(m) IN
  /\ Ready(m, "unassign")
  /\ rows' = [rows EXCEPT ![v] = @ \ Replaced(m, v)]
  /\ visits' = [visits EXCEPT ![v].status = "UNASSIGNED", ![v].rev = @ + 1]
  /\ Finish(m)
  /\ UNCHANGED <<made, runs, edits>>

Shifted(a, d) == [a EXCEPT !.day = d, !.rev = @ + 1]

KeepsReasons(v, d) == d = visits[v].day

\* A hand edit moves the visit and its drafts together, whatever is pinned.
\* Reasons go when anything the engine reads changed, the day or else.
AdjustCommit(m) ==
  LET v == Target(m)
      d == tx[m].plan[v].day
  IN
  /\ Ready(m, "adjust")
  /\ rows' = [rows EXCEPT ![v] = {IF a \in Drafts(v) THEN Shifted(a, d) ELSE a : a \in @}]
  /\ \E cleared \in BOOLEAN :
       /\ ~ cleared => KeepsReasons(v, d)
       /\ visits' = [visits EXCEPT ![v].day = d, ![v].adjusted = TRUE, ![v].rev = @ + 1,
                                   ![v].reason = IF cleared THEN None ELSE @]
  /\ Finish(m)
  /\ UNCHANGED <<made, runs, edits>>

\* lock and unlock: the pin changes and the visit is revised (reviseVisit).
PinCommit(m) ==
  LET v == Target(m)
      held == tx[m].op = "pin"
  IN
  /\ Ready(m, "pin") \/ Ready(m, "unpin")
  /\ rows' = [rows EXCEPT ![v] = {IF a \in Row0(m)
                                  THEN [a EXCEPT !.pins[tx[m].pin] = [held |-> held, rev |-> @.rev + 1]]
                                  ELSE a : a \in @}]
  /\ visits' = [visits EXCEPT ![v].rev = @ + 1]
  /\ Finish(m)
  /\ UNCHANGED <<made, runs, edits>>

\* Mutant: the counters are left as the solver reported them.
SolverCounters(r, vs) == [runs[r] EXCEPT !.published = TRUE]

\* publishedCounters: the run is recounted from what goes out.
PublishedRun(r, vs) == [runs[r] EXCEPT !.published = TRUE, !.scheduled = Cardinality(vs)]

\* The drafts go out, what was published for the same visits before is
\* superseded with its runs, and the run's counters say what went out.
PublishCommit(m) ==
  LET r == tx[m].run
      vs == tx[m].scope
      superseded == {a.run : a \in UNION {{b \in rows[v] : b.status = "PUBLISHED"} : v \in vs}} \cap (Run \ {r})
  IN
  /\ Ready(m, "publish")
  /\ runs[r].status = "SUCCEEDED" /\ ~ runs[r].published
  /\ rows' = [v \in Visit |-> IF v \notin vs THEN rows[v] ELSE
       {IF a \in Replaced(m, v) THEN [a EXCEPT !.status = "PUBLISHED"]
        ELSE IF a.status = "PUBLISHED" THEN [a EXCEPT !.status = "SUPERSEDED"] ELSE a : a \in rows[v]}]
  /\ runs' = [q \in Run |->
       IF q = r THEN PublishedRun(r, vs)
       ELSE IF q \in superseded THEN [runs[q] EXCEPT !.status = "SUPERSEDED"] ELSE runs[q]]
  /\ Finish(m)
  /\ UNCHANGED <<visits, made, edits>>

\* Visit lock and unlock: one unconditional UPDATE, which waits for the row.
SetLocked(v, locked) ==
  /\ edits < MaxEdits /\ visitLock[v] = None
  /\ visits' = [visits EXCEPT ![v].locked = locked, ![v].rev = @ + 1]
  /\ edits' = edits + 1
  /\ UNCHANGED <<rows, made, runs, tx, visitLock, crewLock, dayLock>>

\* An administrator's repair takes a published crew off a visit and gives the
\* visit back to the queue (PublishedRepair has the protocol; here one step).
Withdraw(v) ==
  /\ edits < MaxEdits /\ visitLock[v] = None
  /\ \E a \in rows[v] :
       /\ a.status = "PUBLISHED"
       /\ rows' = [rows EXCEPT ![v] = (@ \ {a}) \cup {[a EXCEPT !.status = "SUPERSEDED"]}]
  /\ visits' = [visits EXCEPT ![v].status = "UNASSIGNED", ![v].reason = visits[v].day, ![v].rev = @ + 1]
  /\ edits' = edits + 1
  /\ UNCHANGED <<made, runs, tx, visitLock, crewLock, dayLock>>

-----------------------------------------------------------------------------
Solve(r) ==
  \/ SolveSnapshot(r) \/ SolveCheck(r)
  \/ \E v \in Visit : JudgeEntry(r, v)
  \/ SolveCommit(r)

Manage(m) ==
  \/ OpenRequest(m) \/ Check(m) \/ Judge(m)
  \/ AssignCommit(m) \/ UnassignCommit(m) \/ AdjustCommit(m) \/ PinCommit(m) \/ PublishCommit(m)

Next ==
  \/ \E p \in Proc : LockVisits(p) \/ Abort(p)
  \/ \E r \in Run : Solve(r)
  \/ \E m \in Manager : Manage(m)
  \/ \E v \in Visit, locked \in BOOLEAN : SetLocked(v, locked)
  \/ \E v \in Visit : Withdraw(v)

Spec == Init /\ [][Next]_vars

-----------------------------------------------------------------------------
(* Properties *)

Tx == [pc : {"idle", "begun", "visits", "checked", "days", "judged"},
       op : {"none", "solve", "assign", "unassign", "adjust", "pin", "unpin", "publish"},
       scope : SUBSET Visit, crew : SUBSET Employee,
       ids : [Visit -> Nat], revs : [Visit -> Nat], plan : [Visit -> Plan],
       pin : Scopes \cup {"none"}, run : Run \cup {None}, ack : BOOLEAN,
       done : [Visit -> {"todo", "moved", "stayed", "unassigned"}],
       ledger : [Day -> Nat]]

TypeOK ==
  /\ visits \in [Visit -> [day : Day, status : {"PENDING", "SCHEDULED", "UNASSIGNED"}, rev : Nat,
                           adjusted : BOOLEAN, locked : BOOLEAN, reason : Day \cup {None}]]
  /\ rows \in [Visit -> SUBSET Row]
  /\ made \in [Visit -> Nat]
  /\ runs \in [Run -> [status : {"RUNNING", "SUCCEEDED", "FAILED", "SUPERSEDED"},
                       considered : Nat, scheduled : Nat, published : BOOLEAN]]
  /\ tx \in [Proc -> Tx]
  /\ visitLock \in [Visit -> Proc \cup {None}]
  /\ crewLock \in [Employee -> Proc \cup {None}]
  /\ dayLock \in [Day -> Proc \cup {None}]
  /\ edits \in Nat

\* A visit never has two assignments in force, whoever replaced its crew at
\* the same time (the snapshot check under the visit lock).
OneLiveAssignment == \A v \in Visit : \A a, b \in Live(v) : a = b

\* Nobody is booked on two visits of one day, though two writers of different
\* visits both saw the employee free (lockScheduleResources).
NobodyDoubleBooked ==
  \A v, w \in Visit : v # w =>
    \A a \in Live(v), b \in Live(w) : a.day = b.day => a.crew \cap b.crew = {}

\* After every commit a visit has one crew at most, due on the day it stands on,
\* the status and the queue entry agree with the assignments, and a recorded
\* reason is about the visit's day: solver moves, hand edits and crew changes
\* leave nothing behind.
BoardTellsTheTruth ==
  /\ OneLiveAssignment
  /\ \A v \in Visit :
       /\ \A a \in Live(v) : a.day = visits[v].day
       /\ visits[v].status = "SCHEDULED" <=> Live(v) # {}
       /\ visits[v].reason # None => visits[v].status = "UNASSIGNED" /\ visits[v].reason = visits[v].day

\* Where the scheduler moved a visit, the work no manager placed by hand stays
\* within the day's capacity (lockBranchDays, refuseOvercapMove, the ledger).
SystemMovesFit ==
  \A d \in Day :
    (\E v \in Visit : visits[v].day = d /\ d # FirstDay[v] /\ ~ visits[v].adjusted) =>
      Cardinality(CrewMinutes({v \in Visit : visits[v].day = d /\ ~ visits[v].adjusted})) <= Cap[d]

\* A published run tells the truth and leaves nothing behind: its counter is
\* what went out, and no draft of it is still editable.
PublishedRunIsWhole ==
  \A r \in Run : runs[r].published =>
    /\ DraftsOf(r) = {}
    /\ runs[r].scheduled = Cardinality({v \in Visit : \E a \in History(v) : a.run = r})

\* What a crew was told stays: the published assignment keeps its crew and
\* day, and its visit is neither moved nor given to anybody else.
PublishedFrozen ==
  [][\A v \in Visit : \A a \in History(v) :
       /\ \E b \in rows'[v] : b.id = a.id /\ b.crew = a.crew /\ b.day = a.day
                              /\ b.status \in {"PUBLISHED", "SUPERSEDED"}
       /\ visits'[v].day = visits[v].day]_vars

Committing(p, op) == tx[p].op = op /\ tx[p].pc # "idle" /\ tx'[p].pc = "idle"

\* A pinned crew is the crew after any step, also when a solve that began
\* before the pin commits after it, and its pin survives the replacement.
PinsHold ==
  [][\A v \in Visit : \A a \in Drafts(v) : CrewPinned(a) =>
       \E b \in Live(v)' :
         /\ b.crew = a.crew
         /\ \/ \A s \in Scopes : a.pins[s].held => b.pins[s].held
            \/ \E m \in Manager : Committing(m, "unpin") /\ v \in tx[m].scope]_vars

\* A day a manager chose, locked or pinned changes only by a hand edit.
HandDatesHold ==
  [][\A v \in Visit :
       (visits[v].adjusted \/ visits[v].locked \/ \E a \in Drafts(v) : TimePinned(a))
       /\ visits'[v].day # visits[v].day =>
         \E m \in Manager : Committing(m, "adjust") /\ v \in tx[m].scope]_vars

\* What people decided holds against every later writer: what crews were told,
\* the crews managers pinned and the days they chose.
DecisionsHold == PublishedFrozen /\ PinsHold /\ HandDatesHold

\* A solve replaces only what it knew: at the moment its result lands, no
\* visit of it was changed by anybody since the snapshot.
SolveOverwritesWhatItRead ==
  [][\A r \in Run : runs[r].status = "RUNNING" /\ runs'[r].status = "SUCCEEDED" =>
       \A v \in tx[r].scope : visits[v].rev = tx[r].revs[v] /\ SnapshotHolds(v, tx[r].ids[v])]_vars

\* "Visits worth solving: in range, not already published or finished": a solve
\* takes on only visits whose result it may save, as things stand then.
SolvesOnlyWhatItMaySave ==
  [][\A r \in Run : tx[r].pc = "idle" /\ tx'[r].pc = "begun" =>
       \A v \in tx'[r].scope : SnapshotHolds(v, tx'[r].ids[v])]_vars

BoardDay == [v \in Visit |-> visits[v].day]
BoardCrew == [v \in Visit |-> UNION {a.crew : a \in Live(v)}]
Told == {v \in Visit : \E a \in rows[v] : a.status = "PUBLISHED"}
Board == INSTANCE ScheduleBoard WITH day <- BoardDay, crew <- BoardCrew, told <- Told

\* Every transaction of every writer is one step of the board, or none.
ImplementsBoard == Board!BoardSpec

=============================================================================
