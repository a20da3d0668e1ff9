--------------------------- MODULE PublishedRepair ---------------------------
(***************************************************************************)
(* The only writer allowed to correct published assignments.  An           *)
(* administrator previews a set of operations, each replacing a published  *)
(* assignment or withdrawing it, and applies the plan under an idempotency *)
(* key.  A call to apply looks the key up, reads the sources (preflight),  *)
(* locks visits and employees, builds the preview again and writes only    *)
(* if it is the one the administrator saw.  Calls are repeated by clients  *)
(* that lost an answer, race with other repairs and with the draft         *)
(* writers, and may stop at any point.                                     *)
(*                                                                         *)
(* Abstractions.  A day has one slot, so two bookings of an employee clash *)
(* when they are on the same day; the other rules of the eligibility       *)
(* engine may refuse any call (Fail).  A hash is the value it is taken of. *)
(* A plan's operation with an empty crew is a withdrawal.  A vehicle is    *)
(* booked like an employee and is left out.  The draft writers are one     *)
(* step each here; ScheduleWriters has their interleavings.                *)
(***************************************************************************)
EXTENDS Naturals, FiniteSets, Sequences

CONSTANTS
  Visit, Employee,
  Call,        \* requests to apply, in flight at a time
  Key,         \* idempotency keys
  None,        \* the owner of a free lock
  Crews,       \* the crews a plan or a manager may propose
  DayOf,       \* [Visit -> Nat]
  LastDay,     \* the last day of the behaviour
  Legacy,      \* [Visit -> Seq(Crews)]: published before the guards existed
  MaxEdits     \* bound: previews, repeated calls, visit locks, absences and crews taken off

ASSUME RepairAssumption ==
  /\ Crews \subseteq (SUBSET Employee) \ {{}}
  /\ DayOf \in [Visit -> Nat] /\ LastDay \in Nat /\ MaxEdits \in Nat
  /\ Legacy \in [Visit -> Seq(Crews)]
  /\ None \notin Call

\* Before the guards a visit could be published twice; the engine already kept
\* a crew from two visits of one day.
ASSUME LegacyAssumption ==
  \A v, w \in Visit : v # w /\ DayOf[v] = DayOf[w] =>
    \A i \in DOMAIN Legacy[v], j \in DOMAIN Legacy[w] : Legacy[v][i] \cap Legacy[w][j] = {}

VARIABLES
  visits,    \* [Visit -> record]: generated_visits
  rows,      \* [Visit -> set of records]: assignments
  intents,   \* assignment_notification_outbox
  repairs,   \* published_assignment_repairs with their items
  calls,     \* [Call -> record]: calls to apply
  visitLock, crewLock,
  away,      \* pairs of an employee and a day: employee_availability
  today,     \* the date in Colombo
  edits

vars == <<visits, rows, intents, repairs, calls, visitLock, crewLock, away, today, edits>>

-----------------------------------------------------------------------------
Row == [id : Nat, crew : SUBSET Employee, status : {"DRAFT", "PUBLISHED", "SUPERSEDED"},
        pinned : BOOLEAN, supersedes : Nat]
Operation == [visit : Visit, id : Nat, crew : SUBSET Employee]
Intent == [visit : Visit, id : Nat, employee : Employee, cancelled : BOOLEAN,
           event : {"assignment.published", "assignment.corrected", "assignment.withdrawn"}]
NoForm == [operations |-> {}, plan |-> {}, acknowledged |-> FALSE]
IdleCall == [pc |-> "idle", key |-> None, form |-> NoForm, result |-> {}]

Published(v) == {a \in rows[v] : a.status = "PUBLISHED"}
Live(v) == {a \in rows[v] : a.status \in {"DRAFT", "PUBLISHED"}}
NextId(v) == Cardinality(rows[v]) + 1

Intents(v, id, crew, event) ==
  {[visit |-> v, id |-> id, employee |-> e, event |-> event, cancelled |-> FALSE] : e \in crew}

LegacyRow(v, i) ==
  [id |-> i, crew |-> Legacy[v][i], status |-> "PUBLISHED", pinned |-> FALSE, supersedes |-> 0]

Init ==
  /\ visits = [v \in Visit |-> [status |-> IF DOMAIN Legacy[v] = {} THEN "PENDING" ELSE "SCHEDULED",
                                reasons |-> {}, rev |-> 0]]
  /\ rows = [v \in Visit |-> {LegacyRow(v, i) : i \in DOMAIN Legacy[v]}]
  /\ intents = UNION {UNION {Intents(v, i, Legacy[v][i], "assignment.published") : i \in DOMAIN Legacy[v]} :
                        v \in Visit}
  /\ repairs = {}
  /\ calls = [c \in Call |-> IdleCall]
  /\ visitLock = [v \in Visit |-> None]
  /\ crewLock = [e \in Employee |-> None]
  /\ away = {}
  /\ today = 0
  /\ edits = 0

-----------------------------------------------------------------------------
(* buildPreview *)

TimeScope(v) ==
  CASE DayOf[v] < today -> "HISTORICAL" [] DayOf[v] = today -> "CURRENT_DAY" [] OTHER -> "FUTURE"

SourceRow(o) == CHOOSE a \in rows[o.visit] : a.id = o.id
Replaces(o) == o.crew # {}

\* Mutant: a plan may leave other published assignments of its visits out.
RepairableAlone(operations) ==
  /\ operations # {}
  /\ \A o \in operations :
       /\ \E a \in Published(o.visit) : a.id = o.id
       /\ TimeScope(o.visit) # "HISTORICAL"
       /\ \A p \in operations : p.visit = o.visit /\ Replaces(p) /\ Replaces(o) => p = o

\* What a plan must be to be previewed at all: its sources are published and not
\* historical, no published sibling is left out, one replacement for a visit.
Repairable(operations) ==
  /\ operations # {}
  /\ \A o \in operations :
       /\ \E a \in Published(o.visit) : a.id = o.id
       /\ TimeScope(o.visit) # "HISTORICAL"
       /\ \A a \in Published(o.visit) : \E p \in operations : p.visit = o.visit /\ p.id = a.id
       /\ \A p \in operations : p.visit = o.visit /\ Replaces(p) /\ Replaces(o) => p = o

\* fingerprintSource: the assignment and its visit, to the last change.
Fingerprint(o) == [source |-> SourceRow(o), status |-> visits[o.visit].status, rev |-> visits[o.visit].rev]

\* eligibility.evaluate with every source of the plan taken off the board.
Booked(o, operations) ==
  \E w \in Visit : \E a \in Live(w) :
    /\ DayOf[w] = DayOf[o.visit] /\ a.crew \cap o.crew # {}
    /\ \A p \in operations : ~ (p.visit = w /\ p.id = a.id)

Away(e, day) == <<e, day>> \in away

RuleConflicts(o, operations) ==
  {c \in {"EMPLOYEE_DOUBLE_BOOKED", "EMPLOYEE_UNAVAILABLE"} :
     CASE c = "EMPLOYEE_DOUBLE_BOOKED" -> Booked(o, operations)
       [] OTHER -> \E e \in o.crew : Away(e, DayOf[o.visit])}

\* A pinned source, what the engine says, or a crew booked twice by the plan
\* itself (addBatchReservationConflicts).  A withdrawal conflicts with nothing.
Conflicts(o, operations) ==
  IF ~ Replaces(o) THEN {}
  ELSE RuleConflicts(o, operations) \cup
       {c \in {"ASSIGNMENT_LOCKED", "BATCH"} :
          CASE c = "ASSIGNMENT_LOCKED" -> SourceRow(o).pinned
            [] OTHER -> \E p \in operations \ {o} : /\ DayOf[p.visit] = DayOf[o.visit]
                                                    /\ p.crew \cap o.crew # {}}

Item(o, operations) ==
  [operation |-> o, fingerprint |-> Fingerprint(o), scope |-> TimeScope(o.visit),
   conflicts |-> Conflicts(o, operations)]

\* The plan hash is taken of this.
Plan(operations) == {Item(o, operations) : o \in operations}

\* Mutant: the plan is judged, but not compared with what was reviewed.
MatchesUnseen(form) ==
  LET items == Plan(form.operations) IN
  /\ \A i \in items : i.conflicts = {}
  /\ (\E i \in items : i.scope = "CURRENT_DAY") => form.acknowledged

\* assertPreviewMatchesApply.
Matches(form) ==
  LET items == Plan(form.operations) IN
  /\ \A i \in items : i.conflicts = {}
  /\ (\E i \in items : i.scope = "CURRENT_DAY") => form.acknowledged
  /\ items = form.plan

-----------------------------------------------------------------------------
(* The administrator *)

\* Every way to replace or withdraw some published assignments.
PublishedIds == UNION {{<<v, a.id>> : a \in Published(v)} : v \in Visit}
Proposals ==
  UNION {{{[visit |-> s[1], id |-> s[2], crew |-> crews[s]] : s \in sources} :
            crews \in [sources -> Crews \cup {{}}]} : sources \in SUBSET PublishedIds}

\* preview, and the form sent to apply with what it returned.  The page offers
\* the acknowledgement only for a plan that touches the current day.
Preview(c) ==
  /\ calls[c].pc = "idle" /\ edits < MaxEdits
  /\ \E operations \in Proposals, key \in Key, acknowledged \in BOOLEAN :
       /\ Repairable(operations)
       /\ acknowledged => \E o \in operations : TimeScope(o.visit) = "CURRENT_DAY"
       /\ calls' = [calls EXCEPT ![c] =
            [IdleCall EXCEPT !.pc = "sent", !.key = key,
                             !.form = [operations |-> operations, plan |-> Plan(operations),
                                       acknowledged |-> acknowledged]]]
  /\ edits' = edits + 1
  /\ UNCHANGED <<visits, rows, intents, repairs, visitLock, crewLock, away, today>>

\* The client sends the same form again, whatever became of the first call.
Repeat(c, first) ==
  /\ calls[c].pc = "idle" /\ calls[first].pc # "idle" /\ edits < MaxEdits
  /\ calls' = [calls EXCEPT ![c] = [IdleCall EXCEPT !.pc = "sent", !.key = calls[first].key,
                                                    !.form = calls[first].form]]
  /\ edits' = edits + 1
  /\ UNCHANGED <<visits, rows, intents, repairs, visitLock, crewLock, away, today>>

-----------------------------------------------------------------------------
(* apply *)

Answer(c, pc, result) ==
  /\ calls' = [calls EXCEPT ![c].pc = pc, ![c].result = result]
  /\ visitLock' = [v \in Visit |-> IF visitLock[v] = c THEN None ELSE visitLock[v]]
  /\ crewLock' = [e \in Employee |-> IF crewLock[e] = c THEN None ELSE crewLock[e]]

Goto(c, pc) == calls' = [calls EXCEPT ![c].pc = pc]

\* The repair recorded under a call's key, as a set with at most one member.
Recorded(c) == {r \in repairs : r.key = calls[c].key}

\* Mutant: whoever sends a used key gets that repair's result.
ReplayOrRejectAny(c) == \E r \in Recorded(c) : Answer(c, "applied", r.items)

\* replayOrReject: the recorded result, for the recorded request only.
ReplayOrReject(c) ==
  \E r \in Recorded(c) :
    IF r.form = calls[c].form THEN Answer(c, "applied", r.items) ELSE Answer(c, "refused", {})

LookUp(c) ==
  /\ calls[c].pc = "sent"
  /\ IF Recorded(c) # {} THEN ReplayOrReject(c)
     ELSE Goto(c, "preflight") /\ UNCHANGED <<visitLock, crewLock>>
  /\ UNCHANGED <<visits, rows, intents, repairs, away, today, edits>>

\* buildPreview outside the transaction, to learn what to lock: it throws on
\* sources that cannot be repaired.
Preflight(c) ==
  /\ calls[c].pc = "preflight"
  /\ IF Repairable(calls[c].form.operations)
     THEN Goto(c, "begun") /\ UNCHANGED <<visitLock, crewLock>>
     ELSE Answer(c, "refused", {})
  /\ UNCHANGED <<visits, rows, intents, repairs, away, today, edits>>

\* Mutant: lockScheduleResources is left out.
CrewUnlocked(c, employees) == UNCHANGED crewLock

LockCrew(c, employees) ==
  /\ \A e \in employees : crewLock[e] = None
  /\ crewLock' = [e \in Employee |-> IF e \in employees THEN c ELSE crewLock[e]]

\* lockScheduleVisits and lockScheduleResources.
Lock(c) ==
  LET operations == calls[c].form.operations
      vs == {o.visit : o \in operations}
  IN
  /\ calls[c].pc = "begun"
  /\ \A v \in vs : visitLock[v] = None
  /\ visitLock' = [v \in Visit |-> IF v \in vs THEN c ELSE visitLock[v]]
  /\ LockCrew(c, UNION {o.crew : o \in operations})
  /\ Goto(c, "locked")
  /\ UNCHANGED <<visits, rows, intents, repairs, away, today, edits>>

\* The key once more, then everything the preview said, on locked rows.
Judge(c) ==
  LET form == calls[c].form IN
  /\ calls[c].pc = "locked"
  /\ IF Recorded(c) # {} THEN ReplayOrReject(c)
     ELSE IF Repairable(form.operations) /\ Matches(form)
     THEN Goto(c, "judged") /\ UNCHANGED <<visitLock, crewLock>>
     ELSE Answer(c, "refused", {})
  /\ UNCHANGED <<visits, rows, intents, repairs, away, today, edits>>

\* The sources give way.
Supersede(v, operations) ==
  {IF \E o \in operations : o.visit = v /\ o.id = a.id THEN [a EXCEPT !.status = "SUPERSEDED"] ELSE a :
     a \in rows[v]}

\* The intents to tell a crew of an assignment that no longer holds.
CancelIntents(operations) ==
  {IF i.event = "assignment.published" /\ \E o \in operations : o.visit = i.visit /\ o.id = i.id
   THEN [i EXCEPT !.cancelled = TRUE] ELSE i : i \in intents}

\* The visit after its operations: withdrawals are written first, so a
\* replacement has the last word.
Outcome(v, os) ==
  LET staffed == \E o \in os : Replaces(o) IN
  [visits[v] EXCEPT !.rev = @ + 1, !.status = IF staffed THEN "SCHEDULED" ELSE "UNASSIGNED",
                    !.reasons = IF staffed THEN {} ELSE {"withdrawn"}]

\* replace and withdraw for every operation, the repair row and its items; or,
\* when another call with this key got there first, its unique index.
Commit(c) ==
  LET operations == calls[c].form.operations
      At(v) == {o \in operations : o.visit = v}
      successors == {o \in operations : Replaces(o)}
      items == {[operation |-> o, replacement |-> IF Replaces(o) THEN NextId(o.visit) ELSE 0] : o \in operations}
  IN
  /\ calls[c].pc = "judged"
  /\ IF Recorded(c) # {} THEN ReplayOrReject(c) /\ UNCHANGED <<visits, rows, intents, repairs>>
     ELSE
       /\ \A o \in operations : SourceRow(o).status = "PUBLISHED"
       /\ repairs' = repairs \cup {[key |-> calls[c].key, form |-> calls[c].form, items |-> items]}
       /\ rows' = [v \in Visit |-> Supersede(v, operations) \cup
            {[id |-> NextId(v), crew |-> o.crew, status |-> "PUBLISHED", pinned |-> FALSE,
              supersedes |-> o.id] : o \in At(v) \cap successors}]
       /\ visits' = [v \in Visit |-> IF At(v) = {} THEN visits[v] ELSE Outcome(v, At(v))]
       /\ intents' = CancelIntents(operations) \cup
            (UNION {Intents(o.visit, o.id, SourceRow(o).crew,
                      IF Replaces(o) THEN "assignment.corrected" ELSE "assignment.withdrawn") : o \in operations}) \cup
            (UNION {Intents(o.visit, NextId(o.visit), o.crew, "assignment.published") : o \in successors})
       /\ Answer(c, "applied", items)
  /\ UNCHANGED <<away, today, edits>>

\* A rule of the engine, the transaction timeout or a lost process: all or nothing.
Fail(c) ==
  /\ calls[c].pc \notin {"idle", "applied", "refused", "failed"}
  /\ Answer(c, "failed", {})
  /\ UNCHANGED <<visits, rows, intents, repairs, away, today, edits>>

-----------------------------------------------------------------------------
(* Everybody else *)

\* A solver's result or a manager puts a crew on a visit that was never published.
Book(v, crew, pinned) ==
  /\ rows[v] = {} /\ visitLock[v] = None
  /\ \A e \in crew : crewLock[e] = None /\ ~ Away(e, DayOf[v])
  /\ \A w \in Visit : \A a \in Live(w) : DayOf[w] = DayOf[v] => a.crew \cap crew = {}
  /\ rows' = [rows EXCEPT ![v] = {[id |-> 1, crew |-> crew, status |-> "DRAFT", pinned |-> pinned,
                                   supersedes |-> 0]}]
  /\ visits' = [visits EXCEPT ![v].status = "SCHEDULED", ![v].rev = @ + 1]
  /\ UNCHANGED <<intents, repairs, calls, visitLock, crewLock, away, today, edits>>

\* A manager takes the crew of a draft off again.
Unbook(v) ==
  /\ visitLock[v] = None /\ edits < MaxEdits
  /\ \E a \in rows[v] : a.status = "DRAFT" /\ ~ a.pinned
  /\ rows' = [rows EXCEPT ![v] = {}]
  /\ visits' = [visits EXCEPT ![v].status = "UNASSIGNED", ![v].rev = @ + 1]
  /\ edits' = edits + 1
  /\ UNCHANGED <<intents, repairs, calls, visitLock, crewLock, away, today>>

\* publish.
PublishDraft(v) ==
  /\ visitLock[v] = None
  /\ \E a \in rows[v] :
       /\ a.status = "DRAFT"
       /\ rows' = [rows EXCEPT ![v] = (@ \ {a}) \cup {[a EXCEPT !.status = "PUBLISHED"]}]
       /\ intents' = intents \cup Intents(v, a.id, a.crew, "assignment.published")
  /\ UNCHANGED <<visits, repairs, calls, visitLock, crewLock, away, today, edits>>

\* The lock of a visit's date may be set or released on a published visit too.
SetLocked(v) ==
  /\ visitLock[v] = None /\ edits < MaxEdits
  /\ visits' = [visits EXCEPT ![v].rev = @ + 1]
  /\ edits' = edits + 1
  /\ UNCHANGED <<rows, intents, repairs, calls, visitLock, crewLock, away, today>>

\* addAvailability: somebody is away on a day, whether or not he is booked.
AddAvailability(e, day) ==
  /\ crewLock[e] = None /\ ~ Away(e, day) /\ edits < MaxEdits
  /\ away' = away \cup {<<e, day>>}
  /\ edits' = edits + 1
  /\ UNCHANGED <<visits, rows, intents, repairs, calls, visitLock, crewLock, today>>

Midnight ==
  /\ today < LastDay
  /\ today' = today + 1
  /\ UNCHANGED <<visits, rows, intents, repairs, calls, visitLock, crewLock, away, edits>>

Apply(c) == LookUp(c) \/ Preflight(c) \/ Lock(c) \/ Judge(c) \/ Commit(c) \/ Fail(c)

Next ==
  \/ \E c \in Call : Preview(c) \/ Apply(c) \/ \E first \in Call : Repeat(c, first)
  \/ \E v \in Visit, crew \in Crews, pinned \in BOOLEAN : Book(v, crew, pinned)
  \/ \E v \in Visit : Unbook(v) \/ PublishDraft(v) \/ SetLocked(v)
  \/ \E e \in Employee, v \in Visit : AddAvailability(e, DayOf[v])
  \/ Midnight

Spec == Init /\ [][Next]_vars

-----------------------------------------------------------------------------
(* Properties *)

\* Nobody is on two visits of one day, not by two repairs, not by a repair and
\* a draft, and not by two operations of one plan that each looked fine.
NobodyDoubleBooked ==
  \A v, w \in Visit : v # w /\ DayOf[v] = DayOf[w] =>
    \A a \in Live(v), b \in Live(w) : a.crew \cap b.crew = {}

\* The visit says what its assignments say, also when one plan withdraws one of
\* its assignments and replaces another: staffed or not, and unassigned with a
\* reason once what was published is withdrawn.
VisitTellsTheTruth ==
  \A v \in Visit :
    /\ visits[v].status = "SCHEDULED" <=> Live(v) # {}
    /\ visits[v].reasons # {} <=> visits[v].status = "UNASSIGNED" /\ rows[v] # {}

\* What a crew will be told is what holds: who is on a published assignment
\* has one live intent to hear of it, and who was taken off has none, and a
\* correction or a withdrawal instead.
CrewsHearTheTruth ==
  \A v \in Visit : \A a \in rows[v] : \A e \in a.crew :
    LET told == {i \in intents : i.visit = v /\ i.id = a.id /\ i.employee = e}
        live == {i.event : i \in {j \in told : ~ j.cancelled}}
    IN  /\ a.status = "DRAFT" => told = {}
        /\ a.status = "PUBLISHED" => live = {"assignment.published"}
        /\ a.status = "SUPERSEDED" =>
             live = IF \E b \in rows[v] : b.supersedes = a.id THEN {"assignment.corrected"}
                    ELSE {"assignment.withdrawn"}

\* A line of descent for every assignment: it is superseded by one operation
\* of one repair, which nobody's pin forbade, and a repaired visit has at most
\* one assignment in force.
OneLineOfDescent ==
  /\ \A r, q \in repairs : \A i \in r.items, j \in q.items :
       /\ i.operation.visit = j.operation.visit /\ i.operation.id = j.operation.id => r = q /\ i = j
       /\ r.key = q.key => r = q
  /\ \A v \in Visit : \A a \in rows[v] :
       /\ a.status = "SUPERSEDED" <=>
            \E r \in repairs : \E i \in r.items : i.operation.visit = v /\ i.operation.id = a.id
       /\ a.pinned => \A b \in rows[v] : b.supersedes # a.id
       /\ a.status = "SUPERSEDED" => Cardinality(Live(v)) <= 1

\* After every commit, of repairs and drafts alike, nobody is double booked,
\* visits say what their assignments say, and crews will be told what holds.
CalendarHolds == NobodyDoubleBooked /\ VisitTellsTheTruth /\ CrewsHearTheTruth

\* Who is told a repair was applied gets the result of his own request, however
\* often and through however many calls he sent it.
AnswerIsRecorded ==
  \A c \in Call : calls[c].pc = "applied" =>
    \E r \in repairs : r.key = calls[c].key /\ r.form = calls[c].form /\ r.items = calls[c].result

\* What is applied is what was reviewed: at the moment a repair lands, every
\* source and its visit is as the administrator saw it.
ReviewedIsApplied ==
  [][\A r \in repairs' \ repairs : \A i \in r.form.plan :
       Fingerprint(i.operation) = i.fingerprint /\ i.conflicts = {}]_vars

\* Published history is immutable and has its line of descent: no assignment
\* that was published disappears or changes but to be superseded, and that only
\* by a recorded repair, once.
HistoryIsImmutable ==
  [][/\ OneLineOfDescent'
     /\ \A v \in Visit : \A a \in rows[v] : a.status # "DRAFT" =>
          \/ a \in rows'[v]
          \/ a.status = "PUBLISHED" /\ repairs' # repairs
             /\ [a EXCEPT !.status = "SUPERSEDED"] \in rows'[v]]_vars

=============================================================================
