-------------------------- MODULE VisitGeneration --------------------------
(***************************************************************************)
(* Confirming a generation, the rolling-horizon sweep and the bunching     *)
(* repair.  Each works out its plan outside any transaction, in two reads  *)
(* (the agreements and their visits, then the whole range), and applies it *)
(* in one that locks agreements, sites, visits and branch-days and checks  *)
(* again.  A sweep and a repair are a sequence of confirms; a repair also  *)
(* keeps a ledger under its idempotency key.  Meanwhile managers hold,     *)
(* release and move visits and edit agreements and opening hours.          *)
(*                                                                         *)
(* Abstractions.  A revision (updatedAt) is the fact that a row was not    *)
(* written since it was read: `stale` holds the rows that were.  Reading   *)
(* the agreements with their visits is one step; so is the transaction,    *)
(* whose checks follow its locks.  One request a key: a key used with      *)
(* another body is refused without touching anything.                      *)
(***************************************************************************)
EXTENDS GenerationReport

CONSTANTS
  Process, Key,
  TermsOf,       \* [Agreement -> SUBSET Terms]: what a manager may agree to
  HoursOf,       \* the sets of days a site may be open on
  Starts,        \* [terms, opens, visits]: what earlier generations left
  Asks,          \* the ranges and scopes a manager may confirm
  MaxJobs, MaxHand, MaxEdits   \* bounds: jobs, manager steps and edits in a behaviour

ASSUME GenerationAssumption ==
  /\ TermsOf \in [Agreement -> (SUBSET Terms) \ {{}}]
  /\ HoursOf \subseteq SUBSET Day /\ Asks \subseteq Ask
  /\ \A s \in Starts : /\ s.terms \in [Agreement -> Terms]
                       /\ \A a \in Agreement : s.terms[a] \in TermsOf[a]
                       /\ s.opens \in [Agreement -> HoursOf]
                       /\ s.visits \in [Agreement -> [Day -> Row]]
  /\ {MaxJobs, MaxHand, MaxEdits} \subseteq Nat

VARIABLES
  terms,      \* [Agreement -> Terms]
  opens,      \* [Agreement -> SUBSET Day]: the opening days of its site
  visits,     \* [Agreement -> [Day -> Row]], NoVisit where there is none
  jobs,       \* [Process -> record]
  reviewed,   \* [Key -> record]: the bunching plan a client holds
  batches,    \* [Key -> record]: repair_bunching_batches
  landed,     \* history: what each batch's confirms changed on the calendar
  budget

vars == <<terms, opens, visits, jobs, reviewed, batches, landed, budget>>

-----------------------------------------------------------------------------
Slot == Agreement \X Day
NoPlan == [adds |-> {}, updates |-> {}, removals |-> {}, firm |-> {},
           minutes |-> <<>>, opens |-> <<>>, load |-> <<>>]
Now == [terms |-> terms, opens |-> opens, visits |-> visits]
Unread == [terms |-> <<>>, opens |-> <<>>, visits |-> <<>>]

\* todo holds the asks still to confirm; done what a repair will record.
Idle == [kind |-> "none", stage |-> "idle", todo |-> <<>>, key |-> {}, done |-> <<>>,
         seen |-> Unread, plan |-> NoPlan, steady |-> FALSE, stale |-> {}]

NoBatch == [status |-> "NONE", recorded |-> <<>>]
NoReview == [moves |-> <<>>, intact |-> FALSE]

Init ==
  /\ \E s \in Starts : terms = s.terms /\ opens = s.opens /\ visits = s.visits
  /\ jobs = [p \in Process |-> Idle]
  /\ reviewed = [k \in Key |-> NoReview] /\ batches = [k \in Key |-> NoBatch]
  /\ landed = [k \in Key |-> <<>>]
  /\ budget = [jobs |-> MaxJobs, hand |-> MaxHand, edits |-> MaxEdits]

Spend(what) == budget[what] > 0 /\ budget' = [budget EXCEPT ![what] = @ - 1]

\* What the writes of a step do to what others have read of these slots.
Window(ask) == ask.scope \X InRange(ask)
Revise(slots) ==
  reviewed' = [k \in Key |-> [reviewed[k] EXCEPT !.intact =
                 @ /\ \A i \in DOMAIN reviewed[k].moves :
                        slots \cap Window(reviewed[k].moves[i].ask) = {}]]
WithStale(job, slots) ==
  CASE job.stage = "plan"  -> [job EXCEPT !.stale = @ \cup (slots \cap (job.todo[1].scope \X Day))]
    [] job.stage = "apply" -> [job EXCEPT !.stale =
                                 @ \cup (slots \cap (job.plan.updates \cup job.plan.removals))]
    [] OTHER -> job
Staled(slots) == [p \in Process |-> WithStale(jobs[p], slots)]

-----------------------------------------------------------------------------
(* The managers.                                                           *)

ByHand(slots, newVisits) ==
  /\ Spend("hand")
  /\ visits' = newVisits /\ Revise(slots) /\ jobs' = Staled(slots)
  /\ UNCHANGED <<terms, opens, batches, landed>>

\* Lock, staff or adjust a visit, or give it back.
Hold(a, d) ==
  /\ Exists(visits[a][d]) /\ ~visits[a][d].held
  /\ ByHand({<<a, d>>}, [visits EXCEPT ![a][d].held = TRUE])

Release(a, d) ==
  /\ visits[a][d].held /\ ~visits[a][d].moved
  /\ ByHand({<<a, d>>}, [visits EXCEPT ![a][d].held = FALSE])

\* Adjust a visit to another day: it is the manager's from then on.
MoveByHand(a, d, e) ==
  /\ Exists(visits[a][d]) /\ ~Exists(visits[a][e])
  /\ ByHand({<<a, d>>, <<a, e>>},
            [visits EXCEPT ![a][d] = NoVisit, ![a][e] = [visits[a][d] EXCEPT !.held = TRUE, !.moved = TRUE]])

EditTerms(a) ==
  /\ Spend("edits")
  /\ \E t \in TermsOf[a] \ {terms[a]} : terms' = [terms EXCEPT ![a] = t]
  /\ UNCHANGED <<opens, visits, jobs, reviewed, batches, landed>>

EditHours(a) ==
  /\ Spend("edits")
  /\ \E h \in HoursOf \ {opens[a]} : opens' = [opens EXCEPT ![a] = h]
  /\ UNCHANGED <<terms, visits, jobs, reviewed, batches, landed>>

-----------------------------------------------------------------------------
(* One confirm.                                                            *)

Step(p, job) == jobs' = [jobs EXCEPT ![p] = job]

Begin(p, job) ==
  /\ jobs[p] = Idle /\ Spend("jobs") /\ Step(p, job)
  /\ UNCHANGED <<terms, opens, visits, batches, landed>>

\* loadAgreements and loadExistingVisits, in what a job does next.
Reading(job) == [job EXCEPT !.stage = "plan", !.seen = Now, !.stale = {}]

Confirm(p) ==
  \E ask \in Asks :
    /\ Begin(p, Reading([Idle EXCEPT !.kind = "confirm", !.todo = <<ask>>]))
    /\ UNCHANGED reviewed

ReadAgreements(p) ==
  /\ jobs[p].stage = "read"
  /\ Step(p, Reading(jobs[p]))
  /\ UNCHANGED <<terms, opens, visits, reviewed, batches, landed, budget>>

\* readTheRange, the guard and planGeneration.  steady notes that no visit
\* of the run's own agreements changed since they were read.
ReadRange(p) ==
  /\ jobs[p].stage = "plan"
  /\ LET job  == jobs[p]
         ask  == job.todo[1]
     IN  \E plan \in {PlanOf(ask, job.seen, visits)} :
           Step(p, [job EXCEPT !.stage = "apply", !.plan = plan, !.seen = Unread,
                               !.steady = \A a \in ask.scope : visits[a] = job.seen.visits[a],
                               !.stale = @ \cap (plan.updates \cup plan.removals)])
  /\ UNCHANGED <<terms, opens, visits, reviewed, batches, landed, budget>>

\* The checks of the transaction.
SitesUnchanged(plan) == \A a \in DOMAIN plan.opens : opens[a] = plan.opens[a]

\* Mutant: only that the visits are still there.
StillThere(plan, stale) == \A s \in plan.updates \cup plan.removals : Exists(visits[s[1]][s[2]])

StillOurs(plan, stale) ==
  /\ \A s \in plan.updates \cup plan.removals : Exists(visits[s[1]][s[2]]) /\ ~visits[s[1]][s[2]].held
  /\ stale = {}

\* Mutant: what landed since the plan was made is not counted.
DaysHadRoom(plan) == TRUE

\* Each day's crew-minutes read again under the branch-day locks.
LoadNow(d) == DayMinutes(visits, d)

DaysHaveRoom(plan) ==
  \A d \in DOMAIN plan.load :
    LET now   == LoadNow(d)
        added == MapThenSumSet(LAMBDA s : plan.minutes[s[1]], {s \in plan.adds : s[2] = d})
        freed == MapThenSumSet(LAMBDA s : visits[s[1]][d].minutes, {s \in plan.removals : s[2] = d})
    IN  now <= plan.load[d] \/ now + added <= Cap[d] + freed

\* The unique key over agreement, date and start.
SlotsFree(plan) == \A s \in plan.adds : ~Exists(visits[s[1]][s[2]])

Accepted(p) ==
  LET plan == jobs[p].plan
  IN  SitesUnchanged(plan) /\ StillOurs(plan, jobs[p].stale) /\ DaysHaveRoom(plan) /\ SlotsFree(plan)

Written(plan) ==
  [a \in Agreement |-> [d \in Day |->
     IF <<a, d>> \in plan.removals THEN NoVisit
     ELSE IF <<a, d>> \in plan.adds \cup plan.updates
     THEN [held |-> FALSE, moved |-> FALSE, minutes |-> plan.minutes[a]]
     ELSE visits[a][d]]]

Lesser(m, n) == IF m <= n THEN m ELSE n
Moved(plan) == Lesser(Cardinality(plan.adds), Cardinality(plan.removals))

\* What a confirm that wrote did to the calendar: a visit that came with one
\* that went is one that moved; it may have brought, taken or rewritten only.
Came(after) == {s \in Slot : ~Exists(visits[s[1]][s[2]]) /\ Exists(after[s[1]][s[2]])}
Gone(after) == {s \in Slot : Exists(visits[s[1]][s[2]]) /\ ~Exists(after[s[1]][s[2]])}
Change(ask, after) ==
  [ask |-> ask, moved |-> Lesser(Cardinality(Came(after)), Cardinality(Gone(after)))]

\* What follows a confirm: the next one of a sweep or a repair, or the end.
Following(job) ==
  LET rest == [job EXCEPT !.todo = Tail(@), !.plan = NoPlan, !.steady = FALSE, !.stale = {}]
  IN  IF rest.todo # <<>> THEN [rest EXCEPT !.stage = "read"]
      ELSE IF job.kind = "repair" THEN [rest EXCEPT !.stage = "complete"] ELSE Idle

Apply(p) ==
  /\ jobs[p].stage = "apply" /\ Accepted(p)
  /\ LET job   == jobs[p]
         plan  == job.plan
         slots == plan.adds \cup plan.updates \cup plan.removals
         moved == job.kind = "repair" /\ Moved(plan) > 0
         after == IF moved THEN [job EXCEPT !.stage = "record",
                                            !.done = Append(@, [ask |-> job.todo[1], moved |-> Moved(plan)]),
                                            !.plan = NoPlan, !.steady = FALSE]
                  ELSE Following(job)
     IN  /\ visits' = Written(plan)
         /\ Revise(slots)
         /\ jobs' = [Staled(slots) EXCEPT ![p] = after]
         /\ landed' = [k \in Key |-> IF visits' # visits /\ k \in job.key
                                     THEN Append(landed[k], Change(job.todo[1], visits')) ELSE landed[k]]
  /\ UNCHANGED <<terms, opens, batches, budget>>

\* A sweep collects the failure and goes on; a confirm and a repair stop.
Refuse(p) ==
  /\ jobs[p].stage = "apply" /\ ~Accepted(p)
  /\ Step(p, CASE jobs[p].kind = "sweep"  -> Following(jobs[p])
               [] jobs[p].kind = "repair" -> [jobs[p] EXCEPT !.stage = "fail", !.plan = NoPlan,
                                                             !.steady = FALSE, !.stale = {}]
               [] OTHER -> Idle)
  /\ UNCHANGED <<terms, opens, visits, reviewed, batches, landed, budget>>

-----------------------------------------------------------------------------
(* The rolling horizon: every agreement, from the day after its last visit *)
(* as it was when the sweep began.                                         *)

LastVisit(a) == Max({0} \cup {d \in Day : Exists(visits[a][d])})

SweepAsks ==
  FoldLeft(LAMBDA acc, a :
             IF LastVisit(a) >= LastDay THEN acc
             ELSE Append(acc, [scope |-> {a}, from |-> LastVisit(a) + 1, to |-> LastDay]),
           <<>>, [a \in Agreement |-> a])

Sweep(p) ==
  /\ SweepAsks # <<>>
  /\ Begin(p, [Idle EXCEPT !.kind = "sweep", !.stage = "read", !.todo = SweepAsks])
  /\ UNCHANGED reviewed

-----------------------------------------------------------------------------
(* The bunching repair.                                                    *)

\* One move for each agreement whose own preview would change something.
OwnAsk(a) == [scope |-> {a}, from |-> 1, to |-> PeriodLast(LastVisit(a))]

BunchingMoves ==
  LET Changes(plan) == plan.adds # {} \/ plan.removals # {}
      previews == [a \in {a \in Agreement : LastVisit(a) > 0} |-> PlanOf(OwnAsk(a), Now, visits)]
  IN  FoldLeft(LAMBDA acc, a :
                 IF a \in DOMAIN previews /\ Changes(previews[a])
                 THEN Append(acc, [ask |-> OwnAsk(a), moved |-> Moved(previews[a])]) ELSE acc,
               <<>>, [a \in Agreement |-> a])

\* The administrator reviews a plan and will send it under this key.
Review(k) ==
  /\ reviewed[k] = NoReview /\ budget.jobs > 0
  /\ \E moves \in {BunchingMoves} \ {<<>>} :
       reviewed' = [reviewed EXCEPT ![k] = [moves |-> moves, intact |-> TRUE]]
  /\ UNCHANGED <<terms, opens, visits, jobs, batches, landed, budget>>

\* The key is free and the plan computed now is the one reviewed.
StartRepair(p, k) ==
  /\ reviewed[k].intact /\ batches[k] = NoBatch
  /\ Begin(p, [Idle EXCEPT !.kind = "repair", !.stage = "claim", !.key = {k},
                 !.todo = [i \in DOMAIN reviewed[k].moves |-> reviewed[k].moves[i].ask]])
  /\ BunchingMoves = reviewed[k].moves
  /\ UNCHANGED reviewed

\* Mutant: an open batch under the key does not keep another out.
ClaimedWhenClosed(k) == batches[k].status \in {"COMPLETED", "FAILED"}

\* What a repeated request is told: only a completed batch has a result; one
\* still in flight or stopped part-way is refused with the moves it recorded.
ReplayOrReject(batch) ==
  [told  |-> CASE batch.status = "COMPLETED" -> "replayed"
               [] batch.status = "FAILED" -> "failed part-way"
               [] batch.status = "IN_PROGRESS" -> "still being applied"
               [] OTHER -> "applied now",
   moves |-> batch.recorded]

\* The unique key decides who applies; the loser replays or is refused.
Claimed(k) == batches[k] # NoBatch

Claim(p) ==
  /\ jobs[p].stage = "claim"
  /\ \E k \in jobs[p].key :
       IF Claimed(k) THEN Step(p, Idle) /\ UNCHANGED batches
       ELSE /\ batches' = [batches EXCEPT ![k] = [status |-> "IN_PROGRESS", recorded |-> <<>>]]
            /\ Step(p, [jobs[p] EXCEPT !.stage = "read"])
  /\ UNCHANGED <<terms, opens, visits, reviewed, landed, budget>>

Ledger(p, status, recorded) ==
  /\ batches' = [k \in Key |-> IF k \in jobs[p].key
                               THEN [status |-> status, recorded |-> recorded] ELSE batches[k]]
  /\ UNCHANGED <<terms, opens, visits, reviewed, landed, budget>>

RecordMove(p) ==
  /\ jobs[p].stage = "record"
  /\ Step(p, Following(jobs[p]))
  /\ Ledger(p, "IN_PROGRESS", jobs[p].done)

\* What a batch that stops part-way says it applied.
SoFar(job) == job.done

FailBatch(p) ==
  /\ jobs[p].stage = "fail" /\ Step(p, Idle) /\ Ledger(p, "FAILED", SoFar(jobs[p]))

CompleteBatch(p) ==
  /\ jobs[p].stage = "complete" /\ Step(p, Idle) /\ Ledger(p, "COMPLETED", jobs[p].done)

\* The process stops; a claimed key stays IN_PROGRESS for good.  A confirm
\* or a sweep that stops leaves nothing behind.
Crash(p) ==
  /\ jobs[p].kind = "repair" /\ Step(p, Idle)
  /\ UNCHANGED <<terms, opens, visits, reviewed, batches, landed, budget>>

Next ==
  \/ \E a \in Agreement, d \in Day : Hold(a, d)
  \/ \E a \in Agreement, d \in Day : Release(a, d)
  \/ \E a \in Agreement, d, e \in Day : MoveByHand(a, d, e)
  \/ \E a \in Agreement : EditTerms(a)
  \/ \E a \in Agreement : EditHours(a)
  \/ \E p \in Process : Confirm(p)
  \/ \E p \in Process : Sweep(p)
  \/ \E k \in Key : Review(k)
  \/ \E p \in Process, k \in Key : StartRepair(p, k)
  \/ \E p \in Process : Claim(p)
  \/ \E p \in Process : ReadAgreements(p)
  \/ \E p \in Process : ReadRange(p)
  \/ \E p \in Process : Apply(p)
  \/ \E p \in Process : Refuse(p)
  \/ \E p \in Process : RecordMove(p)
  \/ \E p \in Process : FailBatch(p)
  \/ \E p \in Process : CompleteBatch(p)
  \/ \E p \in Process : Crash(p)

Spec == Init /\ [][Next]_vars

-----------------------------------------------------------------------------
(* Properties.                                                             *)

Commits(p) == jobs[p].stage = "apply" /\ jobs'[p].stage # "apply" /\ visits' # visits

\* A run writes only what is its own to write: a visit somebody holds is never
\* changed, moved or deleted, whenever it was held; and nothing is written but
\* visits of the agreements asked for, in the range asked for, in periods the
\* range holds whole or that are booked.
WritesOnlyItsOwn ==
  [][\A p \in Process : Commits(p) =>
       LET ask == jobs[p].todo[1]
       IN  \A s \in Slot : visits'[s[1]][s[2]] # visits[s[1]][s[2]] =>
             /\ ~visits[s[1]][s[2]].held
             /\ s \in Window(ask)
             /\ \/ PeriodDays(PeriodOf[s[2]]) \subseteq InRange(ask)
                \/ \E t \in TermsOf[s[1]] : BookedIn(t, PeriodOf[s[2]], ask) # {}]_vars

UnbookedDays(plan) == {s[2] : s \in plan.adds \ plan.firm}

\* Adding unbooked work never leaves a day over its cap, whoever filled it
\* since the run read it.  Holds when agreements keep their crew-minutes and
\* nobody touched the run's own agreements between its two reads.
AddingKeepsTheCap ==
  [][\A p \in Process : Commits(p) /\ jobs[p].steady =>
       \A d \in UnbookedDays(jobs[p].plan) : Cap[d] > 0 => DayMinutes(visits', d) <= Cap[d]]_vars

\* The claim itself: unbooked work is left unplanned rather than added to a
\* day that cannot carry it.
GuardHoldsTheCap ==
  [][\A p \in Process : Commits(p) =>
       \A d \in UnbookedDays(jobs[p].plan) : Cap[d] > 0 => DayMinutes(visits', d) <= Cap[d]]_vars

\* The plan applied is the one the calendar calls for now.
AppliesWhatIsCalledFor(p) == Commits(p) /\ jobs[p].plan = PlanOf(jobs[p].todo[1], Now, visits)

\* Generating the same horizon again changes nothing: after a run that
\* applied the plan the calendar calls for, the same ask plans nothing.
SecondRunIsQuiet ==
  [][\A p \in Process :
       AppliesWhatIsCalledFor(p) => Quiet(PlanOf(jobs[p].todo[1], Now', visits'))]_vars

\* What the manager is told of a plan made and applied with nothing in
\* between: a period of the range has every visit it was promised, or is
\* reported short of the promise with no more visits than it has; a day left
\* over its cap or with more visits than it can carry has its warning; a
\* period the range clipped and nobody serves is named, or its agreement is.
ToldTheTruth(ask, report, after) ==
  /\ \A a \in ask.scope, q \in {PeriodOf[d] : d \in InRange(ask)} :
       LET stands == Cardinality({d \in PeriodDays(q) : Exists(after[a][d])})
       IN  IF PeriodDays(q) \subseteq InRange(ask)
           THEN \/ stands >= terms[a].count
                \/ \E s \in report.shortfalls :
                     /\ s.agreement = a /\ s.period = q
                     /\ s.requested = terms[a].count /\ s.scheduled <= stands
           ELSE stands > 0 \/ a \notin MultiWeek \/ a \in report.skipped.agreements
                           \/ <<a, q>> \in report.skipped.periods
  /\ \A d \in InRange(ask) :
       LET minutes == DayMinutes(after, d)
           count   == Cardinality({a \in Agreement : Exists(after[a][d])})
       IN  /\ minutes > Cap[d] => \E w \in report.warnings : w.day = d /\ w.over
           /\ count > Crews[d] => \E w \in report.warnings : w.day = d /\ w.infeasible

ReportIsHonest ==
  [][\A p \in Process : AppliesWhatIsCalledFor(p) =>
       LET ask == jobs[p].todo[1] IN ToldTheTruth(ask, ReportOf(ask, Now, visits), visits')]_vars

Working(k) == {p \in Process : k \in jobs[p].key /\ jobs[p].stage # "claim"}
Closed(k) == batches[k].status \in {"COMPLETED", "FAILED"}

MovesIn(changes) ==
  FoldLeft(LAMBDA acc, c : IF c.moved > 0 THEN Append(acc, c) ELSE acc, <<>>, changes)
MovesLanded(k) == MovesIn(landed[k])

\* A batch's ledger names every change of its confirms that moved a visit, in
\* order and with as many visits as the calendar says, but for the last one
\* while the batch is in progress; closed, it names all.  One key applies one
\* plan: nobody works under a key that is closed, never two at a time, and once
\* closed a repeated request is always told the same.  Not claimed: that it
\* names every change.  One that only adds, removes or rewrites visits lands
\* under the key and is never named, though the code says that the row "names
\* exactly what has landed at every instant".
LedgerTellsWhatLanded ==
  [][\A k \in Key :
       /\ IsPrefix(batches'[k].recorded, MovesLanded(k)')
       /\ Len(MovesLanded(k)') <= Len(batches'[k].recorded) + 1
       /\ Closed(k)' => batches'[k].recorded = MovesLanded(k)'
       /\ Cardinality(Working(k)') <= 1
       /\ Closed(k) => /\ ReplayOrReject(batches[k])' = ReplayOrReject(batches[k])
                       /\ landed'[k] = landed[k]]_vars
=============================================================================
