-------------------------- MODULE GenerationReport --------------------------
(***************************************************************************)
(* What a preview and a confirm tell the manager beside the plan: periods  *)
(* that come up short, days over their cap or that cannot be performed,    *)
(* agreements and clipped periods the range left alone, booked dates the   *)
(* site's hours do not support.  One value computed from the same two      *)
(* reads as the plan.                                                      *)
(*                                                                         *)
(* Abstractions.  Windows always fit the visit, so an open allowed day is  *)
(* placeable and no reason about windows arises.  No range here is a month *)
(* grid, so no clipped period is left to a neighbouring grid's overlap.    *)
(***************************************************************************)
EXTENDS VisitPlanning

CONSTANT MultiWeek     \* the agreements whose cadence is several weeks

ASSUME ReportAssumption == MultiWeek \subseteq Agreement

-----------------------------------------------------------------------------
(* Shortfalls: one for each agreement and period that is short.            *)

Explained(t, opens, p) ==
  CASE t.allowed \cap PeriodDays(p) = {} -> "NOT_ENOUGH_ALLOWED_DAYS"
    [] Placeable(t, opens, p) = {} -> "SITE_CLOSED_ON_ALLOWED_DAYS"
    [] OTHER -> "NOT_ENOUGH_ALLOWED_DAYS"

\* A period the range clips was never promised its full count.
PlanningShortfalls(ask, seen) ==
  UNION {LET t        == seen.terms[a]
             Days(p)  == Chosen(t, seen.opens[a], p, ask)
             short    == {p \in PlannedPeriods(t, ask) :
                            PeriodDays(p) \subseteq InRange(ask) /\ Cardinality(Days(p)) < t.count}
         IN  {[agreement |-> a, period |-> p, requested |-> t.count,
               scheduled |-> Cardinality(Days(p)),
               reasons   |-> {IF BookedIn(t, p, ask) # {} THEN "BOOKED_BELOW_FREQUENCY"
                              ELSE Explained(t, seen.opens[a], p)}] : p \in short}
         : a \in ask.scope}

\* Mutant: what the guard dropped is not reported.
UnplaceableUnsaid(ask, at) == {}

\* What the guard left unplanned, against what was planned before it.
UnplaceableShortfalls(ask, at) ==
  LET Of(a, p) == {r \in DOMAIN at : r.agreement = a /\ PeriodOf[r.day] = p}
      Dropped(a, p) == {r \in Of(a, p) : at[r] = 0 /\ r.day \in InRange(ask)}
  IN  {[agreement |-> k[1], period |-> k[2], requested |-> Cardinality(Of(k[1], k[2])),
        scheduled |-> Cardinality(Of(k[1], k[2])) - Cardinality(Dropped(k[1], k[2])),
        reasons   |-> {"BRANCH_DAY_AT_CAPACITY"}]
       : k \in {k \in ask.scope \X {PeriodOf[d] : d \in Day} : Dropped(k[1], k[2]) # {}}}

\* The promise is the most any stage saw of it, what survived the least.
Reconciled(shortfalls) ==
  {LET same == {t \in shortfalls : t.agreement = s.agreement /\ t.period = s.period}
   IN  [s EXCEPT !.requested = Max({t.requested : t \in same}),
                 !.scheduled = Min({t.scheduled : t \in same}),
                 !.reasons   = UNION {t.reasons : t \in same}]
   : s \in shortfalls}

-----------------------------------------------------------------------------
(* Days, periods left alone and bookings.                                  *)

LoadWarnings(ask, g, at) ==
  {w \in [day : InRange(ask), over : BOOLEAN, infeasible : BOOLEAN] :
     /\ w.over = Full(g, at, w.day)
     /\ w.infeasible = ~Carries(g, w.day, Demands(g, at, w.day))
     /\ w.over \/ w.infeasible}

SkippedPeriods(t, ask) == {PeriodOf[d] : d \in InRange(ask)} \ PlannedPeriods(t, ask)

PeriodsHoldingAVisit(rows) == {PeriodOf[d] : d \in {d \in Day : Exists(rows[d])}}

\* A clipped period some visit of the agreement stands in was handed over.
ClippedPeriodsAtRisk(t, rows, ask) == SkippedPeriods(t, ask) \ PeriodsHoldingAVisit(rows)

\* The agreements nothing was planned for, and the periods at risk.
Skipped(ask, seen) ==
  LET Silent(a) == PlannedPeriods(seen.terms[a], ask) = {}
  IN  [agreements |-> {a \in ask.scope : Silent(a)},
       periods    |-> UNION {{<<a, p>> : p \in ClippedPeriodsAtRisk(seen.terms[a], seen.visits[a], ask)}
                             : a \in {a \in ask.scope \cap MultiWeek : ~Silent(a)}}]

BookingIssues(ask, seen) ==
  {s \in ask.scope \X InRange(ask) : s[2] \in seen.terms[s[1]].booked \ seen.opens[s[1]]}

ReportOf(ask, seen, visits) ==
  LET built == Build(ask, seen, visits)
  IN  [shortfalls |-> Reconciled(PlanningShortfalls(ask, seen)
                                 \cup UnplaceableShortfalls(ask, built.at)),
       warnings   |-> LoadWarnings(ask, built.input, built.at),
       skipped    |-> Skipped(ask, seen),
       bookings   |-> BookingIssues(ask, seen)]
=============================================================================
