--------------------------- MODULE VisitPlanning ---------------------------
(***************************************************************************)
(* How visit generation turns agreements into dated visits: the days each  *)
(* period picks, the pinning of requirements to protected visits, the      *)
(* cross-agreement load guard, and the difference between what is required *)
(* and what stands.  Pure operators over values read from the database;    *)
(* VisitGeneration is the protocol that reads, plans and applies.          *)
(*                                                                         *)
(* Abstractions.  One branch; every agreement is open-ended, starts on day *)
(* 1 and shares the periods PeriodOf.  A visit's start follows from its    *)
(* agreement and day, so agreement and day identify it.  Agreements are    *)
(* numbered in id order.  `minutes` is duration times crew.  Day           *)
(* feasibility is the case of visits forced to one hour: at most Crews[d]  *)
(* of them.  Nothing in the repository cancels a visit, so no calendar     *)
(* here holds a cancelled one.  Placement labels and messages are left     *)
(* out.                                                                    *)
(***************************************************************************)
EXTENDS Naturals, Sequences, FiniteSets, FiniteSetsExt, SequencesExt

CONSTANTS
  LastAgreement, LastDay,
  PeriodOf,      \* [Day -> Nat]
  Cap,           \* [Day -> Nat]: crew-minutes a day
  Crews          \* [Day -> Nat]: visits a day can carry at once

Agreement == 1..LastAgreement
Day == 1..LastDay

ASSUME PlanningAssumption ==
  /\ LastAgreement \in Nat \ {0} /\ LastDay \in Nat \ {0}
  /\ PeriodOf \in [Day -> Nat] /\ Cap \in [Day -> Nat] /\ Crews \in [Day -> Nat]

\* held: locked, staffed, published or moved by a manager; moved is for good.
NoVisit == [held |-> FALSE, moved |-> FALSE, minutes |-> 0]
Row == [held : BOOLEAN, moved : BOOLEAN, minutes : Nat]
Terms == [allowed : SUBSET Day, preferred : SUBSET Day, booked : SUBSET Day,
          count : Nat \ {0}, minutes : Nat \ {0}]
\* What a manager, a sweep or a repair asks of a run.
Ask == [scope : SUBSET Agreement, from : Day, to : Day]

Exists(row) == row # NoVisit
InRange(ask) == ask.from..ask.to
PeriodDays(p) == {d \in Day : PeriodOf[d] = p}
PeriodLast(d) == Max(PeriodDays(PeriodOf[d]))

-----------------------------------------------------------------------------
(* What an agreement requires of a range.                                  *)

BookedIn(t, p, ask) == {d \in t.booked \cap InRange(ask) : PeriodOf[d] = p}

\* A booked period is always planned; any other only when the range holds
\* it whole.
PlannedPeriods(t, ask) ==
  {p \in {PeriodOf[d] : d \in InRange(ask)} :
     BookedIn(t, p, ask) # {} \/ PeriodDays(p) \subseteq InRange(ask)}

Placeable(t, opens, p) == t.allowed \cap opens \cap PeriodDays(p)

RanksBefore(t, d, e) ==
  IF (d \in t.preferred) = (e \in t.preferred) THEN d < e ELSE d \in t.preferred

Chosen(t, opens, p, ask) ==
  LET days == Placeable(t, opens, p)
  IN  IF BookedIn(t, p, ask) # {} THEN BookedIn(t, p, ask)
      ELSE {d \in days : Cardinality({e \in days : RanksBefore(t, e, d)}) < t.count}

\* seen is what the run read: terms, opens and visits.
Required(ask, seen) ==
  LET Places(a, p) ==
        LET t    == seen.terms[a]
            firm == BookedIn(t, p, ask) # {}
            days == Chosen(t, seen.opens[a], p, ask)
        IN  {[agreement |-> a, day |-> d, firm |-> firm,
              spare |-> IF firm THEN {} ELSE Placeable(t, seen.opens[a], p) \ days] : d \in days}
  IN  UNION {UNION {Places(a, p) : p \in PlannedPeriods(seen.terms[a], ask)} : a \in ask.scope}

-----------------------------------------------------------------------------
(* A period with a protected visit is planned onto that visit's day.       *)

HeldDays(a, p, visits) == {d \in PeriodDays(p) : visits[a][d].held}

\* The i-th mover takes the day of the i-th protected visit left over.
Honoured(required, visits) ==
  LET Pinned(r) ==
        LET p       == PeriodOf[r.day]
            days    == {s.day : s \in {s \in required :
                                         s.agreement = r.agreement /\ PeriodOf[s.day] = p}}
            held    == HeldDays(r.agreement, p, visits)
            place   == Cardinality({d \in days \ held : d <= r.day})
            keepers == {d \in held \ days :
                          Cardinality({e \in held \ days : e <= d}) = place}
        IN  IF r.day \in held THEN [r EXCEPT !.spare = {}]
            ELSE IF keepers = {} THEN r
            ELSE [r EXCEPT !.day = Max(keepers), !.spare = {}, !.firm = FALSE]
  IN  {Pinned(r) : r \in required}

-----------------------------------------------------------------------------
(* The load guard.  `at` maps a requirement to its day, 0 when left        *)
(* unplanned; standing is the set of <<agreement, day>> the run leaves.    *)

\* The run judges a visit of its own agreements in a period it planned.
Judges(ask, terms, a, d) ==
  a \in ask.scope /\ d \in InRange(ask) /\ PeriodOf[d] \in PlannedPeriods(terms[a], ask)

\* Mutant: every visit stands, the ones the run is about to replace too.
StandingAll(ask, terms, visits) == {s \in Agreement \X InRange(ask) : Exists(visits[s[1]][s[2]])}

Standing(ask, terms, visits) ==
  {s \in Agreement \X InRange(ask) :
     /\ Exists(visits[s[1]][s[2]])
     /\ visits[s[1]][s[2]].held \/ ~Judges(ask, terms, s[1], s[2])}

DayMinutes(visits, d) == MapThenSumSet(LAMBDA a : visits[a][d].minutes, Agreement)

\* A standing visit this run re-plans is counted once, as the requirement.
PlannedMinutes(g, at, d) ==
  MapThenSumSet(LAMBDA r : g.seen.terms[r.agreement].minutes, {r \in DOMAIN at : at[r] = d})
  + MapThenSumSet(LAMBDA s : g.visits[s[1]][s[2]].minutes,
      {s \in g.standing : s[2] = d /\ ~\E r \in DOMAIN at : r.agreement = s[1] /\ r.day = d})

\* A day nobody asked about has no room, and nothing to say of its crews.
CapacityOn(g, d) == IF d \in g.asked THEN Cap[d] ELSE 0

Full(g, at, d) == PlannedMinutes(g, at, d) > CapacityOn(g, d)

\* Days a visit may still move to: its period's, not used, not over the cap.
Roomy(g, at, r) ==
  {d \in (r.spare \cup {r.day}) \ {at[r]} :
     /\ <<r.agreement, d>> \notin g.standing
     /\ ~\E s \in DOMAIN at : s.agreement = r.agreement /\ at[s] = d
     /\ PlannedMinutes(g, at, d) + g.seen.terms[r.agreement].minutes <= CapacityOn(g, d)}

LeastLoaded(g, at, days) ==
  CHOOSE d \in days : \A e \in days :
     LET m == PlannedMinutes(g, at, d) n == PlannedMinutes(g, at, e)
     IN  m < n \/ (m = n /\ d <= e)

MoveTo(g, at, r, days) == IF days = {} THEN at ELSE [at EXCEPT ![r] = LeastLoaded(g, at, days)]

Movers(at, d) == {r \in DOMAIN at : at[r] = d /\ ~r.firm /\ r.spare # {}}

\* Movers leave an overloaded day in agreement order until it fits.
Spread(g, at, d) ==
  FoldLeft(LAMBDA acc, a :
             LET movers == {r \in Movers(acc, d) : r.agreement = a}
             IN  IF ~Full(g, acc, d) \/ movers = {} THEN acc
                 ELSE LET r == CHOOSE r \in movers : TRUE
                      IN  MoveTo(g, acc, r, Roomy(g, acc, r)),
           at, [a \in Agreement |-> a])

\* Booked dates and work already held on its day are never dropped.
Sheddable(g, at, d) ==
  {r \in DOMAIN at : at[r] = d /\ ~r.firm /\ ~g.seen.visits[r.agreement][r.day].held}

\* A day with any capacity drops its heaviest visits until it fits.
Shed(g, at, d) ==
  LET Heaviest(acc) ==
        CHOOSE r \in Sheddable(g, acc, d) : \A s \in Sheddable(g, acc, d) :
          LET m == g.seen.terms[r.agreement].minutes n == g.seen.terms[s.agreement].minutes
          IN  m > n \/ (m = n /\ r.agreement <= s.agreement)
  IN  FoldLeft(LAMBDA acc, i :
                 IF CapacityOn(g, d) > 0 /\ Full(g, acc, d) /\ Sheddable(g, acc, d) # {}
                 THEN [acc EXCEPT ![Heaviest(acc)] = 0] ELSE acc,
               at, [a \in Agreement |-> a])

\* Every protected visit the run re-plans is counted twice here, as a
\* requirement and as standing.
Demands(g, at, d) ==
  Cardinality({r \in DOMAIN at : at[r] = d}) + Cardinality({s \in g.standing : s[2] = d})

Carries(g, d, n) == d \in g.asked => n <= Crews[d]

\* The first mover of an impossible day goes to a day that can carry it.
Ease(g, at, d) ==
  FoldLeft(LAMBDA acc, i :
             LET movers == Movers(acc, d)
             IN  IF Carries(g, d, Demands(g, acc, d)) \/ movers = {} THEN acc
                 ELSE LET r == CHOOSE r \in movers : \A s \in movers : r.agreement <= s.agreement
                      IN  MoveTo(g, acc, r, {e \in Roomy(g, acc, r) :
                                               Carries(g, e, Demands(g, acc, e) + 1)}),
           at, [a \in Agreement |-> a])

Guarded(g, required) ==
  LET start    == [r \in required |-> r.day]
      overfull == {d \in Day : Full(g, start, d)}
      days     == [d \in Day |-> d]
      spread   == FoldLeft(LAMBDA acc, d : IF d \in overfull THEN Shed(g, Spread(g, acc, d), d)
                                           ELSE acc, start, days)
  IN  FoldLeft(LAMBDA acc, d : Ease(g, acc, d), spread, days)

-----------------------------------------------------------------------------
(* The plan: seen was read first, the range (visits) after it.             *)

\* The days capacity and workforce are looked up for.
AskedDays(required, standing) ==
  {r.day : r \in required} \cup (UNION {r.spare : r \in required}) \cup {s[2] : s \in standing}

GuardInput(ask, seen, visits, required) ==
  LET standing == Standing(ask, seen.terms, visits)
  IN  [seen |-> seen, visits |-> visits, standing |-> standing,
       asked |-> AskedDays(required, standing)]

Judged(ask, seen) ==
  {s \in ask.scope \X InRange(ask) :
     Exists(seen.visits[s[1]][s[2]]) /\ Judges(ask, seen.terms, s[1], s[2])}

\* Each day's crew-minutes in the read the guard planned against.
LoadWhenPlanned(seen, visits, d) == DayMinutes(visits, d)

\* What placing the requirements at `at` comes to against what the run judges.
Difference(ask, seen, visits, at, judged) ==
  LET wanted  == {<<r.agreement, at[r]>> : r \in {r \in DOMAIN at : at[r] \in InRange(ask)}}
      open    == {s \in judged : ~seen.visits[s[1]][s[2]].held}
      adds    == wanted \ judged
      updates == {s \in wanted \cap open :
                    seen.visits[s[1]][s[2]].minutes # seen.terms[s[1]].minutes}
      touched == {s[1] : s \in adds \cup updates \cup (open \ wanted)}
  IN  [adds     |-> adds,
       updates  |-> updates,
       removals |-> open \ wanted,
       firm     |-> {s \in adds : \E r \in DOMAIN at : r.firm /\ <<r.agreement, at[r]>> = s},
       minutes  |-> [a \in touched |-> seen.terms[a].minutes],
       opens    |-> [a \in touched |-> seen.opens[a]],
       load     |-> [d \in {s[2] : s \in adds} |-> LoadWhenPlanned(seen, visits, d)]]

\* What `build` works out: the guard's input and where it put each requirement.
Build(ask, seen, visits) ==
  LET required == Honoured(Required(ask, seen), seen.visits)
      input    == GuardInput(ask, seen, visits, required)
  IN  [input |-> input, at |-> Guarded(input, required)]

PlanOf(ask, seen, visits) ==
  Difference(ask, seen, visits, Build(ask, seen, visits).at, Judged(ask, seen))

Quiet(plan) == plan.adds = {} /\ plan.updates = {} /\ plan.removals = {}
=============================================================================
