------------------------ MODULE VisitGenerationProofs ------------------------
(***************************************************************************)
(* Theorems about VisitGeneration.  The plan of a run is built with folds  *)
(* and sums, of which FoldTheorems says what they keep.  The first part is *)
(* what a plan may contain, what the load guard makes of it and the room   *)
(* it leaves; the second is the type invariant, the third the ledger of a  *)
(* repair, and the last the cap on the days a run adds unbooked work to.   *)
(***************************************************************************)
EXTENDS VisitGeneration, FoldTheorems

-----------------------------------------------------------------------------
(* What a plan may contain.                                                *)

Calendar == [Agreement -> [Day -> Row]]
Read == [terms : [Agreement -> Terms], opens : [Agreement -> SUBSET Day], visits : Calendar]
Requirement == [agreement : Agreement, day : Day, firm : BOOLEAN, spare : SUBSET Day]

(* A requirement of the ask, in a period the run plans, free to move within it. *)
IsRequired(r, ask, seen) ==
  /\ r \in Requirement /\ r.agreement \in ask.scope
  /\ PeriodOf[r.day] \in PlannedPeriods(seen.terms[r.agreement], ask)
  /\ \A d \in r.spare : PeriodOf[d] = PeriodOf[r.day]

LEMMA DaysAreNumbers ==
  /\ LastDay \in Nat /\ LastAgreement \in Nat
  /\ Day \subseteq Nat /\ Agreement \subseteq Nat /\ 0 \notin Day
  /\ IsFiniteSet(Day) /\ IsFiniteSet(Agreement) /\ IsFiniteSet(Slot)
<1>1. LastDay \in Nat /\ LastAgreement \in Nat
  BY PlanningAssumption
<1>2. Day \subseteq Nat /\ Agreement \subseteq Nat /\ 0 \notin Day
  BY <1>1 DEF Day, Agreement
<1>3. IsFiniteSet(Day) /\ IsFiniteSet(Agreement)
  BY <1>1, FS_Interval DEF Day, Agreement
<1>4. IsFiniteSet(Slot)
  BY <1>3, FS_Product DEF Slot
<1>5. QED
  BY <1>1, <1>2, <1>3, <1>4

LEMMA RequirementsAreFinite ==
  \A S \in SUBSET Requirement : IsFiniteSet(S)
<1> DEFINE T == (Agreement \X Day) \X (BOOLEAN \X SUBSET Day)
           f == [r \in Requirement |-> <<<<r.agreement, r.day>>, <<r.firm, r.spare>>>>]
<1>1. IsFiniteSet(BOOLEAN)
  <2>1. BOOLEAN = {TRUE, FALSE}
    OBVIOUS
  <2>2. IsFiniteSet({TRUE} \cup {FALSE})
    BY FS_Singleton, FS_AddElement
  <2>3. {TRUE} \cup {FALSE} = BOOLEAN
    BY <2>1
  <2>4. QED
    BY <2>2, <2>3
<1>2. IsFiniteSet(SUBSET Day)
  BY DaysAreNumbers, FS_SUBSET
<1>3. IsFiniteSet(Agreement \X Day) /\ IsFiniteSet(BOOLEAN \X SUBSET Day)
  BY <1>1, <1>2, DaysAreNumbers, FS_Product
<1>4. IsFiniteSet(T)
  BY <1>3, FS_Product
<1>5. f \in Injection(Requirement, T)
  <2>1. f \in [Requirement -> T]
    BY DEF Requirement
  <2>2. ASSUME NEW r \in Requirement, NEW s \in Requirement, f[r] = f[s] PROVE r = s
    <3>1. /\ r.agreement = s.agreement /\ r.day = s.day
          /\ r.firm = s.firm /\ r.spare = s.spare
      BY <2>2
    <3>2. QED
      BY <3>1 DEF Requirement
  <2>3. QED
    BY <2>1, <2>2 DEF Injection, IsInjective
<1>6. IsFiniteSet(Requirement)
  <2> HIDE DEF T, f
  <2> QED
    BY <1>4, <1>5, FS_Injection
<1>7. QED
  BY <1>6, FS_Subset

LEMMA RequiredIsRequired ==
  ASSUME NEW ask \in Ask, NEW seen \in Read, NEW r \in Required(ask, seen)
  PROVE  IsRequired(r, ask, seen)
<1> DEFINE Places(a, p) ==
             {[agreement |-> a, day |-> d, firm |-> BookedIn(seen.terms[a], p, ask) # {},
               spare |-> IF BookedIn(seen.terms[a], p, ask) # {} THEN {}
                         ELSE Placeable(seen.terms[a], seen.opens[a], p)
                                \ Chosen(seen.terms[a], seen.opens[a], p, ask)] :
                d \in Chosen(seen.terms[a], seen.opens[a], p, ask)}
           Of(a) == UNION {Places(a, p) : p \in PlannedPeriods(seen.terms[a], ask)}
<1>1. PICK a \in ask.scope : r \in Of(a)
  <2>1. Required(ask, seen) = (UNION {Of(a) : a \in ask.scope})
    BY DEF Required
  <2> HIDE DEF Of
  <2>2. QED
    BY <2>1
<1>2. PICK p \in PlannedPeriods(seen.terms[a], ask) : r \in Places(a, p)
  <2> HIDE DEF Places
  <2> QED
    BY <1>1
<1>3. PICK d \in Chosen(seen.terms[a], seen.opens[a], p, ask) :
        r = [agreement |-> a, day |-> d, firm |-> BookedIn(seen.terms[a], p, ask) # {},
             spare |-> IF BookedIn(seen.terms[a], p, ask) # {} THEN {}
                       ELSE Placeable(seen.terms[a], seen.opens[a], p)
                              \ Chosen(seen.terms[a], seen.opens[a], p, ask)]
  BY <1>2
<1>4. a \in Agreement /\ seen.terms[a] \in Terms /\ seen.opens[a] \in SUBSET Day
  BY DEF Ask, Read
<1>5. \A e \in Placeable(seen.terms[a], seen.opens[a], p) : e \in Day /\ PeriodOf[e] = p
  BY DEF Placeable, PeriodDays
<1>6. \A e \in BookedIn(seen.terms[a], p, ask) : e \in Day /\ PeriodOf[e] = p
  BY <1>4 DEF BookedIn, Terms
<1>7. d \in Day /\ PeriodOf[d] = p
  BY <1>3, <1>5, <1>6 DEF Chosen
<1>8. \A e \in r.spare : e \in Day /\ PeriodOf[e] = p
  BY <1>3, <1>5
<1>9. r \in Requirement
  <2>1. r.spare \subseteq Day
    BY <1>8
  <2>2. (BookedIn(seen.terms[a], p, ask) # {}) \in BOOLEAN
    OBVIOUS
  <2>3. QED
    BY <1>3, <1>4, <1>7, <2>1, <2>2 DEF Requirement
<1>10. QED
  BY <1>3, <1>7, <1>8, <1>9 DEF IsRequired

LEMMA HonouredIsRequired ==
  ASSUME NEW ask \in Ask, NEW seen \in Read, NEW r \in Honoured(Required(ask, seen), seen.visits)
  PROVE  IsRequired(r, ask, seen)
<1> DEFINE req == Required(ask, seen)
           Days(s) == {t.day : t \in {t \in req : t.agreement = s.agreement
                                                  /\ PeriodOf[t.day] = PeriodOf[s.day]}}
           Held(s) == HeldDays(s.agreement, PeriodOf[s.day], seen.visits)
           Place(s) == Cardinality({d \in Days(s) \ Held(s) : d <= s.day})
           Keepers(s) == {d \in Held(s) \ Days(s) :
                            Cardinality({e \in Held(s) \ Days(s) : e <= d}) = Place(s)}
<1>1. PICK s \in req : r = IF s.day \in Held(s) THEN [s EXCEPT !.spare = {}]
                           ELSE IF Keepers(s) = {} THEN s
                           ELSE [s EXCEPT !.day = Max(Keepers(s)), !.spare = {}, !.firm = FALSE]
  BY DEF Honoured
<1>2. IsRequired(s, ask, seen)
  BY RequiredIsRequired
<1>3. CASE s.day \in Held(s)
  <2>1. r = [s EXCEPT !.spare = {}]
    BY <1>1, <1>3
  <2>2. QED
    BY <1>2, <2>1 DEF IsRequired, Requirement
<1>4. CASE s.day \notin Held(s) /\ Keepers(s) = {}
  <2>1. r = s
    BY <1>1, <1>4
  <2>2. QED
    BY <1>2, <2>1
<1>5. CASE s.day \notin Held(s) /\ Keepers(s) # {}
  <2>1. r = [s EXCEPT !.day = Max(Keepers(s)), !.spare = {}, !.firm = FALSE]
    BY <1>1, <1>5
  <2>2. \A d \in Keepers(s) : d \in Day /\ PeriodOf[d] = PeriodOf[s.day]
    BY DEF HeldDays, PeriodDays
  <2>3. Max(Keepers(s)) \in Keepers(s)
    <3> HIDE DEF Keepers
    <3> QED
      BY <1>5, <2>2, DaysAreNumbers, MaxIsIn DEF Day
  <2>4. Max(Keepers(s)) \in Day /\ PeriodOf[Max(Keepers(s))] = PeriodOf[s.day]
    BY <2>2, <2>3
  <2>5. QED
    <3> HIDE DEF Keepers
    <3> QED
      BY <1>2, <2>1, <2>4 DEF IsRequired, Requirement
<1>6. QED
  BY <1>3, <1>4, <1>5

-----------------------------------------------------------------------------
(* The load guard only moves a requirement within its days, or drops it.   *)

MinutesOn(calendar, d) == [a \in Agreement |-> calendar[a][d].minutes]

LEMMA DayMinutesIsSum ==
  ASSUME NEW calendar \in Calendar, NEW d \in Day
  PROVE  /\ \A a \in Agreement : MinutesOn(calendar, d)[a] \in Nat
         /\ DayMinutes(calendar, d) = Sum(MinutesOn(calendar, d), Agreement)
<1> DEFINE f == MinutesOn(calendar, d)
           First(i) == [s \in SUBSET Agreement |-> IF s = {} THEN 0
                          ELSE LET x == CHOOSE x \in s : TRUE
                               IN  calendar[x][d].minutes + i[s \ {x}]]
           Second(i) == [s \in SUBSET Agreement |-> IF s = {} THEN 0
                           ELSE LET x == CHOOSE x \in s : TRUE IN f[x] + i[s \ {x}]]
           first == CHOOSE i : i = First(i)
           second == CHOOSE i : i = Second(i)
<1>1. \A i : First(i) = Second(i)
  <2> TAKE i
  <2>1. \A s \in SUBSET Agreement : s # {} => (CHOOSE x \in s : TRUE) \in Agreement
    OBVIOUS
  <2>2. \A a \in Agreement : f[a] = calendar[a][d].minutes
    BY DEF MinutesOn
  <2> HIDE DEF f
  <2>3. QED
    BY <2>1, <2>2
<1>2. first = second
  <2> HIDE DEF First, Second
  <2> QED
    BY <1>1
<1>3. DayMinutes(calendar, d) = first[Agreement]
  BY DEF DayMinutes, MapThenSumSet, MapThenFoldSet
<1>4. Sum(f, Agreement) = second[Agreement]
  BY DEF Sum, MapThenSumSet, MapThenFoldSet
<1>5. \A a \in Agreement : f[a] \in Nat
  BY DEF Calendar, Row, MinutesOn
<1>6. QED
  <2> HIDE DEF first, second
  <2> QED
    BY <1>2, <1>3, <1>4, <1>5

LEMMA DayMinutesType ==
  ASSUME NEW calendar \in Calendar, NEW d \in Day
  PROVE  DayMinutes(calendar, d) \in Nat
BY DayMinutesIsSum, SumType, DaysAreNumbers

(* What the guard works on: what the run read and what it leaves alone. *)
Guards == [seen : Read, visits : Calendar, standing : SUBSET Slot, asked : SUBSET Day]

(* What a day's minutes are the sum of: the requirements put on the day, and *)
(* the visits left standing there that no requirement replaces.             *)
Weight(g) == [r \in Requirement |-> g.seen.terms[r.agreement].minutes]
Here(at, d) == {r \in DOMAIN at : at[r] = d}
Stands(g) == [s \in Slot |-> g.visits[s[1]][s[2]].minutes]
Left(g, required, d) ==
  {s \in g.standing : s[2] = d /\ ~\E r \in required : r.agreement = s[1] /\ r.day = d}

LEMMA PlannedIsSum ==
  ASSUME NEW g \in Guards, NEW at, DOMAIN at \in SUBSET Requirement, NEW d
  PROVE  /\ IsFiniteSet(Here(at, d)) /\ Here(at, d) \in SUBSET Requirement
         /\ \A r \in Requirement : Weight(g)[r] \in Nat
         /\ IsFiniteSet(Left(g, DOMAIN at, d)) /\ Left(g, DOMAIN at, d) \in SUBSET Slot
         /\ \A s \in Slot : Stands(g)[s] \in Nat
         /\ PlannedMinutes(g, at, d) = Sum(Weight(g), Here(at, d)) + Sum(Stands(g), Left(g, DOMAIN at, d))
<1> DEFINE R == {r \in DOMAIN at : at[r] = d}
           V == {s \in g.standing : s[2] = d /\ ~\E r \in DOMAIN at : r.agreement = s[1] /\ r.day = d}
           f == Weight(g)
           h == Stands(g)
           FirstR(i) == [s \in SUBSET R |-> IF s = {} THEN 0
                           ELSE LET x == CHOOSE x \in s : TRUE
                                IN  g.seen.terms[x.agreement].minutes + i[s \ {x}]]
           SecondR(i) == [s \in SUBSET R |-> IF s = {} THEN 0
                            ELSE LET x == CHOOSE x \in s : TRUE IN f[x] + i[s \ {x}]]
           FirstV(i) == [s \in SUBSET V |-> IF s = {} THEN 0
                           ELSE LET x == CHOOSE x \in s : TRUE
                                IN  g.visits[x[1]][x[2]].minutes + i[s \ {x}]]
           SecondV(i) == [s \in SUBSET V |-> IF s = {} THEN 0
                            ELSE LET x == CHOOSE x \in s : TRUE IN h[x] + i[s \ {x}]]
           firstR == CHOOSE i : i = FirstR(i)
           secondR == CHOOSE i : i = SecondR(i)
           firstV == CHOOSE i : i = FirstV(i)
           secondV == CHOOSE i : i = SecondV(i)
<1>0. R \in SUBSET Requirement /\ V \in SUBSET Slot
  BY DEF Guards
<1>1. \A i : FirstR(i) = SecondR(i)
  <2> TAKE i
  <2>1. \A s \in SUBSET R : s # {} => (CHOOSE x \in s : TRUE) \in R
    OBVIOUS
  <2>2. \A x \in R : f[x] = g.seen.terms[x.agreement].minutes
    BY DEF Weight
  <2> HIDE DEF R, f
  <2>3. QED
    BY <2>1, <2>2
<1>2. \A i : FirstV(i) = SecondV(i)
  <2> TAKE i
  <2>1. \A s \in SUBSET V : s # {} => (CHOOSE x \in s : TRUE) \in V
    OBVIOUS
  <2>2. \A x \in V : h[x] = g.visits[x[1]][x[2]].minutes
    BY <1>0 DEF Stands
  <2> HIDE DEF V, h
  <2>3. QED
    BY <2>1, <2>2
<1>3. firstR = secondR /\ firstV = secondV
  <2> HIDE DEF FirstR, SecondR, FirstV, SecondV
  <2>1. firstR = secondR
    BY <1>1
  <2>2. firstV = secondV
    BY <1>2
  <2>3. QED
    BY <2>1, <2>2
<1>4. PlannedMinutes(g, at, d) = firstR[R] + firstV[V]
  BY DEF PlannedMinutes, MapThenSumSet, MapThenFoldSet
<1>5. Sum(f, R) = secondR[R] /\ Sum(h, V) = secondV[V]
  BY DEF Sum, MapThenSumSet, MapThenFoldSet
<1>6. IsFiniteSet(R) /\ IsFiniteSet(V)
  <2> HIDE DEF R, V
  <2> QED
    BY <1>0, RequirementsAreFinite, DaysAreNumbers, FS_Subset
<1>7. ASSUME NEW r \in Requirement PROVE f[r] \in Nat
  <2>1. g.seen.terms[r.agreement] \in Terms
    BY DEF Requirement, Guards, Read
  <2>2. QED
    BY <2>1 DEF Terms, Weight
<1>8. ASSUME NEW s \in Slot PROVE h[s] \in Nat
  <2>1. s[1] \in Agreement /\ s[2] \in Day
    BY DEF Slot
  <2>2. g.visits[s[1]][s[2]] \in Row
    BY <2>1 DEF Guards, Calendar
  <2>3. QED
    BY <2>2 DEF Row, Stands
<1>9. Here(at, d) = R /\ Left(g, DOMAIN at, d) = V
  BY DEF Here, Left
<1>10. QED
  <2> HIDE DEF R, V, f, h, firstR, secondR, firstV, secondV
  <2>1. PlannedMinutes(g, at, d) = Sum(f, R) + Sum(h, V)
    BY <1>3, <1>4, <1>5
  <2>2. IsFiniteSet(Here(at, d)) /\ Here(at, d) \in SUBSET Requirement
    BY <1>0, <1>6, <1>9
  <2>3. IsFiniteSet(Left(g, DOMAIN at, d)) /\ Left(g, DOMAIN at, d) \in SUBSET Slot
    BY <1>0, <1>6, <1>9
  <2>4. PlannedMinutes(g, at, d) = Sum(Weight(g), Here(at, d)) + Sum(Stands(g), Left(g, DOMAIN at, d))
    BY <1>9, <2>1 DEF f, h
  <2>5. QED
    BY <1>7, <1>8, <2>2, <2>3, <2>4 DEF f, h

LEMMA PlannedMinutesType ==
  ASSUME NEW g \in Guards, NEW at, DOMAIN at \in SUBSET Requirement, NEW d
  PROVE  PlannedMinutes(g, at, d) \in Nat
BY PlannedIsSum, SumType

LEMMA LeastLoadedIsOne ==
  ASSUME NEW g \in Guards, NEW at, DOMAIN at \in SUBSET Requirement,
         NEW days \in SUBSET Day, days # {}
  PROVE  LeastLoaded(g, at, days) \in days
<1> DEFINE M(d) == PlannedMinutes(g, at, d)
           Loads == {M(d) : d \in days}
           Light(m) == {d \in days : M(d) = m}
<1>1. \A d \in days : M(d) \in Nat
  BY PlannedMinutesType
<1> HIDE DEF M
<1>2. Loads \subseteq Nat /\ Loads # {}
  BY <1>1
<1>3. PICK m \in Loads : \A n \in Loads : m <= n
  <2> HIDE DEF Loads
  <2> QED
    BY <1>2, LeastOf
<1>4. Light(m) # {} /\ Light(m) \subseteq Nat
  BY DaysAreNumbers
<1>5. PICK d \in Light(m) : \A e \in Light(m) : d <= e
  <2> HIDE DEF Light
  <2> QED
    BY <1>4, LeastOf
<1>6. \A e \in days : M(d) < M(e) \/ (M(d) = M(e) /\ d <= e)
  <2> TAKE e \in days
  <2>1. M(d) = m /\ M(e) \in Loads
    OBVIOUS
  <2>2. m <= M(e) /\ m \in Nat /\ M(e) \in Nat
    BY <1>1, <1>2, <1>3, <2>1
  <2>3. M(e) = m => d <= e
    BY <1>5
  <2>4. QED
    BY <2>1, <2>2, <2>3
<1>7. d \in days
  OBVIOUS
<1>8. QED
  BY <1>6, <1>7 DEF LeastLoaded, M

(* Where the guard may have put the requirements; 0 is left unplanned. *)
Placings(required) ==
  {at \in [required -> Day \cup {0}] : \A r \in required : at[r] \in r.spare \cup {r.day, 0}}

(* A requirement of a period somebody holds a visit of, on that visit's day. *)
Pinned(g, r) == g.seen.visits[r.agreement][r.day].held

(* Requirements as the pinning leaves them: no two of an agreement on a day, *)
(* none that is pinned free to move.                                         *)
Tidy(g, required) ==
  /\ required \in SUBSET Requirement
  /\ \A r \in required : Pinned(g, r) => r.spare = {}
  /\ \A r, s \in required : r.agreement = s.agreement /\ r.day = s.day => r = s

Orderly(g, required) ==
  {at \in Placings(required) :
     /\ \A r \in required : Pinned(g, r) => at[r] = r.day
     /\ \A r, s \in required : r.agreement = s.agreement /\ at[r] = at[s] /\ at[r] # 0 => r = s}

(* A day with any capacity fits it, or has nothing left the guard may drop. *)
Settled(g, at, d) == CapacityOn(g, d) > 0 => ~Full(g, at, d) \/ Sheddable(g, at, d) = {}

(* What the guard may make of a placing: a day that fits keeps fitting, and *)
(* a day that is settled stays so.                                          *)
Onward(g, required, at) ==
  {new \in Orderly(g, required) :
     \A d \in Day : /\ Settled(g, at, d) => Settled(g, new, d)
                    /\ ~Full(g, at, d) => ~Full(g, new, d)}

LEMMA CapacityIsNat ==
  ASSUME NEW g, NEW d \in Day
  PROVE  CapacityOn(g, d) \in Nat
BY PlanningAssumption DEF CapacityOn

(* A day that only loses requirements gets no fuller. *)
LEMMA LosingEases ==
  ASSUME NEW g \in Guards, NEW required \in SUBSET Requirement, NEW at \in Placings(required),
         NEW new \in Placings(required), NEW d \in Day, Here(new, d) \subseteq Here(at, d)
  PROVE  /\ Settled(g, at, d) => Settled(g, new, d)
         /\ ~Full(g, at, d) => ~Full(g, new, d)
<1>1. DOMAIN at = required /\ DOMAIN new = required
  BY DEF Placings
<1>2. /\ IsFiniteSet(Here(at, d)) /\ Here(at, d) \in SUBSET Requirement
      /\ \A r \in Requirement : Weight(g)[r] \in Nat
      /\ PlannedMinutes(g, at, d) = Sum(Weight(g), Here(at, d)) + Sum(Stands(g), Left(g, required, d))
      /\ PlannedMinutes(g, new, d) = Sum(Weight(g), Here(new, d)) + Sum(Stands(g), Left(g, required, d))
      /\ IsFiniteSet(Left(g, required, d)) /\ Left(g, required, d) \in SUBSET Slot
      /\ \A s \in Slot : Stands(g)[s] \in Nat
  BY <1>1, PlannedIsSum
<1>3. Sum(Weight(g), Here(new, d)) <= Sum(Weight(g), Here(at, d))
  BY <1>2, SumOfPart
<1>4. /\ Sum(Weight(g), Here(new, d)) \in Nat /\ Sum(Weight(g), Here(at, d)) \in Nat
      /\ Sum(Stands(g), Left(g, required, d)) \in Nat
  <2>1. IsFiniteSet(Here(new, d))
    BY <1>2, FS_Subset
  <2>2. QED
    BY <1>2, <2>1, SumType
<1>5. PlannedMinutes(g, new, d) <= PlannedMinutes(g, at, d)
  BY <1>2, <1>3, <1>4
<1>6. ~Full(g, at, d) => ~Full(g, new, d)
  <2>1. PlannedMinutes(g, new, d) \in Nat /\ PlannedMinutes(g, at, d) \in Nat /\ CapacityOn(g, d) \in Nat
    BY <1>2, <1>4, CapacityIsNat
  <2>2. QED
    BY <1>5, <2>1 DEF Full
<1>7. Sheddable(g, new, d) \subseteq Sheddable(g, at, d)
  BY DEF Sheddable, Here
<1>8. QED
  BY <1>6, <1>7 DEF Settled

(* A requirement moved to a roomy day leaves every day no worse. *)
LEMMA MoveIsOnward ==
  ASSUME NEW g \in Guards, NEW required, Tidy(g, required), NEW at \in Orderly(g, required),
         NEW d \in Day, NEW r \in Movers(at, d), NEW days \in SUBSET Roomy(g, at, r)
  PROVE  MoveTo(g, at, r, days) \in Onward(g, required, at)
<1>0. /\ at \in Placings(required) /\ DOMAIN at = required /\ required \in SUBSET Requirement
      /\ at \in [required -> Day \cup {0}]
      /\ r \in required /\ r \in Requirement /\ r.spare # {} /\ at[r] = d
  BY DEF Orderly, Placings, Tidy, Movers
<1>1. CASE days = {}
  <2>1. MoveTo(g, at, r, days) = at
    BY <1>1 DEF MoveTo
  <2>2. QED
    BY <2>1 DEF Onward
<1>2. CASE days # {}
  <2> DEFINE e == LeastLoaded(g, at, days)
             new == [at EXCEPT ![r] = e]
  <2>1. days \in SUBSET Day
    BY <1>0 DEF Roomy, Requirement
  <2>2. e \in days
    BY <1>0, <1>2, <2>1, LeastLoadedIsOne
  <2>3. MoveTo(g, at, r, days) = new
    BY <1>2 DEF MoveTo
  <2> HIDE DEF e
  <2>4. /\ e \in r.spare \cup {r.day} /\ e # d /\ e \in Day
        /\ \A s \in required : ~(s.agreement = r.agreement /\ at[s] = e)
        /\ PlannedMinutes(g, at, e) + g.seen.terms[r.agreement].minutes <= CapacityOn(g, e)
    BY <1>0, <2>1, <2>2 DEF Roomy
  <2>5. new \in Placings(required) /\ DOMAIN new = required
    BY <1>0, <2>4 DEF Placings
  <2>6. new \in Orderly(g, required)
    <3>1. ASSUME NEW s \in required, Pinned(g, s) PROVE new[s] = s.day
      <4>1. s # r
        BY <1>0, <3>1 DEF Tidy
      <4>2. QED
        BY <1>0, <3>1, <4>1 DEF Orderly
    <3>2. ASSUME NEW s \in required, NEW t \in required, s.agreement = t.agreement,
                 new[s] = new[t], new[s] # 0
          PROVE  s = t
      BY <1>0, <2>4, <3>2 DEF Orderly
    <3>3. QED
      BY <2>5, <3>1, <3>2 DEF Orderly
  <2>7. ASSUME NEW c \in Day
        PROVE  /\ Settled(g, at, c) => Settled(g, new, c)
               /\ ~Full(g, at, c) => ~Full(g, new, c)
    <3>1. CASE c # e
      <4>1. Here(new, c) \subseteq Here(at, c)
        BY <1>0, <2>5, <3>1 DEF Here
      <4> HIDE DEF new
      <4>2. QED
        BY <1>0, <2>5, <4>1, LosingEases
    <3>2. CASE c = e
      <4> DEFINE w == Weight(g)
                 l == Sum(Stands(g), Left(g, required, e))
      <4>1. r \in Here(new, e) /\ Here(new, e) \ {r} = Here(at, e)
        BY <1>0, <2>4, <2>5 DEF Here
      <4> HIDE DEF new
      <4>2. /\ IsFiniteSet(Here(new, e)) /\ Here(new, e) \in SUBSET Requirement
            /\ IsFiniteSet(Here(at, e)) /\ Here(at, e) \in SUBSET Requirement
            /\ \A s \in Requirement : w[s] \in Nat
            /\ IsFiniteSet(Left(g, required, e)) /\ Left(g, required, e) \in SUBSET Slot
            /\ \A s \in Slot : Stands(g)[s] \in Nat
            /\ PlannedMinutes(g, at, e) = Sum(w, Here(at, e)) + l
            /\ PlannedMinutes(g, new, e) = Sum(w, Here(new, e)) + l
        BY <1>0, <2>5, PlannedIsSum
      <4>3. w[r] = g.seen.terms[r.agreement].minutes
        BY <1>0 DEF Weight
      <4> HIDE DEF w
      <4>4. Sum(w, Here(new, e)) = w[r] + Sum(w, Here(at, e))
        BY <4>1, <4>2, SumRemoves
      <4>5. l \in Nat /\ Sum(w, Here(at, e)) \in Nat /\ w[r] \in Nat
        BY <1>0, <4>2, SumType
      <4> HIDE DEF l
      <4>6. PlannedMinutes(g, new, e) <= CapacityOn(g, e)
        BY <2>4, <4>2, <4>3, <4>4, <4>5
      <4>7. ~Full(g, new, e)
        <5>1. PlannedMinutes(g, new, e) \in Nat /\ CapacityOn(g, e) \in Nat
          BY <2>4, <4>2, <4>4, <4>5, CapacityIsNat
        <5>2. QED
          BY <4>6, <5>1 DEF Full
      <4>8. QED
        BY <3>2, <4>7 DEF Settled
    <3>3. QED
      BY <3>1, <3>2
  <2>8. QED
    <3> HIDE DEF new
    <3> QED
      BY <2>3, <2>6, <2>7 DEF Onward
<1>3. QED
  BY <1>1, <1>2

(* So does dropping one the guard may drop, and the day has one less. *)
Without(at, r) == [at EXCEPT ![r] = 0]

LEMMA DropIsOnward ==
  ASSUME NEW g \in Guards, NEW required, Tidy(g, required), NEW at \in Orderly(g, required),
         NEW d \in Day, NEW r \in Sheddable(g, at, d)
  PROVE  /\ Without(at, r) \in Onward(g, required, at)
         /\ \A s : s \in Sheddable(g, Without(at, r), d) <=> s \in Sheddable(g, at, d) /\ s # r
<1> DEFINE new == Without(at, r)
<1>0. /\ at \in Placings(required) /\ DOMAIN at = required /\ required \in SUBSET Requirement
      /\ at \in [required -> Day \cup {0}]
      /\ r \in required /\ at[r] = d /\ ~Pinned(g, r)
  BY DEF Orderly, Placings, Tidy, Sheddable, Pinned
<1>1. 0 \notin Day
  BY DaysAreNumbers
<1>2. new \in Placings(required) /\ DOMAIN new = required
  BY <1>0 DEF Placings, Without
<1>3. new \in Orderly(g, required)
  <2>1. ASSUME NEW s \in required, Pinned(g, s) PROVE new[s] = s.day
    BY <1>0, <2>1 DEF Orderly, Without
  <2>2. ASSUME NEW s \in required, NEW t \in required, s.agreement = t.agreement,
               new[s] = new[t], new[s] # 0
        PROVE  s = t
    BY <1>0, <2>2 DEF Orderly, Without
  <2>3. QED
    BY <1>2, <2>1, <2>2 DEF Orderly
<1>4. ASSUME NEW c \in Day
      PROVE  /\ Settled(g, at, c) => Settled(g, new, c)
             /\ ~Full(g, at, c) => ~Full(g, new, c)
  <2>1. Here(new, c) \subseteq Here(at, c)
    BY <1>0, <1>1, <1>2 DEF Here, Without
  <2> HIDE DEF new
  <2>2. QED
    BY <1>0, <1>2, <2>1, LosingEases
<1>5. \A s : s \in Sheddable(g, new, d) <=> s \in Sheddable(g, at, d) /\ s # r
  BY <1>0, <1>1, <1>2 DEF Sheddable, Without
<1>6. QED
  <2> HIDE DEF new
  <2> QED
    BY <1>3, <1>4, <1>5 DEF Onward, new

LEMMA OnwardIsTransitive ==
  ASSUME NEW g, NEW required, NEW at, NEW new \in Onward(g, required, at),
         NEW last \in Onward(g, required, new)
  PROVE  last \in Onward(g, required, at)
BY DEF Onward

LEMMA OnwardIsReflexive ==
  ASSUME NEW g, NEW required, NEW at \in Orderly(g, required)
  PROVE  at \in Onward(g, required, at)
BY DEF Onward

(* The heaviest visit of a day, and the mover first in line, exist. *)
Heavier(g, r, s) ==
  LET m == g.seen.terms[r.agreement].minutes n == g.seen.terms[s.agreement].minutes
  IN  m > n \/ (m = n /\ r.agreement <= s.agreement)

LEMMA HeaviestIsOne ==
  ASSUME NEW g \in Guards, NEW S \in SUBSET Requirement, S # {}
  PROVE  (CHOOSE r \in S : \A s \in S : Heavier(g, r, s)) \in S
<1> DEFINE w == Weight(g)
           Weights == {w[r] : r \in S}
           Numbers(m) == {r.agreement : r \in {r \in S : w[r] = m}}
<1>1. IsFiniteSet(S) /\ \A r \in S : w[r] \in Nat
  <2>1. \A r \in Requirement : w[r] \in Nat
    <3> TAKE r \in Requirement
    <3>1. g.seen.terms[r.agreement] \in Terms
      BY DEF Requirement, Guards, Read
    <3>2. QED
      BY <3>1 DEF Terms, Weight
  <2>2. QED
    BY <2>1, RequirementsAreFinite
<1>2. \A r \in S : w[r] = g.seen.terms[r.agreement].minutes /\ r.agreement \in Nat
  BY DaysAreNumbers DEF Weight, Requirement
<1> HIDE DEF w
<1> DEFINE N == Sum(w, S)
<1>3. N \in Nat /\ \A r \in S : w[r] <= N
  <2>1. N \in Nat
    BY <1>1, SumType
  <2>2. ASSUME NEW r \in S PROVE w[r] <= N
    <3>1. Sum(w, S) = w[r] + Sum(w, S \ {r})
      BY <1>1, SumRemoves
    <3>2. Sum(w, S \ {r}) \in Nat
      <4>1. IsFiniteSet(S \ {r}) /\ \A s \in S \ {r} : w[s] \in Nat
        BY <1>1, FS_Subset
      <4>2. QED
        BY <4>1, SumType
    <3>3. QED
      BY <1>1, <3>1, <3>2
  <2>3. QED
    BY <2>1, <2>2
<1> HIDE DEF N
<1>4. Weights \in SUBSET (0..N) /\ Weights # {}
  BY <1>1, <1>3
<1>5. PICK m \in Weights : \A n \in Weights : m >= n
  <2> HIDE DEF Weights
  <2> QED
    BY <1>3, <1>4, GreatestOf
<1>6. Numbers(m) \subseteq Nat /\ Numbers(m) # {}
  BY <1>2
<1>7. PICK k \in Numbers(m) : \A n \in Numbers(m) : k <= n
  <2> HIDE DEF Numbers
  <2> QED
    BY <1>6, LeastOf
<1>8. PICK r \in S : w[r] = m /\ r.agreement = k
  OBVIOUS
<1>9. ASSUME NEW s \in S PROVE Heavier(g, r, s)
  <2>1. w[r] >= w[s] /\ w[r] \in Nat /\ w[s] \in Nat
    BY <1>1, <1>5, <1>8
  <2>2. w[s] = m => r.agreement <= s.agreement
    BY <1>7, <1>8
  <2>3. QED
    BY <1>2, <1>8, <2>1, <2>2 DEF Heavier
<1>10. QED
  BY <1>9

LEMMA FirstIsOne ==
  ASSUME NEW S \in SUBSET Requirement, S # {}
  PROVE  (CHOOSE r \in S : \A s \in S : r.agreement <= s.agreement) \in S
<1> DEFINE Numbers == {r.agreement : r \in S}
<1>1. Numbers \subseteq Nat /\ Numbers # {}
  BY DaysAreNumbers DEF Requirement
<1>2. PICK k \in Numbers : \A n \in Numbers : k <= n
  <2> HIDE DEF Numbers
  <2> QED
    BY <1>1, LeastOf
<1>3. PICK r \in S : r.agreement = k
  OBVIOUS
<1>4. \A s \in S : r.agreement <= s.agreement
  BY <1>2, <1>3
<1>5. QED
  BY <1>4

(* The two passes of the guard over the days. *)
Relieved(g, overfull, at) ==
  FoldLeft(LAMBDA acc, d : IF d \in overfull THEN Shed(g, Spread(g, acc, d), d) ELSE acc,
           at, [d \in Day |-> d])
Eased(g, at) == FoldLeft(LAMBDA acc, d : Ease(g, acc, d), at, [d \in Day |-> d])

(* Spreading an overloaded day. *)
LEMMA SpreadKeeps ==
  ASSUME NEW g \in Guards, NEW required, Tidy(g, required), NEW at \in Orderly(g, required),
         NEW d \in Day
  PROVE  Spread(g, at, d) \in Onward(g, required, at)
<1> DEFINE X == Onward(g, required, at)
           Turn(acc, a) ==
             LET movers == {r \in Movers(acc, d) : r.agreement = a}
             IN  IF ~Full(g, acc, d) \/ movers = {} THEN acc
                 ELSE LET r == CHOOSE r \in movers : TRUE
                      IN  MoveTo(g, acc, r, Roomy(g, acc, r))
           seq == [a \in Agreement |-> a]
           Whole(i) == [s \in SUBSET DOMAIN seq |-> IF s = {} THEN at
                          ELSE LET x == Max(s) IN Turn(i[s \ {x}], seq[x])]
           fold == CHOOSE i : i = Whole(i)
           step == [x \in X \X (1..LastAgreement) |-> Turn(x[1], x[2])]
<1>1. Spread(g, at, d) = fold[DOMAIN seq]
  BY DEF Spread, FoldLeft, MapThenFoldSet
<1>2. DOMAIN seq = 1..LastAgreement /\ LastAgreement \in Nat /\ \A x \in 1..LastAgreement : seq[x] = x
  BY DaysAreNumbers DEF Agreement
<1>0. at \in X
  BY OnwardIsReflexive
<1>3. ASSUME NEW acc \in X, NEW a PROVE Turn(acc, a) \in X
  <2> DEFINE movers == {r \in Movers(acc, d) : r.agreement = a}
             r == CHOOSE r \in movers : TRUE
  <2>1. CASE ~Full(g, acc, d) \/ movers = {}
    BY <2>1
  <2>2. CASE Full(g, acc, d) /\ movers # {}
    <3>1. r \in Movers(acc, d)
      BY <2>2
    <3>2. Turn(acc, a) = MoveTo(g, acc, r, Roomy(g, acc, r))
      BY <2>2
    <3>3. acc \in Orderly(g, required) /\ acc \in Onward(g, required, at)
      BY DEF Onward
    <3> HIDE DEF r, Turn
    <3>4. MoveTo(g, acc, r, Roomy(g, acc, r)) \in Onward(g, required, acc)
      BY <3>1, <3>3, MoveIsOnward
    <3>5. QED
      BY <3>2, <3>3, <3>4, OnwardIsTransitive
  <2>3. QED
    BY <2>1, <2>2
<1> HIDE DEF X, Turn, seq
<1>4. step \in [X \X (1..LastAgreement) -> X]
  BY <1>3
<1>5. PICK i \in [SUBSET (1..LastAgreement) -> X] : FoldsBy(i, LastAgreement, at, step)
  <2> HIDE DEF step
  <2> QED
    BY <1>0, <1>2, <1>4, FoldExists
<1>6. i = Whole(i)
  <2>1. ASSUME NEW s \in SUBSET (1..LastAgreement), s # {}
        PROVE  i[s] = Turn(i[s \ {Max(s)}], seq[Max(s)])
    <3>1. Max(s) \in 1..LastAgreement
      BY <1>2, <2>1, MaxIsIn
    <3>2. i[s] = step[<<i[s \ {Max(s)}], Max(s)>>] /\ i[s \ {Max(s)}] \in X
      BY <1>5, <2>1 DEF FoldsBy
    <3>3. QED
      BY <1>2, <3>1, <3>2
  <2>2. QED
    BY <1>2, <1>5, <2>1 DEF FoldsBy
<1>7. fold = Whole(fold)
  <2> HIDE DEF Whole
  <2> QED
    BY <1>6
<1> HIDE DEF fold
<1>8. fold[{}] \in X
  BY <1>0, <1>7
<1>9. ASSUME NEW s \in SUBSET (1..LastAgreement), s # {}, fold[s \ {Max(s)}] \in X
      PROVE  fold[s] \in X
  <2>1. fold[s] = Turn(fold[s \ {Max(s)}], seq[Max(s)])
    BY <1>2, <1>7, <1>9
  <2>2. Max(s) \in 1..LastAgreement
    BY <1>2, <1>9, MaxIsIn
  <2>3. QED
    BY <1>2, <1>3, <1>9, <2>1, <2>2
<1>10. fold[1..LastAgreement] \in X
  BY <1>2, <1>8, <1>9, FoldKeeps
<1>11. QED
  BY <1>1, <1>2, <1>10 DEF X

(* Dropping the heaviest visits of a full day, one in each turn, settles it. *)
LEMMA ShedSettles ==
  ASSUME NEW g \in Guards, NEW required, Tidy(g, required), NEW at \in Orderly(g, required),
         NEW d \in Day
  PROVE  Shed(g, at, d) \in Onward(g, required, at) /\ Settled(g, Shed(g, at, d), d)
<1> DEFINE X == Onward(g, required, at)
           Heaviest(acc) ==
             CHOOSE r \in Sheddable(g, acc, d) : \A s \in Sheddable(g, acc, d) :
               LET m == g.seen.terms[r.agreement].minutes n == g.seen.terms[s.agreement].minutes
               IN  m > n \/ (m = n /\ r.agreement <= s.agreement)
           Turn(acc, a) ==
             IF CapacityOn(g, d) > 0 /\ Full(g, acc, d) /\ Sheddable(g, acc, d) # {}
             THEN [acc EXCEPT ![Heaviest(acc)] = 0] ELSE acc
           More(acc) == Cardinality(Sheddable(g, acc, d))
           seq == [a \in Agreement |-> a]
           Whole(i) == [s \in SUBSET DOMAIN seq |-> IF s = {} THEN at
                          ELSE LET x == Max(s) IN Turn(i[s \ {x}], seq[x])]
           fold == CHOOSE i : i = Whole(i)
           step == [x \in X \X (1..LastAgreement) |-> Turn(x[1], x[2])]
<1>12. \A acc \in X : /\ Sheddable(g, acc, d) \in SUBSET Requirement
                     /\ IsFiniteSet(Sheddable(g, acc, d)) /\ More(acc) \in Nat
                     /\ acc \in Orderly(g, required)
  <2> TAKE acc \in X
  <2>1. acc \in Orderly(g, required)
    BY DEF Onward
  <2>2. Sheddable(g, acc, d) \in SUBSET Requirement
    BY <2>1 DEF Sheddable, Orderly, Placings, Tidy
  <2>3. QED
    BY <2>1, <2>2, RequirementsAreFinite, FS_CardinalityType
<1>1. Shed(g, at, d) = fold[DOMAIN seq]
  BY DEF Shed, FoldLeft, MapThenFoldSet
<1>2. DOMAIN seq = 1..LastAgreement /\ LastAgreement \in Nat /\ \A x \in 1..LastAgreement : seq[x] = x
  BY DaysAreNumbers DEF Agreement
<1>0. at \in X
  BY OnwardIsReflexive
<1>3. ASSUME NEW acc \in X, NEW a
      PROVE  /\ Turn(acc, a) \in X
             /\ Settled(g, acc, d) => Settled(g, Turn(acc, a), d)
             /\ Settled(g, Turn(acc, a), d) \/ More(Turn(acc, a)) = More(acc) - 1
  <2> DEFINE S == Sheddable(g, acc, d)
             r == Heaviest(acc)
             new == [acc EXCEPT ![r] = 0]
  <2>1. CASE CapacityOn(g, d) > 0 /\ Full(g, acc, d) /\ S # {}
    <3>1. Turn(acc, a) = new
      BY <2>1
    <3>2. r = CHOOSE r_ \in S : \A s \in S : Heavier(g, r_, s)
      BY DEF Heavier
    <3> HIDE DEF Turn, r
    <3>3. r \in S
      BY <1>12, <2>1, <3>2, HeaviestIsOne
    <3> DEFINE less == S \ {r}
    <3>9. acc \in Orderly(g, required) /\ r \in Sheddable(g, acc, d)
      BY <1>12, <3>3
    <3>12. new = Without(acc, r)
      BY DEF Without
    <3> HIDE DEF new, X, Heaviest, seq, Whole, fold, step, More
    <3>13. /\ new \in Onward(g, required, acc)
           /\ \A s : s \in Sheddable(g, new, d) <=> s \in Sheddable(g, acc, d) /\ s # r
      BY <3>9, <3>12, DropIsOnward
    <3>4. new \in Onward(g, required, acc) /\ Sheddable(g, new, d) = less
      BY <3>13
    <3>5. new \in X
      BY <3>4, OnwardIsTransitive DEF X
    <3>6. Settled(g, acc, d) => Settled(g, new, d)
      BY <3>4 DEF Onward
    <3>10. IsFiniteSet(S)
      BY <1>12
    <3>11. Cardinality(less) = Cardinality(S) - 1
      BY <3>3, <3>10, FS_RemoveElement
    <3> HIDE DEF less
    <3>7. Cardinality(Sheddable(g, new, d)) = Cardinality(S) - 1
      BY <3>4, <3>11
    <3>8. QED
      BY <3>1, <3>5, <3>6, <3>7 DEF More
  <2>2. CASE ~(CapacityOn(g, d) > 0 /\ Full(g, acc, d) /\ S # {})
    <3>1. Turn(acc, a) = acc
      BY <2>2
    <3>2. Settled(g, acc, d)
      BY <2>2 DEF Settled
    <3> HIDE DEF Turn
    <3>3. QED
      BY <3>1, <3>2
  <2>3. QED
    BY <2>1, <2>2
<1> HIDE DEF X, Turn, seq, More
<1>4. step \in [X \X (1..LastAgreement) -> X]
  BY <1>3
<1>5. PICK i \in [SUBSET (1..LastAgreement) -> X] : FoldsBy(i, LastAgreement, at, step)
  <2> HIDE DEF step
  <2> QED
    BY <1>0, <1>2, <1>4, FoldExists
<1>6. i = Whole(i)
  <2>1. ASSUME NEW s \in SUBSET (1..LastAgreement), s # {}
        PROVE  i[s] = Turn(i[s \ {Max(s)}], seq[Max(s)])
    <3>1. Max(s) \in 1..LastAgreement
      BY <1>2, <2>1, MaxIsIn
    <3>2. i[s] = step[<<i[s \ {Max(s)}], Max(s)>>] /\ i[s \ {Max(s)}] \in X
      BY <1>5, <2>1 DEF FoldsBy
    <3>3. QED
      BY <1>2, <3>1, <3>2
  <2>2. QED
    BY <1>2, <1>5, <2>1 DEF FoldsBy
<1>7. fold = Whole(fold)
  <2> HIDE DEF Whole
  <2> QED
    BY <1>6
<1> HIDE DEF fold
<1> DEFINE Kept == {z \in (SUBSET (1..LastAgreement)) \X X :
                      Settled(g, z[2], d) \/ More(z[2]) + Cardinality(z[1]) <= LastAgreement}
<1>8. <<{}, fold[{}]>> \in Kept
  <2>1. fold[{}] = at
    BY <1>7
  <2>2. More(at) <= LastAgreement
    <3> DEFINE S == Sheddable(g, at, d)
               f == [r \in S |-> r.agreement]
    <3>1. S \in SUBSET Requirement /\ IsFiniteSet(S) /\ at \in Orderly(g, required)
      BY <1>0, <1>12
    <3>2. d # 0 /\ LastAgreement \in Nat
      BY DaysAreNumbers
    <3>3. \A r, s \in S : r.agreement = s.agreement => r = s
      BY <3>1, <3>2 DEF Sheddable, Orderly, Placings
    <3>4. f \in Injection(S, 1..LastAgreement)
      <4>1. \A r \in S : r.agreement \in 1..LastAgreement
        BY <3>1 DEF Requirement, Agreement
      <4> HIDE DEF S
      <4>2. QED
        BY <3>3, <4>1 DEF Injection, IsInjective
    <3>5. IsFiniteSet(1..LastAgreement) /\ Cardinality(1..LastAgreement) = LastAgreement
      BY <3>2, FS_Interval
    <3> HIDE DEF S, f
    <3>6. Cardinality(S) <= Cardinality(1..LastAgreement)
      BY <3>4, <3>5, FS_Injection
    <3>7. QED
      BY <3>5, <3>6 DEF S, More
  <2>3. Cardinality({}) = 0
    BY FS_EmptySet
  <2>4. More(at) \in Nat
    BY <1>0, <1>12
  <2>5. More(at) + Cardinality({}) <= LastAgreement
    BY <1>2, <2>2, <2>3, <2>4
  <2>6. <<{}, at>> \in (SUBSET (1..LastAgreement)) \X X
    BY <1>0
  <2>7. <<{}, at>> \in Kept
    BY <2>5, <2>6
  <2> HIDE DEF Kept
  <2>8. QED
    BY <2>1, <2>7
<1>9. ASSUME NEW s \in SUBSET (1..LastAgreement), s # {}
      PROVE  \E x \in s : <<s \ {x}, fold[s \ {x}]>> \in Kept => <<s, fold[s]>> \in Kept
  <2> DEFINE x == Max(s)
             acc == fold[s \ {x}]
  <2>1. fold[s] = Turn(acc, seq[x])
    BY <1>2, <1>7, <1>9
  <2>2. x \in s
    BY <1>2, <1>9, MaxIsIn
  <2>3. Cardinality(s \ {x}) = Cardinality(s) - 1 /\ Cardinality(s) \in Nat
    <3>1. IsFiniteSet(1..LastAgreement)
      BY <1>2, FS_Interval
    <3>2. IsFiniteSet(s)
      BY <3>1, FS_Subset
    <3>3. QED
      BY <2>2, <3>2, FS_RemoveElement, FS_CardinalityType
  <2> HIDE DEF x
  <2>4. ASSUME <<s \ {x}, acc>> \in Kept PROVE <<s, fold[s]>> \in Kept
    <3>1. acc \in X /\ (Settled(g, acc, d) \/ More(acc) + Cardinality(s \ {x}) <= LastAgreement)
      BY <2>4
    <3> HIDE DEF acc
    <3>2. /\ fold[s] \in X /\ More(acc) \in Nat
          /\ Settled(g, acc, d) => Settled(g, fold[s], d)
          /\ Settled(g, fold[s], d) \/ More(fold[s]) = More(acc) - 1
      BY <1>3, <1>12, <2>1, <3>1
    <3>3. Settled(g, fold[s], d) \/ More(fold[s]) + Cardinality(s) <= LastAgreement
      BY <1>2, <2>3, <3>1, <3>2
    <3>4. QED
      BY <3>2, <3>3
  <2>5. QED
    BY <2>2, <2>4
<1>10. <<1..LastAgreement, fold[1..LastAgreement]>> \in Kept
  <2>1. IsFiniteSet(1..LastAgreement)
    BY <1>2, FS_Interval
  <2> HIDE DEF Kept
  <2>2. QED
    BY <1>8, <1>9, <2>1, RecursionKeeps
<1>11. fold[1..LastAgreement] \in X /\ Settled(g, fold[1..LastAgreement], d)
  <2> DEFINE last == fold[1..LastAgreement]
  <2>1. last \in X /\ (Settled(g, last, d) \/ More(last) + Cardinality(1..LastAgreement) <= LastAgreement)
    BY <1>10
  <2> HIDE DEF last
  <2>2. Cardinality(1..LastAgreement) = LastAgreement
    BY <1>2, FS_Interval
  <2>3. More(last) \in Nat /\ IsFiniteSet(Sheddable(g, last, d))
    BY <1>12, <2>1
  <2>4. More(last) = 0 => Sheddable(g, last, d) = {}
    BY <2>3, FS_EmptySet DEF More
  <2>5. Settled(g, last, d)
    BY <1>2, <2>1, <2>2, <2>3, <2>4 DEF Settled
  <2>6. QED
    BY <2>1, <2>5 DEF last
<1>13. QED
  BY <1>1, <1>2, <1>11 DEF X

(* Easing a day that cannot be performed. *)
LEMMA EaseKeeps ==
  ASSUME NEW g \in Guards, NEW required, Tidy(g, required), NEW at \in Orderly(g, required),
         NEW d \in Day
  PROVE  Ease(g, at, d) \in Onward(g, required, at)
<1> DEFINE X == Onward(g, required, at)
           Turn(acc, a) ==
             LET movers == Movers(acc, d)
             IN  IF Carries(g, d, Demands(g, acc, d)) \/ movers = {} THEN acc
                 ELSE LET r == CHOOSE r \in movers : \A s \in movers : r.agreement <= s.agreement
                      IN  MoveTo(g, acc, r, {e \in Roomy(g, acc, r) :
                                               Carries(g, e, Demands(g, acc, e) + 1)})
           seq == [a \in Agreement |-> a]
           Whole(i) == [s \in SUBSET DOMAIN seq |-> IF s = {} THEN at
                          ELSE LET x == Max(s) IN Turn(i[s \ {x}], seq[x])]
           fold == CHOOSE i : i = Whole(i)
           step == [x \in X \X (1..LastAgreement) |-> Turn(x[1], x[2])]
<1>1. Ease(g, at, d) = fold[DOMAIN seq]
  BY DEF Ease, FoldLeft, MapThenFoldSet
<1>2. DOMAIN seq = 1..LastAgreement /\ LastAgreement \in Nat /\ \A x \in 1..LastAgreement : seq[x] = x
  BY DaysAreNumbers DEF Agreement
<1>0. at \in X
  BY OnwardIsReflexive
<1>3. ASSUME NEW acc \in X, NEW a PROVE Turn(acc, a) \in X
  <2> DEFINE movers == Movers(acc, d)
             r == CHOOSE r \in movers : \A s \in movers : r.agreement <= s.agreement
             days == {e \in Roomy(g, acc, r) : Carries(g, e, Demands(g, acc, e) + 1)}
  <2>1. CASE Carries(g, d, Demands(g, acc, d)) \/ movers = {}
    BY <2>1
  <2>2. CASE ~Carries(g, d, Demands(g, acc, d)) /\ movers # {}
    <3>1. Turn(acc, a) = MoveTo(g, acc, r, days)
      BY <2>2
    <3>2. acc \in Orderly(g, required) /\ acc \in Onward(g, required, at)
      BY DEF Onward
    <3>3. movers \in SUBSET Requirement
      BY <3>2 DEF Movers, Orderly, Placings, Tidy
    <3>4. days \in SUBSET Roomy(g, acc, r)
      OBVIOUS
    <3> HIDE DEF days, Turn, movers
    <3>5. r \in movers
      BY <2>2, <3>3, FirstIsOne
    <3> HIDE DEF r
    <3>6. MoveTo(g, acc, r, days) \in Onward(g, required, acc)
      BY <3>2, <3>4, <3>5, MoveIsOnward DEF movers
    <3>7. QED
      BY <3>1, <3>2, <3>6, OnwardIsTransitive
  <2>3. QED
    BY <2>1, <2>2
<1> HIDE DEF X, Turn, seq
<1>4. step \in [X \X (1..LastAgreement) -> X]
  BY <1>3
<1>5. PICK i \in [SUBSET (1..LastAgreement) -> X] : FoldsBy(i, LastAgreement, at, step)
  <2> HIDE DEF step
  <2> QED
    BY <1>0, <1>2, <1>4, FoldExists
<1>6. i = Whole(i)
  <2>1. ASSUME NEW s \in SUBSET (1..LastAgreement), s # {}
        PROVE  i[s] = Turn(i[s \ {Max(s)}], seq[Max(s)])
    <3>1. Max(s) \in 1..LastAgreement
      BY <1>2, <2>1, MaxIsIn
    <3>2. i[s] = step[<<i[s \ {Max(s)}], Max(s)>>] /\ i[s \ {Max(s)}] \in X
      BY <1>5, <2>1 DEF FoldsBy
    <3>3. QED
      BY <1>2, <3>1, <3>2
  <2>2. QED
    BY <1>2, <1>5, <2>1 DEF FoldsBy
<1>7. fold = Whole(fold)
  <2> HIDE DEF Whole
  <2> QED
    BY <1>6
<1> HIDE DEF fold
<1>8. fold[{}] \in X
  BY <1>0, <1>7
<1>9. ASSUME NEW s \in SUBSET (1..LastAgreement), s # {}, fold[s \ {Max(s)}] \in X
      PROVE  fold[s] \in X
  <2>1. fold[s] = Turn(fold[s \ {Max(s)}], seq[Max(s)])
    BY <1>2, <1>7, <1>9
  <2>2. Max(s) \in 1..LastAgreement
    BY <1>2, <1>9, MaxIsIn
  <2>3. QED
    BY <1>2, <1>3, <1>9, <2>1, <2>2
<1>10. fold[1..LastAgreement] \in X
  BY <1>2, <1>8, <1>9, FoldKeeps
<1>11. QED
  BY <1>1, <1>2, <1>10 DEF X

(* Every overfull day in turn is settled. *)
LEMMA RelievedSettles ==
  ASSUME NEW g \in Guards, NEW required, Tidy(g, required), NEW at \in Orderly(g, required),
         NEW overfull, \A d \in Day \ overfull : ~Full(g, at, d)
  PROVE  /\ Relieved(g, overfull, at) \in Onward(g, required, at)
         /\ \A d \in Day : Settled(g, Relieved(g, overfull, at), d)
<1> DEFINE X == Onward(g, required, at)
           Turn(acc, a) ==
             IF a \in overfull THEN Shed(g, Spread(g, acc, a), a) ELSE acc
           seq == [d \in Day |-> d]
           Whole(i) == [s \in SUBSET DOMAIN seq |-> IF s = {} THEN at
                          ELSE LET x == Max(s) IN Turn(i[s \ {x}], seq[x])]
           fold == CHOOSE i : i = Whole(i)
           step == [x \in X \X (1..LastDay) |-> Turn(x[1], x[2])]
<1>1. Relieved(g, overfull, at) = fold[DOMAIN seq]
  BY DEF Relieved, FoldLeft, MapThenFoldSet
<1>2. DOMAIN seq = 1..LastDay /\ LastDay \in Nat /\ \A x \in 1..LastDay : seq[x] = x
  BY DaysAreNumbers DEF Day
<1>0. at \in X
  BY OnwardIsReflexive
<1>3. ASSUME NEW acc \in X, NEW a \in Day
      PROVE  /\ Turn(acc, a) \in X /\ Settled(g, Turn(acc, a), a)
             /\ \A d \in Day : Settled(g, acc, d) => Settled(g, Turn(acc, a), d)
  <2>1. acc \in Orderly(g, required)
    BY DEF Onward
  <2>2. CASE a \in overfull
    <3> DEFINE spread == Spread(g, acc, a)
               shed == Shed(g, spread, a)
    <3>1. Turn(acc, a) = shed
      BY <2>2
    <3> HIDE DEF Turn
    <3>2. spread \in Onward(g, required, acc)
      BY <2>1, SpreadKeeps
    <3> HIDE DEF spread
    <3>3. spread \in Orderly(g, required)
      BY <3>2 DEF Onward
    <3>4. shed \in Onward(g, required, spread) /\ Settled(g, shed, a)
      BY <3>3, ShedSettles
    <3> HIDE DEF shed
    <3>5. shed \in Onward(g, required, acc)
      BY <3>2, <3>4, OnwardIsTransitive
    <3>6. shed \in X
      BY <3>5, OnwardIsTransitive
    <3>7. QED
      BY <3>1, <3>4, <3>5, <3>6 DEF Onward
  <2>3. CASE a \notin overfull
    <3>1. Turn(acc, a) = acc
      BY <2>3
    <3>2. ~Full(g, acc, a)
      BY <2>3 DEF Onward
    <3> HIDE DEF Turn
    <3>3. QED
      BY <3>1, <3>2 DEF Settled
  <2>4. QED
    BY <2>2, <2>3
<1> HIDE DEF X, Turn, seq
<1>4. step \in [X \X (1..LastDay) -> X]
  BY <1>3 DEF Day
<1>5. PICK i \in [SUBSET (1..LastDay) -> X] : FoldsBy(i, LastDay, at, step)
  <2> HIDE DEF step
  <2> QED
    BY <1>0, <1>2, <1>4, FoldExists
<1>6. i = Whole(i)
  <2>1. ASSUME NEW s \in SUBSET (1..LastDay), s # {}
        PROVE  i[s] = Turn(i[s \ {Max(s)}], seq[Max(s)])
    <3>1. Max(s) \in 1..LastDay
      BY <1>2, <2>1, MaxIsIn
    <3>2. i[s] = step[<<i[s \ {Max(s)}], Max(s)>>] /\ i[s \ {Max(s)}] \in X
      BY <1>5, <2>1 DEF FoldsBy
    <3>3. QED
      BY <1>2, <3>1, <3>2
  <2>2. QED
    BY <1>2, <1>5, <2>1 DEF FoldsBy
<1>7. fold = Whole(fold)
  <2> HIDE DEF Whole
  <2> QED
    BY <1>6
<1> HIDE DEF fold
<1> DEFINE Kept == {z \in (SUBSET (1..LastDay)) \X X : \A d \in z[1] : Settled(g, z[2], d)}
<1>8. <<{}, fold[{}]>> \in Kept
  BY <1>0, <1>7
<1>9. ASSUME NEW s \in SUBSET (1..LastDay), s # {}
      PROVE  \E x \in s : <<s \ {x}, fold[s \ {x}]>> \in Kept => <<s, fold[s]>> \in Kept
  <2> DEFINE x == Max(s)
             acc == fold[s \ {x}]
  <2>1. fold[s] = Turn(acc, seq[x])
    BY <1>2, <1>7, <1>9
  <2>2. x \in s
    BY <1>2, <1>9, MaxIsIn
  <2> HIDE DEF x
  <2>3. x \in Day /\ seq[x] = x /\ s \subseteq Day
    BY <1>2, <2>2 DEF Day
  <2>4. ASSUME <<s \ {x}, acc>> \in Kept PROVE <<s, fold[s]>> \in Kept
    <3>1. acc \in X /\ \A d \in s \ {x} : Settled(g, acc, d)
      BY <2>4
    <3> HIDE DEF acc
    <3>2. /\ fold[s] \in X /\ Settled(g, fold[s], x)
          /\ \A d \in Day : Settled(g, acc, d) => Settled(g, fold[s], d)
      BY <1>3, <2>1, <2>3, <3>1
    <3>3. QED
      BY <2>3, <3>1, <3>2
  <2>5. QED
    BY <2>2, <2>4
<1>10. <<1..LastDay, fold[1..LastDay]>> \in Kept
  <2>1. IsFiniteSet(1..LastDay)
    BY <1>2, FS_Interval
  <2> HIDE DEF Kept
  <2>2. QED
    BY <1>8, <1>9, <2>1, RecursionKeeps
<1>11. fold[1..LastDay] \in X /\ \A d \in 1..LastDay : Settled(g, fold[1..LastDay], d)
  BY <1>10
<1>12. QED
  BY <1>1, <1>2, <1>11 DEF X, Day

(* Every day in turn. *)
LEMMA EasedKeeps ==
  ASSUME NEW g \in Guards, NEW required, Tidy(g, required), NEW at \in Orderly(g, required)
  PROVE  Eased(g, at) \in Onward(g, required, at)
<1> DEFINE X == Onward(g, required, at)
           Turn(acc, a) == Ease(g, acc, a)
           seq == [d \in Day |-> d]
           Whole(i) == [s \in SUBSET DOMAIN seq |-> IF s = {} THEN at
                          ELSE LET x == Max(s) IN Turn(i[s \ {x}], seq[x])]
           fold == CHOOSE i : i = Whole(i)
           step == [x \in X \X (1..LastDay) |-> Turn(x[1], x[2])]
<1>1. Eased(g, at) = fold[DOMAIN seq]
  BY DEF Eased, FoldLeft, MapThenFoldSet
<1>2. DOMAIN seq = 1..LastDay /\ LastDay \in Nat /\ \A x \in 1..LastDay : seq[x] = x
  BY DaysAreNumbers DEF Day
<1>0. at \in X
  BY OnwardIsReflexive
<1>3. ASSUME NEW acc \in X, NEW a \in Day PROVE Turn(acc, a) \in X
  <2>1. acc \in Orderly(g, required)
    BY DEF Onward
  <2>2. Ease(g, acc, a) \in Onward(g, required, acc)
    BY <2>1, EaseKeeps
  <2>3. QED
    BY <2>2, OnwardIsTransitive
<1> HIDE DEF X, Turn, seq
<1>4. step \in [X \X (1..LastDay) -> X]
  BY <1>3 DEF Day
<1>5. PICK i \in [SUBSET (1..LastDay) -> X] : FoldsBy(i, LastDay, at, step)
  <2> HIDE DEF step
  <2> QED
    BY <1>0, <1>2, <1>4, FoldExists
<1>6. i = Whole(i)
  <2>1. ASSUME NEW s \in SUBSET (1..LastDay), s # {}
        PROVE  i[s] = Turn(i[s \ {Max(s)}], seq[Max(s)])
    <3>1. Max(s) \in 1..LastDay
      BY <1>2, <2>1, MaxIsIn
    <3>2. i[s] = step[<<i[s \ {Max(s)}], Max(s)>>] /\ i[s \ {Max(s)}] \in X
      BY <1>5, <2>1 DEF FoldsBy
    <3>3. QED
      BY <1>2, <3>1, <3>2
  <2>2. QED
    BY <1>2, <1>5, <2>1 DEF FoldsBy
<1>7. fold = Whole(fold)
  <2> HIDE DEF Whole
  <2> QED
    BY <1>6
<1> HIDE DEF fold
<1>8. fold[{}] \in X
  BY <1>0, <1>7
<1>9. ASSUME NEW s \in SUBSET (1..LastDay), s # {}, fold[s \ {Max(s)}] \in X
      PROVE  fold[s] \in X
  <2>1. fold[s] = Turn(fold[s \ {Max(s)}], seq[Max(s)])
    BY <1>2, <1>7, <1>9
  <2>2. Max(s) \in 1..LastDay
    BY <1>2, <1>9, MaxIsIn
  <2>3. QED
    BY <1>2, <1>3, <1>9, <2>1, <2>2 DEF Day
<1>10. fold[1..LastDay] \in X
  BY <1>2, <1>8, <1>9, FoldKeeps
<1>11. QED
  BY <1>1, <1>2, <1>10 DEF X

(* The guard leaves every requirement on one of its days or unplanned, every *)
(* pinned one on its day, no two of an agreement on a day, and every day     *)
(* settled.                                                                  *)
LEMMA GuardedSettles ==
  ASSUME NEW g \in Guards, NEW required, Tidy(g, required)
  PROVE  /\ Guarded(g, required) \in Orderly(g, required)
         /\ \A d \in Day : Settled(g, Guarded(g, required), d)
<1> DEFINE start == [r \in required |-> r.day]
           overfull == {d \in Day : Full(g, start, d)}
           relieved == Relieved(g, overfull, start)
<1>1. start \in Placings(required)
  BY DEF Placings, Requirement, Tidy
<1>2. start \in Orderly(g, required)
  BY <1>1 DEF Orderly, Tidy
<1>3. Guarded(g, required) = Eased(g, relieved)
  BY DEF Guarded, Eased, Relieved
<1> HIDE DEF start
<1>4. \A d \in Day \ overfull : ~Full(g, start, d)
  OBVIOUS
<1> HIDE DEF overfull
<1>5. relieved \in Onward(g, required, start) /\ \A d \in Day : Settled(g, relieved, d)
  BY <1>2, <1>4, RelievedSettles
<1> HIDE DEF relieved
<1>6. relieved \in Orderly(g, required)
  BY <1>5 DEF Onward
<1>7. Eased(g, relieved) \in Onward(g, required, relieved)
  BY <1>6, EasedKeeps
<1>8. QED
  BY <1>3, <1>5, <1>7 DEF Onward

(* What the pinning leaves of the requirements.                            *)

(* An agreement requires a day of a range once. *)
LEMMA RequiredOnce ==
  ASSUME NEW ask \in Ask, NEW seen \in Read, NEW r \in Required(ask, seen), NEW s \in Required(ask, seen),
         r.agreement = s.agreement, r.day = s.day
  PROVE  r = s
<1> DEFINE Firm(a, p) == BookedIn(seen.terms[a], p, ask) # {}
           Spare(a, p) == IF Firm(a, p) THEN {}
                          ELSE Placeable(seen.terms[a], seen.opens[a], p)
                                 \ Chosen(seen.terms[a], seen.opens[a], p, ask)
           Places(a, p) == {[agreement |-> a, day |-> d, firm |-> Firm(a, p), spare |-> Spare(a, p)] :
                              d \in Chosen(seen.terms[a], seen.opens[a], p, ask)}
           Of(a) == UNION {Places(a, p) : p \in PlannedPeriods(seen.terms[a], ask)}
<1>1. ASSUME NEW q \in Required(ask, seen)
      PROVE  q = [agreement |-> q.agreement, day |-> q.day, firm |-> Firm(q.agreement, PeriodOf[q.day]),
                  spare |-> Spare(q.agreement, PeriodOf[q.day])]
  <2>1. PICK a \in ask.scope : q \in Of(a)
    <3>1. Required(ask, seen) = (UNION {Of(a) : a \in ask.scope})
      BY DEF Required
    <3> HIDE DEF Of
    <3>2. QED
      BY <3>1
  <2>2. PICK p \in PlannedPeriods(seen.terms[a], ask) : q \in Places(a, p)
    <3> HIDE DEF Places
    <3> QED
      BY <2>1
  <2> HIDE DEF Firm, Spare
  <2>3. PICK d \in Chosen(seen.terms[a], seen.opens[a], p, ask) :
          q = [agreement |-> a, day |-> d, firm |-> Firm(a, p), spare |-> Spare(a, p)]
    BY <2>2
  <2>4. a \in Agreement /\ seen.terms[a] \in Terms
    BY DEF Ask, Read
  <2>5. PeriodOf[d] = p
    BY <2>4 DEF Chosen, BookedIn, Placeable, PeriodDays, Terms
  <2>6. QED
    BY <2>3, <2>5
<1> HIDE DEF Firm, Spare
<1>2. QED
  BY <1>1

(* In a set of numbers, the place of a number in the order is its own. *)
Place(D, x) == Cardinality({d \in D : d <= x})

LEMMA PlaceIsOnes ==
  ASSUME NEW D, D \subseteq Nat, IsFiniteSet(D), NEW x \in D, NEW y \in D, Place(D, x) = Place(D, y)
  PROVE  x = y
<1>1. ASSUME NEW a \in D, NEW b \in D, a < b PROVE Place(D, a) < Place(D, b)
  <2> DEFINE A == {d \in D : d <= a}
             B == {d \in D : d <= b}
             C == B \ {b}
  <2>1. IsFiniteSet(A) /\ IsFiniteSet(B) /\ IsFiniteSet(C)
    BY FS_Subset
  <2>2. a \in Nat /\ b \in Nat
    OBVIOUS
  <2>3. b \in B
    BY <2>2
  <2>4. A \subseteq C
    <3>1. ASSUME NEW d \in A PROVE d \in D /\ d <= b /\ d # b
      <4>1. d \in D /\ d \in Nat /\ d <= a
        OBVIOUS
      <4>2. QED
        BY <1>1, <2>2, <4>1
    <3>2. QED
      BY <3>1
  <2> HIDE DEF A, B
  <2>5. Cardinality(C) = Cardinality(B) - 1
    BY <2>1, <2>3, FS_RemoveElement
  <2> HIDE DEF C
  <2>6. Cardinality(A) <= Cardinality(C)
    BY <2>1, <2>4, FS_Subset
  <2>7. Cardinality(A) \in Nat /\ Cardinality(B) \in Nat /\ Cardinality(C) \in Nat
    BY <2>1, FS_CardinalityType
  <2>8. QED
    BY <2>5, <2>6, <2>7 DEF Place, A, B
<1>2. Place(D, x) \in Nat
  <2>1. IsFiniteSet({d \in D : d <= x})
    BY FS_Subset
  <2>2. QED
    BY <2>1, FS_CardinalityType DEF Place
<1>3. x \in Nat /\ y \in Nat
  OBVIOUS
<1>4. ~(x < y) /\ ~(y < x)
  BY <1>1, <1>2
<1>5. QED
  BY <1>3, <1>4

(* The days an agreement requires of a period, those somebody holds no visit *)
(* on, and the held visits' days left over for them.                         *)
Sought(req, a, p) == {t.day : t \in {t \in req : t.agreement = a /\ PeriodOf[t.day] = p}}
Moving(req, calendar, a, p) == Sought(req, a, p) \ HeldDays(a, p, calendar)
Taken(req, calendar, a, p) == HeldDays(a, p, calendar) \ Sought(req, a, p)
Keeping(req, calendar, s) ==
  {d \in Taken(req, calendar, s.agreement, PeriodOf[s.day]) :
     Place(Taken(req, calendar, s.agreement, PeriodOf[s.day]), d)
       = Place(Moving(req, calendar, s.agreement, PeriodOf[s.day]), s.day)}
Pinning(req, calendar, s) ==
  IF s.day \in HeldDays(s.agreement, PeriodOf[s.day], calendar) THEN [s EXCEPT !.spare = {}]
  ELSE IF Keeping(req, calendar, s) = {} THEN s
  ELSE [s EXCEPT !.day = Max(Keeping(req, calendar, s)), !.spare = {}, !.firm = FALSE]

LEMMA HonouredPins ==
  ASSUME NEW req, NEW calendar, NEW r \in Honoured(req, calendar)
  PROVE  \E s \in req : r = Pinning(req, calendar, s)
BY DEF Honoured, Pinning, Keeping, Moving, Taken, Sought, Place

(* Where the pinning leaves one requirement. *)
LEMMA PinnedWhere ==
  ASSUME NEW ask \in Ask, NEW seen \in Read, NEW s \in Required(ask, seen)
  PROVE  LET req  == Required(ask, seen)
             p    == PeriodOf[s.day]
             r    == Pinning(req, seen.visits, s)
             held == HeldDays(s.agreement, p, seen.visits)
         IN  /\ r.agreement = s.agreement /\ PeriodOf[r.day] = p /\ r.day \in Day
             /\ s.day \in Sought(req, s.agreement, p)
             /\ \/ s.day \in held /\ r.day = s.day /\ r.spare = {}
                \/ s.day \notin held /\ r = s
                \/ s.day \notin held /\ r.day \in Keeping(req, seen.visits, s) /\ r.spare = {}
<1> DEFINE req == Required(ask, seen)
           p == PeriodOf[s.day]
           r == Pinning(req, seen.visits, s)
           held == HeldDays(s.agreement, p, seen.visits)
           keeping == Keeping(req, seen.visits, s)
<1>1. s \in Requirement
  BY RequiredIsRequired DEF IsRequired
<1>2. s.day \in Sought(req, s.agreement, p)
  BY DEF Sought
<1>3. \A d \in keeping : d \in held /\ d \in Day /\ PeriodOf[d] = p
  BY DEF Keeping, Taken, HeldDays, PeriodDays
<1>4. r = IF s.day \in held THEN [s EXCEPT !.spare = {}]
          ELSE IF keeping = {} THEN s
          ELSE [s EXCEPT !.day = Max(keeping), !.spare = {}, !.firm = FALSE]
  BY DEF Pinning
<1> HIDE DEF r, held, keeping, req
<1>5. CASE s.day \in held
  BY <1>1, <1>2, <1>4, <1>5 DEF Requirement, r, held, keeping, req
<1>6. CASE s.day \notin held /\ keeping = {}
  BY <1>1, <1>2, <1>4, <1>6 DEF Requirement, r, held, keeping, req
<1>7. CASE s.day \notin held /\ keeping # {}
  <2>1. Max(keeping) \in keeping
    BY <1>3, <1>7, DaysAreNumbers, MaxIsIn DEF Day
  <2>2. r = [s EXCEPT !.day = Max(keeping), !.spare = {}, !.firm = FALSE]
    BY <1>4, <1>7
  <2>3. r.day = Max(keeping) /\ r.spare = {} /\ r.agreement = s.agreement
    BY <1>1, <2>2 DEF Requirement
  <2>4. QED
    BY <1>2, <1>3, <1>7, <2>1, <2>3 DEF r, held, keeping, req
<1>8. QED
  BY <1>5, <1>6, <1>7

(* The pinning leaves no two of an agreement on a day, and nothing pinned *)
(* free to move.                                                          *)
LEMMA HonouredIsTidy ==
  ASSUME NEW ask \in Ask, NEW seen \in Read, NEW g, g.seen = seen
  PROVE  Tidy(g, Honoured(Required(ask, seen), seen.visits))
<1> DEFINE req == Required(ask, seen)
           honoured == Honoured(req, seen.visits)
           Held(s) == HeldDays(s.agreement, PeriodOf[s.day], seen.visits)
           Pin(s) == Pinning(req, seen.visits, s)
<1>1. honoured \in SUBSET Requirement
  BY HonouredIsRequired DEF IsRequired
<1>2. \A r \in honoured : \E s \in req : r = Pin(s)
  BY HonouredPins
<1>3. \A s \in req :
        /\ Pin(s).agreement = s.agreement /\ PeriodOf[Pin(s).day] = PeriodOf[s.day] /\ Pin(s).day \in Day
        /\ s.day \in Sought(req, s.agreement, PeriodOf[s.day])
        /\ \/ s.day \in Held(s) /\ Pin(s).day = s.day /\ Pin(s).spare = {}
           \/ s.day \notin Held(s) /\ Pin(s) = s
           \/ s.day \notin Held(s) /\ Pin(s).day \in Keeping(req, seen.visits, s) /\ Pin(s).spare = {}
  BY PinnedWhere
<1>4. \A s \in req, t \in req : s.agreement = t.agreement /\ s.day = t.day => s = t
  BY RequiredOnce
<1> HIDE DEF req, honoured, Pin
<1>5. ASSUME NEW r \in honoured, Pinned(g, r) PROVE r.spare = {}
  <2>1. PICK s \in req : r = Pin(s)
    BY <1>2
  <2>2. CASE Pin(s) = s /\ s.day \notin Held(s)
    <3>1. s.day \in Day /\ ~seen.visits[s.agreement][s.day].held
      BY <1>3, <2>2 DEF HeldDays, PeriodDays
    <3>2. QED
      BY <1>5, <2>1, <2>2, <3>1 DEF Pinned
  <2>3. CASE Pin(s).spare = {}
    BY <2>1, <2>3
  <2>4. QED
    BY <1>3, <2>2, <2>3
<1>6. ASSUME NEW r \in honoured, NEW q \in honoured, r.agreement = q.agreement, r.day = q.day PROVE r = q
  <2>1. PICK s \in req : r = Pin(s)
    BY <1>2
  <2>2. PICK t \in req : q = Pin(t)
    BY <1>2
  <2> DEFINE a == s.agreement
             p == PeriodOf[s.day]
             held == HeldDays(a, p, seen.visits)
             sought == Sought(req, a, p)
             moving == Moving(req, seen.visits, a, p)
             taken == Taken(req, seen.visits, a, p)
  <2>3. t.agreement = a /\ PeriodOf[t.day] = p
    BY <1>3, <1>6, <2>1, <2>2
  <2>4. s.day \in sought /\ t.day \in sought
    BY <1>3, <2>3
  <2>5. /\ \A d : d \in Keeping(req, seen.visits, s) => /\ d \in taken
                                                        /\ Place(taken, d) = Place(moving, s.day)
        /\ \A d : d \in Keeping(req, seen.visits, t) => /\ d \in taken
                                                        /\ Place(taken, d) = Place(moving, t.day)
    BY <2>3 DEF Keeping
  <2>6. \A d : /\ d \in taken <=> d \in held /\ d \notin sought
               /\ d \in moving <=> d \in sought /\ d \notin held
    BY DEF Taken, Moving
  <2>7. Held(s) = held /\ Held(t) = held
    BY <2>3
  <2>8. moving \subseteq Nat /\ IsFiniteSet(moving)
    <3>1. sought \subseteq Day
      <4>1. \A u \in req : u.day \in Day
        BY RequiredIsRequired DEF IsRequired, Requirement, req
      <4>2. QED
        BY <4>1 DEF Sought
    <3>2. moving \subseteq Day
      BY <2>6, <3>1
    <3> HIDE DEF moving
    <3>3. QED
      BY <3>2, DaysAreNumbers, FS_Subset
  <2> HIDE DEF held, sought, moving, taken, Held
  <2>9. s.day = t.day
    <3>1. \/ s.day \in held /\ r.day = s.day
          \/ s.day \notin held /\ r.day = s.day
          \/ s.day \notin held /\ r.day \in taken /\ Place(taken, r.day) = Place(moving, s.day)
      BY <1>3, <2>1, <2>5, <2>7
    <3>2. \/ t.day \in held /\ q.day = t.day
          \/ t.day \notin held /\ q.day = t.day
          \/ t.day \notin held /\ q.day \in taken /\ Place(taken, q.day) = Place(moving, t.day)
      BY <1>3, <2>2, <2>5, <2>7
    <3>3. CASE Place(moving, s.day) = Place(moving, t.day) /\ s.day \notin held /\ t.day \notin held
      <4>1. s.day \in moving /\ t.day \in moving
        BY <2>4, <2>6, <3>3
      <4>2. QED
        BY <2>8, <3>3, <4>1, PlaceIsOnes
    <3>4. QED
      BY <1>6, <2>4, <2>6, <3>1, <3>2, <3>3
  <2>10. s = t
    BY <1>4, <2>3, <2>9
  <2>11. QED
    BY <2>1, <2>2, <2>10
<1>7. QED
  BY <1>1, <1>5, <1>6 DEF Tidy, honoured, req

-----------------------------------------------------------------------------
(* The plan.                                                               *)

Partial(T) == UNION {[A -> T] : A \in SUBSET Agreement}
Loads == UNION {[A -> Nat] : A \in SUBSET Day}
Plans == [adds : SUBSET Slot, updates : SUBSET Slot, removals : SUBSET Slot, firm : SUBSET Slot,
          minutes : Partial(Nat \ {0}), opens : Partial(SUBSET Day), load : Loads]

Touched(plan) == plan.adds \cup plan.updates \cup plan.removals

(* A plan touches only what was asked for, in periods the run plans. *)
WithinTheAsk(plan, ask, agreed) ==
  \A s \in Touched(plan) : /\ s \in Slot /\ s \in Window(ask)
                           /\ PeriodOf[s[2]] \in PlannedPeriods(agreed[s[1]], ask)
                           /\ s[1] \in DOMAIN plan.minutes

LEMMA RangeIsOfDays ==
  ASSUME NEW ask \in Ask
  PROVE  /\ InRange(ask) \subseteq Day /\ ask.scope \subseteq Agreement
         /\ Window(ask) \subseteq Slot
<1>1. InRange(ask) \subseteq Day
  BY DaysAreNumbers DEF Ask, InRange, Day
<1>2. ask.scope \subseteq Agreement
  BY DEF Ask
<1>3. QED
  BY <1>1, <1>2 DEF Window, Slot

LEMMA GuardInputIsRead ==
  ASSUME NEW ask \in Ask, NEW seen \in Read, NEW calendar \in Calendar,
         NEW required \in SUBSET Requirement
  PROVE  GuardInput(ask, seen, calendar, required) \in Guards
<1> DEFINE standing == Standing(ask, seen.terms, calendar)
<1>1. InRange(ask) \subseteq Day
  BY RangeIsOfDays
<1>2. standing \in SUBSET Slot
  BY <1>1 DEF Standing, Slot
<1>3. \A r \in required : r.day \in Day /\ r.spare \subseteq Day
  BY DEF Requirement
<1>4. {r.day : r \in required} \subseteq Day
  BY <1>3
<1>5. (UNION {r.spare : r \in required}) \subseteq Day
  BY <1>3
<1>6. {s[2] : s \in standing} \subseteq Day
  <2> HIDE DEF standing
  <2> QED
    BY <1>2 DEF Slot
<1> HIDE DEF standing
<1>7. AskedDays(required, standing) \in SUBSET Day
  BY <1>4, <1>5, <1>6 DEF AskedDays
<1>8. QED
  BY <1>2, <1>7 DEF GuardInput, Guards, standing

LEMMA BuildPlaces ==
  ASSUME NEW ask \in Ask, NEW seen \in Read, NEW calendar \in Calendar
  PROVE  LET required == Honoured(Required(ask, seen), seen.visits)
         IN  /\ required \subseteq Requirement
             /\ Build(ask, seen, calendar).at \in Placings(required)
<1> DEFINE required == Honoured(Required(ask, seen), seen.visits)
           input == GuardInput(ask, seen, calendar, required)
<1>1. required \subseteq Requirement
  BY HonouredIsRequired DEF IsRequired
<1> HIDE DEF required
<1>2. input \in Guards
  BY <1>1, GuardInputIsRead
<1>3. Guarded(input, required) \in Placings(required)
  <2>1. Tidy(input, required)
    BY HonouredIsTidy DEF GuardInput, input, required
  <2> HIDE DEF input
  <2>2. Guarded(input, required) \in Orderly(input, required)
    BY <1>2, <2>1, GuardedSettles
  <2>3. QED
    BY <2>2 DEF Orderly
<1>4. Build(ask, seen, calendar).at = Guarded(input, required)
  BY DEF Build, required
<1>5. QED
  BY <1>1, <1>3, <1>4 DEF required

(* A requirement is planned on a day of a period the run plans. *)
LEMMA PlacedInItsPeriod ==
  ASSUME NEW ask \in Ask, NEW seen \in Read, NEW calendar \in Calendar,
         NEW r \in DOMAIN Build(ask, seen, calendar).at,
         Build(ask, seen, calendar).at[r] \in InRange(ask)
  PROVE  /\ r.agreement \in ask.scope
         /\ <<r.agreement, Build(ask, seen, calendar).at[r]>> \in Window(ask)
         /\ PeriodOf[Build(ask, seen, calendar).at[r]] \in PlannedPeriods(seen.terms[r.agreement], ask)
<1> DEFINE required == Honoured(Required(ask, seen), seen.visits)
           at == Build(ask, seen, calendar).at
<1>1. required \subseteq Requirement /\ at \in Placings(required)
  BY BuildPlaces
<1>2. r \in required /\ IsRequired(r, ask, seen)
  <2>1. r \in required
    <3> HIDE DEF required, at
    <3>1. r \in DOMAIN at
      BY DEF at
    <3>2. QED
      BY <1>1, <3>1 DEF Placings
  <2>2. QED
    BY <2>1, HonouredIsRequired
<1>3. at[r] \in InRange(ask)
  OBVIOUS
<1> HIDE DEF required, at
<1>4. at[r] \in r.spare \cup {r.day}
  <2>1. at[r] # 0
    BY <1>3, RangeIsOfDays, DaysAreNumbers
  <2>2. QED
    BY <1>1, <1>2, <2>1 DEF Placings
<1>5. PeriodOf[at[r]] \in PlannedPeriods(seen.terms[r.agreement], ask)
  BY <1>2, <1>4 DEF IsRequired
<1>6. QED
  BY <1>2, <1>3, <1>5 DEF IsRequired, Window, at

LEMMA JudgedIsWithin ==
  ASSUME NEW ask \in Ask, NEW seen, NEW s \in Judged(ask, seen)
  PROVE  /\ s \in Window(ask) /\ s \in Slot
         /\ PeriodOf[s[2]] \in PlannedPeriods(seen.terms[s[1]], ask)
<1>1. s \in ask.scope \X InRange(ask) /\ Judges(ask, seen.terms, s[1], s[2])
  BY DEF Judged
<1>2. s \in Window(ask)
  BY <1>1 DEF Window
<1>3. s \in Slot
  BY <1>2, RangeIsOfDays
<1>4. QED
  BY <1>1, <1>2, <1>3 DEF Judges

(* Where a set of slots leads: its agreements and its days. *)
LEMMA SlotsLead ==
  ASSUME NEW S \in SUBSET Slot
  PROVE  {s[1] : s \in S} \in SUBSET Agreement /\ {s[2] : s \in S} \in SUBSET Day
  BY DEF Slot

LEMMA PlanOfIsWithin ==
  ASSUME NEW ask \in Ask, NEW seen \in Read, NEW calendar \in Calendar
  PROVE  /\ PlanOf(ask, seen, calendar) \in Plans
         /\ WithinTheAsk(PlanOf(ask, seen, calendar), ask, seen.terms)
<1> DEFINE at == Build(ask, seen, calendar).at
           judged == Judged(ask, seen)
           wanted == {<<r.agreement, at[r]>> : r \in {r \in DOMAIN at : at[r] \in InRange(ask)}}
           open == {s \in judged : ~seen.visits[s[1]][s[2]].held}
           adds == wanted \ judged
           updates == {s \in wanted \cap open :
                         seen.visits[s[1]][s[2]].minutes # seen.terms[s[1]].minutes}
           removals == open \ wanted
           firm == {s \in adds : \E r \in DOMAIN at : r.firm /\ <<r.agreement, at[r]>> = s}
           touched == {s[1] : s \in adds \cup updates \cup removals}
           minutes == [a \in touched |-> seen.terms[a].minutes]
           hours == [a \in touched |-> seen.opens[a]]
           load == [d \in {s[2] : s \in adds} |-> LoadWhenPlanned(seen, calendar, d)]
<1>1. PlanOf(ask, seen, calendar) =
        [adds |-> adds, updates |-> updates, removals |-> removals, firm |-> firm,
         minutes |-> minutes, opens |-> hours, load |-> load]
  BY DEF PlanOf, Difference
<1>2. \A s \in judged : /\ s \in Window(ask) /\ s \in Slot
                        /\ PeriodOf[s[2]] \in PlannedPeriods(seen.terms[s[1]], ask)
  BY JudgedIsWithin
<1>3. \A s \in wanted : /\ s \in Window(ask) /\ s \in Slot
                        /\ PeriodOf[s[2]] \in PlannedPeriods(seen.terms[s[1]], ask)
  <2>1. ASSUME NEW r \in DOMAIN at, at[r] \in InRange(ask)
        PROVE  /\ <<r.agreement, at[r]>> \in Window(ask)
               /\ PeriodOf[at[r]] \in PlannedPeriods(seen.terms[r.agreement], ask)
    BY <2>1, PlacedInItsPeriod
  <2> HIDE DEF at
  <2>2. QED
    BY <2>1, RangeIsOfDays
<1> HIDE DEF at, judged, wanted
<1>4. /\ adds \in SUBSET Slot /\ updates \in SUBSET Slot /\ removals \in SUBSET Slot
      /\ firm \in SUBSET Slot
  BY <1>2, <1>3
<1>5. touched \in SUBSET Agreement /\ {s[2] : s \in adds} \in SUBSET Day
  <2> HIDE DEF adds, updates, removals
  <2> QED
    BY <1>4, SlotsLead
<1> HIDE DEF touched
<1>6. minutes \in Partial(Nat \ {0})
  <2>1. minutes \in [touched -> Nat \ {0}]
    BY <1>5 DEF Read, Terms
  <2>2. QED
    BY <1>5, <2>1 DEF Partial
<1>7. hours \in Partial(SUBSET Day)
  <2>1. hours \in [touched -> SUBSET Day]
    BY <1>5 DEF Read
  <2>2. QED
    BY <1>5, <2>1 DEF Partial
<1>8. load \in Loads
  <2>1. load \in [{s[2] : s \in adds} -> Nat]
    BY <1>5, DayMinutesType DEF LoadWhenPlanned
  <2>2. QED
    BY <1>5, <2>1 DEF Loads
<1>9. PlanOf(ask, seen, calendar) \in Plans
  <2> HIDE DEF adds, updates, removals, firm, minutes, hours, load
  <2> QED
    BY <1>1, <1>4, <1>6, <1>7, <1>8 DEF Plans
<1>10. Touched(PlanOf(ask, seen, calendar)) = adds \cup updates \cup removals
  <2> HIDE DEF adds, updates, removals, firm, minutes, hours, load
  <2> QED
    BY <1>1 DEF Touched
<1>11. WithinTheAsk(PlanOf(ask, seen, calendar), ask, seen.terms)
  <2>1. \A s \in adds \cup updates \cup removals : s \in judged \/ s \in wanted
    OBVIOUS
  <2>2. \A s \in adds \cup updates \cup removals : s[1] \in DOMAIN minutes
    <3> HIDE DEF adds, updates, removals
    <3>1. QED
      BY DEF touched
  <2>3. PlanOf(ask, seen, calendar).minutes = minutes
    <3> HIDE DEF adds, updates, removals, firm, minutes, hours, load
    <3>1. QED
      BY <1>1
  <2> HIDE DEF adds, updates, removals, minutes
  <2>4. QED
    BY <1>2, <1>3, <1>10, <2>1, <2>2, <2>3 DEF WithinTheAsk
<1>12. QED
  BY <1>9, <1>11

-----------------------------------------------------------------------------
(* The room a plan makes for what it adds.                                *)

(* What agreements that keep their crew-minutes weigh, and a calendar of them. *)
CrewMinutes(a) == (CHOOSE t \in TermsOf[a] : TRUE).minutes
Weighed(calendar) ==
  \A a \in Agreement, d \in Day : Exists(calendar[a][d]) => calendar[a][d].minutes = CrewMinutes(a)

\* What a plan's additions and removals of a day come to.
AddedTo(plan, d) == [a \in Agreement |-> IF <<a, d>> \in plan.adds THEN CrewMinutes(a) ELSE 0]
FreedFrom(plan, d) == [a \in Agreement |-> IF <<a, d>> \in plan.removals THEN CrewMinutes(a) ELSE 0]

\* A day a plan adds unbooked work to had room for all it adds.
RoomWasMade(plan) ==
  \A d \in UnbookedDays(plan) : Cap[d] > 0 =>
    /\ d \in DOMAIN plan.load
    /\ plan.load[d] + Sum(AddedTo(plan, d), Agreement) <= Cap[d] + Sum(FreedFrom(plan, d), Agreement)

LEMMA CrewMinutesType ==
  \A a \in Agreement : CrewMinutes(a) \in Nat
<1> TAKE a \in Agreement
<1>1. TermsOf[a] \subseteq Terms /\ TermsOf[a] # {}
  BY GenerationAssumption
<1>2. (CHOOSE t \in TermsOf[a] : TRUE) \in Terms
  BY <1>1
<1>3. QED
  BY <1>2 DEF CrewMinutes, Terms

LEMMA SumGrows ==
  ASSUME NEW S, IsFiniteSet(S), NEW f, NEW g, \A x \in S : f[x] \in Nat /\ g[x] \in Nat /\ f[x] <= g[x]
  PROVE  Sum(f, S) <= Sum(g, S)
<1> DEFINE e == [x \in S |-> x]
<1>1. \A x \in S : e[x] = x
  OBVIOUS
<1> HIDE DEF e
<1>2. \A x \in S : f[x] # 0 => e[x] \in S /\ f[x] <= g[e[x]]
  BY <1>1
<1>3. \A x, y \in S : f[x] # 0 /\ f[y] # 0 /\ e[x] = e[y] => x = y
  BY <1>1
<1>4. QED
  BY <1>2, <1>3, SumDominated

(* The guard keeps the days it adds unbooked work to within their caps; what *)
(* it counts there is no less than what the plan leaves standing and adds.   *)
LEMMA PlanMakesRoom ==
  ASSUME NEW ask \in Ask, NEW seen \in Read, NEW calendar \in Calendar, Weighed(calendar),
         \A a \in ask.scope : calendar[a] = seen.visits[a],
         \A a \in Agreement : seen.terms[a].minutes = CrewMinutes(a)
  PROVE  RoomWasMade(PlanOf(ask, seen, calendar))
<1> DEFINE required == Honoured(Required(ask, seen), seen.visits)
           g == GuardInput(ask, seen, calendar, required)
           at == Guarded(g, required)
           plan == PlanOf(ask, seen, calendar)
           judged == Judged(ask, seen)
           wanted == {<<r.agreement, at[r]>> : r \in {r \in DOMAIN at : at[r] \in InRange(ask)}}
           open == {s \in judged : ~seen.visits[s[1]][s[2]].held}
           adds == wanted \ judged
           firm == {s \in adds : \E r \in DOMAIN at : r.firm /\ <<r.agreement, at[r]>> = s}
<1>1. /\ plan.adds = adds /\ plan.removals = open \ wanted /\ plan.firm = firm
      /\ plan.load = [d \in {s[2] : s \in adds} |-> DayMinutes(calendar, d)]
  <2> DEFINE updates == {s \in wanted \cap open :
                           seen.visits[s[1]][s[2]].minutes # seen.terms[s[1]].minutes}
             removals == open \ wanted
             touched == {s[1] : s \in adds \cup updates \cup removals}
             minutes == [a \in touched |-> seen.terms[a].minutes]
             hours == [a \in touched |-> seen.opens[a]]
             load == [d \in {s[2] : s \in adds} |-> LoadWhenPlanned(seen, calendar, d)]
  <2>1. Build(ask, seen, calendar).at = at
    BY DEF Build
  <2>2. PlanOf(ask, seen, calendar) = Difference(ask, seen, calendar, at, judged)
    <3> HIDE DEF at
    <3> QED
      BY <2>1 DEF PlanOf
  <2>3. Difference(ask, seen, calendar, at, judged) =
          [adds |-> adds, updates |-> updates, removals |-> removals, firm |-> firm,
           minutes |-> minutes, opens |-> hours, load |-> load]
    <3> HIDE DEF at, judged
    <3> QED
      BY DEF Difference
  <2>4. load = [d \in {s[2] : s \in adds} |-> DayMinutes(calendar, d)]
    BY DEF LoadWhenPlanned
  <2> HIDE DEF adds, updates, removals, firm, minutes, hours, load
  <2>5. plan.adds = adds /\ plan.removals = removals /\ plan.firm = firm /\ plan.load = load
    BY <2>2, <2>3
  <2>6. QED
    BY <2>4, <2>5 DEF removals
<1>2. required \in SUBSET Requirement /\ \A r \in required : IsRequired(r, ask, seen)
  BY HonouredIsRequired DEF IsRequired
<1>3. /\ g \in Guards /\ g.seen = seen /\ g.visits = calendar
      /\ g.standing = Standing(ask, seen.terms, calendar)
      /\ g.asked = AskedDays(required, g.standing)
  <2> HIDE DEF required
  <2>1. g \in Guards
    BY <1>2, GuardInputIsRead
  <2>2. QED
    BY <2>1 DEF GuardInput
<1>4. Tidy(g, required)
  <2> HIDE DEF g
  <2> QED
    BY <1>3, HonouredIsTidy
<1>5. at \in Orderly(g, required) /\ \A d \in Day : Settled(g, at, d)
  <2> HIDE DEF g, required
  <2> QED
    BY <1>3, <1>4, GuardedSettles
<1>6. /\ at \in Placings(required) /\ DOMAIN at = required
      /\ \A r \in required : at[r] \in r.spare \cup {r.day, 0}
      /\ \A r \in required : Pinned(g, r) => at[r] = r.day
  <2> HIDE DEF at, g, required
  <2> QED
    BY <1>5 DEF Orderly, Placings
<1>7. InRange(ask) \subseteq Day /\ 0 \notin Day /\ ask.scope \subseteq Agreement /\ IsFiniteSet(Agreement)
  BY RangeIsOfDays, DaysAreNumbers
<1>8. \A s \in wanted : \E r \in required : s = <<r.agreement, at[r]>> /\ at[r] \in InRange(ask)
  BY <1>6
<1>9. \A r \in required : at[r] \in InRange(ask) => <<r.agreement, at[r]>> \in wanted
  BY <1>6
<1>10. \A a, d : <<a, d>> \in judged <=>
         /\ a \in ask.scope /\ d \in InRange(ask) /\ Exists(seen.visits[a][d])
         /\ PeriodOf[d] \in PlannedPeriods(seen.terms[a], ask)
  BY DEF Judged, Judges
<1>11. \A a, d : <<a, d>> \in plan.removals <=>
         <<a, d>> \in judged /\ ~seen.visits[a][d].held /\ <<a, d>> \notin wanted
  BY <1>1
<1>12. \A s : s \in plan.adds <=> s \in wanted /\ s \notin judged
  BY <1>1
<1>13. \A a, d : <<a, d>> \in g.standing <=>
         /\ a \in Agreement /\ d \in InRange(ask) /\ Exists(calendar[a][d])
         /\ \/ calendar[a][d].held
            \/ ~(a \in ask.scope /\ PeriodOf[d] \in PlannedPeriods(seen.terms[a], ask))
  <2> HIDE DEF g
  <2> QED
    BY <1>3 DEF Standing, Judges
<1>14. \A s \in UnbookedDays(plan) : s \in Day
  <2> HIDE DEF plan, at, required
  <2> QED
    BY <1>7, <1>8, <1>12 DEF UnbookedDays
<1>15. \A r \in required : at[r] # 0 =>
         /\ at[r] \in Day /\ r.agreement \in ask.scope
         /\ PeriodOf[at[r]] \in PlannedPeriods(seen.terms[r.agreement], ask)
         /\ at[r] \in g.asked
  <2> HIDE DEF at, g, required
  <2> TAKE r \in required
  <2> HAVE at[r] # 0
  <2>1. at[r] \in r.spare \cup {r.day}
    BY <1>6
  <2>2. r \in Requirement /\ r.spare \subseteq Day /\ r.day \in Day
    BY <1>2 DEF Requirement
  <2>3. /\ r.agreement \in ask.scope
        /\ PeriodOf[r.day] \in PlannedPeriods(seen.terms[r.agreement], ask)
        /\ \A d \in r.spare : PeriodOf[d] = PeriodOf[r.day]
    BY <1>2 DEF IsRequired
  <2>4. at[r] \in AskedDays(required, g.standing)
    BY <2>1 DEF AskedDays
  <2>5. QED
    BY <1>3, <2>1, <2>2, <2>3, <2>4
<1>16. \A d \in UnbookedDays(plan) : \E r \in required : at[r] = d /\ ~r.firm
          /\ <<r.agreement, d>> \in wanted /\ <<r.agreement, d>> \notin judged
  <2> TAKE d \in UnbookedDays(plan)
  <2>1. PICK s \in adds \ firm : s[2] = d
    <3> HIDE DEF adds, firm, plan
    <3> QED
      BY <1>1 DEF UnbookedDays
  <2>2. s \in wanted /\ s \notin judged
    OBVIOUS
  <2>3. PICK r \in required : s = <<r.agreement, at[r]>>
    <3> HIDE DEF wanted, at, required, judged
    <3> QED
      BY <1>8, <2>2
  <2>4. r \in DOMAIN at
    BY <1>6
  <2>5. ~r.firm
    <3> HIDE DEF wanted, at, required, judged
    <3> QED
      BY <2>1, <2>3, <2>4
  <2> HIDE DEF wanted, at, required, judged
  <2>6. QED
    BY <2>1, <2>2, <2>3, <2>5
<1> HIDE DEF required, g, at, plan, judged, wanted, open, adds, firm
<1>17. SUFFICES ASSUME NEW d \in UnbookedDays(plan), Cap[d] > 0
       PROVE  /\ d \in DOMAIN plan.load
              /\ plan.load[d] + Sum(AddedTo(plan, d), Agreement) <= Cap[d] + Sum(FreedFrom(plan, d), Agreement)
  BY DEF RoomWasMade, plan
<1>18. d \in Day
  BY <1>14
<1>19. PICK r \in required : at[r] = d /\ ~r.firm /\ <<r.agreement, d>> \in wanted /\ <<r.agreement, d>> \notin judged
  BY <1>16
<1>20. ~Full(g, at, d)
  <2>1. CapacityOn(g, d) = Cap[d]
    BY <1>7, <1>15, <1>18, <1>19 DEF CapacityOn
  <2>2. ~Pinned(g, r)
    <3>1. SUFFICES ASSUME Pinned(g, r) PROVE FALSE
      OBVIOUS
    <3>2. r.day = d
      BY <1>6, <1>19, <3>1
    <3>3. seen.visits[r.agreement][d].held
      BY <1>3, <3>1, <3>2 DEF Pinned
    <3>4. Exists(seen.visits[r.agreement][d])
      BY <3>3 DEF Exists, NoVisit
    <3>5. d \in InRange(ask)
      <4>1. PICK q \in required : <<r.agreement, d>> = <<q.agreement, at[q]>> /\ at[q] \in InRange(ask)
        BY <1>8, <1>19
      <4>2. QED
        BY <4>1
    <3>6. QED
      BY <1>7, <1>10, <1>15, <1>18, <1>19, <3>4, <3>5
  <2>3. r \in Sheddable(g, at, d)
    BY <1>6, <1>19, <2>2 DEF Sheddable, Pinned
  <2>4. QED
    BY <1>5, <1>17, <1>18, <2>1, <2>3 DEF Settled
<1>21. PlannedMinutes(g, at, d) <= Cap[d]
  <2>1. CapacityOn(g, d) = Cap[d]
    BY <1>7, <1>15, <1>18, <1>19 DEF CapacityOn
  <2>2. PlannedMinutes(g, at, d) \in Nat
    BY <1>2, <1>3, <1>6, PlannedMinutesType
  <2>3. Cap[d] \in Nat
    BY <1>18, PlanningAssumption
  <2>4. QED
    BY <1>20, <2>1, <2>2, <2>3 DEF Full
<1>22. /\ IsFiniteSet(Here(at, d)) /\ Here(at, d) \in SUBSET Requirement
       /\ \A q \in Requirement : Weight(g)[q] \in Nat
       /\ IsFiniteSet(Left(g, required, d)) /\ Left(g, required, d) \in SUBSET Slot
       /\ \A s \in Slot : Stands(g)[s] \in Nat
       /\ PlannedMinutes(g, at, d) = Sum(Weight(g), Here(at, d)) + Sum(Stands(g), Left(g, required, d))
  BY <1>2, <1>3, <1>6, PlannedIsSum
<1> DEFINE v == MinutesOn(calendar, d)
           ad == AddedTo(plan, d)
           fr == FreedFrom(plan, d)
           pr == [a \in Agreement |-> IF \E q \in Here(at, d) : q.agreement = a THEN CrewMinutes(a) ELSE 0]
           pv == [a \in Agreement |-> IF <<a, d>> \in Left(g, required, d) THEN calendar[a][d].minutes ELSE 0]
           before == [a \in Agreement |-> v[a] + ad[a]]
           kept == [a \in Agreement |-> pr[a] + pv[a]]
           after == [a \in Agreement |-> kept[a] + fr[a]]
<1>23. \A a \in Agreement : /\ v[a] \in Nat /\ ad[a] \in Nat /\ fr[a] \in Nat /\ pr[a] \in Nat /\ pv[a] \in Nat
                            /\ before[a] = v[a] + ad[a] /\ kept[a] = pr[a] + pv[a]
                            /\ after[a] = kept[a] + fr[a]
  <2> TAKE a \in Agreement
  <2>1. CrewMinutes(a) \in Nat
    BY CrewMinutesType
  <2>2. v[a] \in Nat /\ v[a] = calendar[a][d].minutes
    BY <1>18, DayMinutesIsSum DEF MinutesOn
  <2>3. QED
    BY <2>1, <2>2 DEF AddedTo, FreedFrom
<1>24. ASSUME NEW a \in Agreement PROVE before[a] <= after[a]
  <2>1. /\ v[a] = calendar[a][d].minutes /\ CrewMinutes(a) \in Nat
        /\ ad[a] = IF <<a, d>> \in plan.adds THEN CrewMinutes(a) ELSE 0
        /\ fr[a] = IF <<a, d>> \in plan.removals THEN CrewMinutes(a) ELSE 0
        /\ pr[a] = IF \E q \in Here(at, d) : q.agreement = a THEN CrewMinutes(a) ELSE 0
        /\ pv[a] = IF <<a, d>> \in Left(g, required, d) THEN calendar[a][d].minutes ELSE 0
    BY CrewMinutesType DEF MinutesOn, AddedTo, FreedFrom
  <2>2. <<a, d>> \in wanted => \E q \in Here(at, d) : q.agreement = a
    <3> SUFFICES ASSUME <<a, d>> \in wanted PROVE \E q \in Here(at, d) : q.agreement = a
      OBVIOUS
    <3>1. PICK q \in required : <<a, d>> = <<q.agreement, at[q]>>
      BY <1>8
    <3>2. q \in Here(at, d) /\ q.agreement = a
      BY <1>6, <3>1 DEF Here
    <3>3. QED
      BY <3>2
  <2>3. ~Exists(calendar[a][d]) => v[a] = 0
    BY <2>1 DEF Exists, NoVisit
  <2>4. Exists(calendar[a][d]) => v[a] = CrewMinutes(a)
    BY <1>18, <2>1 DEF Weighed
  <2>5. CASE <<a, d>> \in plan.adds
    <3>1. <<a, d>> \in wanted /\ <<a, d>> \notin judged
      BY <1>12, <2>5
    <3>2. PICK q \in required : a = q.agreement /\ d = at[q] /\ d \in InRange(ask)
      <4>1. PICK q \in required : <<a, d>> = <<q.agreement, at[q]>> /\ at[q] \in InRange(ask)
        BY <1>8, <3>1
      <4>2. QED
        BY <4>1
    <3>3. a \in ask.scope /\ PeriodOf[d] \in PlannedPeriods(seen.terms[a], ask)
      BY <1>7, <1>15, <1>18, <3>2
    <3>4. ~Exists(seen.visits[a][d])
      BY <1>10, <3>1, <3>2, <3>3
    <3>5. v[a] = 0
      BY <2>3, <3>3, <3>4
    <3>6. QED
      BY <1>23, <2>1, <2>2, <2>5, <3>1, <3>5
  <2>6. CASE <<a, d>> \notin plan.adds
    <3>1. ad[a] = 0
      BY <2>1, <2>6
    <3>2. CASE ~Exists(calendar[a][d])
      BY <1>23, <2>3, <3>1, <3>2
    <3>3. CASE <<a, d>> \in plan.removals
      <4>1. fr[a] = CrewMinutes(a)
        BY <2>1, <3>3
      <4> HIDE DEF v, ad, fr, pr, pv, before, kept, after
      <4>2. v[a] <= CrewMinutes(a)
        BY <1>23, <2>1, <2>3, <2>4
      <4>3. QED
        BY <1>23, <2>1, <3>1, <4>1, <4>2
    <3>4. CASE <<a, d>> \in wanted
      <4>1. pr[a] = CrewMinutes(a)
        BY <2>1, <2>2, <3>4
      <4> HIDE DEF v, ad, fr, pr, pv, before, kept, after
      <4>2. v[a] <= CrewMinutes(a)
        BY <1>23, <2>1, <2>3, <2>4
      <4>3. QED
        BY <1>23, <2>1, <3>1, <4>1, <4>2
    <3>5. CASE Exists(calendar[a][d]) /\ <<a, d>> \notin plan.removals /\ <<a, d>> \notin wanted
      <4>1. CASE d \in InRange(ask)
        <5>1. <<a, d>> \in g.standing
          <6>1. SUFFICES ASSUME ~calendar[a][d].held, a \in ask.scope,
                                PeriodOf[d] \in PlannedPeriods(seen.terms[a], ask)
                PROVE  FALSE
            BY <1>13, <3>5, <4>1
          <6>2. calendar[a] = seen.visits[a]
            BY <6>1
          <6>3. <<a, d>> \in judged
            BY <1>10, <3>5, <4>1, <6>1, <6>2
          <6>4. QED
            BY <1>11, <3>5, <6>1, <6>2, <6>3
        <5>2. ASSUME NEW q \in required, q.agreement = a, q.day = d PROVE FALSE
          <6>1. a \in ask.scope /\ PeriodOf[d] \in PlannedPeriods(seen.terms[a], ask)
            BY <1>2, <5>2 DEF IsRequired
          <6>2. calendar[a][d].held /\ calendar[a] = seen.visits[a]
            BY <1>13, <5>1, <6>1
          <6>3. Pinned(g, q)
            BY <1>3, <5>2, <6>2 DEF Pinned
          <6>4. at[q] = d
            BY <1>6, <5>2, <6>3
          <6>5. QED
            BY <1>9, <3>5, <4>1, <5>2, <6>4
        <5>3. <<a, d>> \in Left(g, required, d)
          BY <5>1, <5>2 DEF Left
        <5>4. pv[a] = v[a]
          BY <2>1, <5>3
        <5>5. QED
          BY <1>23, <3>1, <5>4
      <4>2. CASE d \notin InRange(ask)
        <5>1. d \in InRange(ask)
          <6>1. PICK q \in required : <<r.agreement, d>> = <<q.agreement, at[q]>> /\ at[q] \in InRange(ask)
            BY <1>8, <1>19
          <6>2. QED
            BY <6>1
        <5>2. QED
          BY <4>2, <5>1
      <4>3. QED
        BY <4>1, <4>2
    <3>6. QED
      BY <3>2, <3>3, <3>4, <3>5
  <2>7. QED
    BY <2>5, <2>6
<1>25. Sum(pr, Agreement) <= Sum(Weight(g), Here(at, d))
  <2> DEFINE e == [a \in Agreement |-> CHOOSE q \in Here(at, d) : q.agreement = a]
  <2>1. ASSUME NEW a \in Agreement, pr[a] # 0
        PROVE  e[a] \in Here(at, d) /\ e[a].agreement = a /\ pr[a] = CrewMinutes(a)
    <3>1. \E q \in Here(at, d) : q.agreement = a
      BY <2>1
    <3>2. QED
      BY <2>1, <3>1
  <2>2. ASSUME NEW a \in Agreement, pr[a] # 0 PROVE pr[a] <= Weight(g)[e[a]]
    <3>1. e[a] \in Here(at, d) /\ e[a].agreement = a /\ pr[a] = CrewMinutes(a)
      BY <2>1, <2>2
    <3> HIDE DEF e, pr
    <3>2. Weight(g)[e[a]] = CrewMinutes(a)
      BY <1>3, <1>22, <3>1 DEF Weight
    <3>3. QED
      BY <3>1, <3>2, CrewMinutesType
  <2> HIDE DEF e, pr
  <2>3. \A x, y \in Agreement : pr[x] # 0 /\ pr[y] # 0 /\ e[x] = e[y] => x = y
    BY <2>1
  <2>4. \A x \in Agreement : pr[x] # 0 => e[x] \in Here(at, d) /\ pr[x] <= Weight(g)[e[x]]
    BY <2>1, <2>2
  <2>5. \A x \in Agreement : pr[x] \in Nat
    BY <1>23
  <2>6. \A y \in Here(at, d) : Weight(g)[y] \in Nat
    BY <1>22
  <2>7. QED
    BY <1>7, <1>22, <2>3, <2>4, <2>5, <2>6, SumDominated
<1>26. Sum(pv, Agreement) <= Sum(Stands(g), Left(g, required, d))
  <2> DEFINE e == [a \in Agreement |-> <<a, d>>]
             h == Stands(g)
             T == Left(g, required, d)
  <2>1. \A a \in Agreement : pv[a] = IF e[a] \in T THEN calendar[a][d].minutes ELSE 0
    OBVIOUS
  <2>2. \A a \in Agreement : e[a] = <<a, d>> /\ h[e[a]] = calendar[a][d].minutes
    BY <1>3, <1>18 DEF Stands, Slot
  <2>3. \A x \in Agreement : pv[x] \in Nat
    BY <1>23
  <2> HIDE DEF pv, h, T, e
  <2>4. \A x, y \in Agreement : pv[x] # 0 /\ pv[y] # 0 /\ e[x] = e[y] => x = y
    BY <2>2
  <2>5. \A x \in Agreement : pv[x] # 0 => e[x] \in T /\ pv[x] <= h[e[x]]
    BY <2>1, <2>2, <2>3
  <2>6. IsFiniteSet(T) /\ \A y \in T : h[y] \in Nat
    BY <1>22 DEF T, h
  <2>7. Sum(pv, Agreement) <= Sum(h, T)
    BY <1>7, <2>3, <2>4, <2>5, <2>6, SumDominated
  <2>8. QED
    BY <2>7 DEF T, h
<1>27. DayMinutes(calendar, d) = Sum(v, Agreement)
  BY <1>18, DayMinutesIsSum
<1> HIDE DEF v, ad, fr, pr, pv, before, kept, after
<1>28. Sum(before, Agreement) = Sum(v, Agreement) + Sum(ad, Agreement)
  BY <1>7, <1>23, SumAdds
<1>29. Sum(kept, Agreement) = Sum(pr, Agreement) + Sum(pv, Agreement)
  BY <1>7, <1>23, SumAdds
<1>30. Sum(after, Agreement) = Sum(kept, Agreement) + Sum(fr, Agreement)
  <2>1. \A a \in Agreement : kept[a] \in Nat /\ fr[a] \in Nat /\ after[a] = kept[a] + fr[a]
    BY <1>23
  <2>2. QED
    BY <1>7, <2>1, SumAdds
<1>31. Sum(before, Agreement) <= Sum(after, Agreement)
  <2>1. \A a \in Agreement : before[a] \in Nat /\ after[a] \in Nat
    BY <1>23
  <2>2. QED
    BY <1>7, <1>24, <2>1, SumGrows
<1>32. /\ Sum(v, Agreement) \in Nat /\ Sum(ad, Agreement) \in Nat /\ Sum(fr, Agreement) \in Nat
       /\ Sum(pr, Agreement) \in Nat /\ Sum(pv, Agreement) \in Nat
  <2>1. \A a \in Agreement : v[a] \in Nat /\ ad[a] \in Nat /\ fr[a] \in Nat /\ pr[a] \in Nat /\ pv[a] \in Nat
    BY <1>23
  <2>2. QED
    BY <1>7, <2>1, SumType
<1>33. Sum(Weight(g), Here(at, d)) \in Nat /\ Sum(Stands(g), Left(g, required, d)) \in Nat
  BY <1>22, SumType
<1>34. Sum(v, Agreement) + Sum(ad, Agreement) <= Cap[d] + Sum(fr, Agreement)
  <2>1. Cap[d] \in Nat
    BY <1>18, PlanningAssumption
  <2>2. QED
    BY <1>21, <1>22, <1>25, <1>26, <1>28, <1>29, <1>30, <1>31, <1>32, <1>33, <2>1
<1>35. d \in DOMAIN plan.load /\ plan.load[d] = DayMinutes(calendar, d)
  <2>1. <<r.agreement, d>> \in adds
    BY <1>19 DEF adds
  <2>2. d \in {s[2] : s \in adds}
    BY <2>1
  <2>3. QED
    BY <1>1, <2>2
<1>36. QED
  BY <1>27, <1>34, <1>35 DEF ad, fr

-----------------------------------------------------------------------------
(* Types.                                                                  *)

Move == [ask : Ask, moved : Nat]
Kinds == {"none", "confirm", "sweep", "repair"}
Stages == {"idle", "claim", "read", "plan", "apply", "record", "fail", "complete"}
Keys == {{}} \cup {{k} : k \in Key}

Job == [kind : Kinds, stage : Stages, todo : Seq(Ask), key : Keys, done : Seq(Move),
        seen : Read \cup {Unread}, plan : Plans, steady : BOOLEAN, stale : SUBSET Slot]
Batch == [status : {"NONE", "IN_PROGRESS", "COMPLETED", "FAILED"}, recorded : Seq(Move)]
Reviewed == [moves : Seq(Move), intact : BOOLEAN]

Promised(t) == \A a \in Agreement : t[a] \in TermsOf[a]

(* Every agreement's terms, read or in force, are terms somebody agreed to; *)
(* every value has its type.                                                *)
TypeOK ==
  /\ terms \in [Agreement -> Terms] /\ Promised(terms)
  /\ opens \in [Agreement -> SUBSET Day]
  /\ visits \in Calendar
  /\ jobs \in [Process -> Job]
  /\ reviewed \in [Key -> Reviewed]
  /\ batches \in [Key -> Batch]
  /\ landed \in [Key -> Seq(Move)]
  /\ budget \in [jobs : Nat, hand : Nat, edits : Nat]

(* What a run may write, by the ask it was given. *)
MayWrite(s, ask) ==
  /\ s \in Window(ask)
  /\ \/ PeriodDays(PeriodOf[s[2]]) \subseteq InRange(ask)
     \/ \E t \in TermsOf[s[1]] : BookedIn(t, PeriodOf[s[2]], ask) # {}

(* What a job carries, by its stage. *)
JobShape(j) ==
  /\ j.stage \in {"claim", "read", "plan", "apply", "record"} => j.todo # <<>>
  /\ j.stage = "plan" => j.seen \in Read /\ Promised(j.seen.terms)
  /\ j.stage = "apply" => \A s \in Touched(j.plan) : /\ MayWrite(s, j.todo[1])
                                                     /\ s[1] \in DOMAIN j.plan.minutes
  /\ j.stage \in {"claim", "record", "fail", "complete"} => j.kind = "repair"
  /\ j.kind = "repair" <=> j.key # {}
  /\ j.stage = "idle" => j.kind = "none"
  /\ j.stage = "claim" => j.done = <<>>

TypeInv ==
  /\ TypeOK
  /\ \A p \in Process : JobShape(jobs[p])
  /\ \A k \in Key : reviewed[k].intact => reviewed[k].moves # <<>>

(* What the ledger under a key says of what landed, whoever works under it. *)
KeyHolds(k) ==
  /\ batches[k].status = "NONE" => batches[k] = NoBatch
  /\ batches[k].status # "IN_PROGRESS" => Working(k) = {} /\ MovesLanded(k) = batches[k].recorded
  /\ \/ MovesLanded(k) = batches[k].recorded
     \/ \E e \in Move : MovesLanded(k) = Append(batches[k].recorded, e)
  /\ \A p \in Working(k) : /\ MovesLanded(k) = jobs[p].done
                           /\ jobs[p].stage # "record" => jobs[p].done = batches[k].recorded
  /\ \A p, q \in Working(k) : p = q

LedgerInv == TypeInv /\ \A k \in Key : KeyHolds(k)

LEMMA NothingPlanned ==
  /\ NoPlan \in Plans /\ Touched(NoPlan) = {}
  /\ Idle \in Job /\ JobShape(Idle)
<1>1. <<>> \in [{} -> Nat] /\ <<>> \in [{} -> Nat \ {0}] /\ <<>> \in [{} -> SUBSET Day]
  OBVIOUS
<1>2. {} \in SUBSET Agreement /\ {} \in SUBSET Day
  OBVIOUS
<1>3. <<>> \in Partial(Nat \ {0}) /\ <<>> \in Partial(SUBSET Day) /\ <<>> \in Loads
  BY <1>1, <1>2 DEF Partial, Loads
<1>4. NoPlan \in Plans
  BY <1>3 DEF NoPlan, Plans
<1>5. Touched(NoPlan) = {}
  BY DEF NoPlan, Touched
<1>6. <<>> \in Seq(Ask) /\ <<>> \in Seq(Move)
  OBVIOUS
<1>7. Idle \in Job
  BY <1>4, <1>6 DEF Idle, Job, Kinds, Stages, Keys
<1>8. JobShape(Idle)
  BY DEF JobShape, Idle
<1>9. QED
  BY <1>4, <1>5, <1>7, <1>8

LEMMA LastVisitIsADay ==
  ASSUME NEW a
  PROVE  LastVisit(a) \in Nat /\ LastVisit(a) <= LastDay /\ (LastVisit(a) > 0 => LastVisit(a) \in Day)
<1> DEFINE S == {0} \cup {d \in Day : Exists(visits[a][d])}
<1>1. S \in SUBSET (0..LastDay) /\ S # {}
  BY DaysAreNumbers DEF Day
<1>2. Max(S) \in S
  <2> HIDE DEF S
  <2> QED
    BY <1>1, DaysAreNumbers, GreatestOf
<1>3. LastVisit(a) = Max(S)
  BY DEF LastVisit
<1>4. LastVisit(a) \in 0..LastDay
  BY <1>1, <1>2, <1>3
<1>5. QED
  BY <1>4, DaysAreNumbers DEF Day

(* What a sweep confirms. *)
LEMMA SweepAsksType ==
  SweepAsks \in Seq(Ask)
<1> DEFINE X == Seq(Ask)
           Turn(acc, a) ==
             IF LastVisit(a) >= LastDay THEN acc
             ELSE Append(acc, [scope |-> {a}, from |-> LastVisit(a) + 1, to |-> LastDay])
           seq == [a \in Agreement |-> a]
           Whole(i) == [s \in SUBSET DOMAIN seq |-> IF s = {} THEN <<>>
                          ELSE LET x == Max(s) IN Turn(i[s \ {x}], seq[x])]
           fold == CHOOSE i : i = Whole(i)
           step == [x \in X \X (1..LastAgreement) |-> Turn(x[1], x[2])]
<1>0. <<>> \in X
  OBVIOUS
<1>1. SweepAsks = fold[DOMAIN seq]
  BY DEF SweepAsks, FoldLeft, MapThenFoldSet
<1>2. DOMAIN seq = 1..LastAgreement /\ LastAgreement \in Nat /\ \A x \in 1..LastAgreement : seq[x] = x
  BY DaysAreNumbers DEF Agreement
<1>3. ASSUME NEW acc \in X, NEW a \in 1..LastAgreement PROVE Turn(acc, a) \in X
  <2>1. CASE LastVisit(a) >= LastDay
    BY <2>1
  <2>2. CASE ~(LastVisit(a) >= LastDay)
    <3>1. LastVisit(a) + 1 \in Day /\ LastDay \in Day
      BY <2>2, LastVisitIsADay, DaysAreNumbers DEF Day
    <3>2. [scope |-> {a}, from |-> LastVisit(a) + 1, to |-> LastDay] \in Ask
      BY <3>1 DEF Ask, Agreement
    <3>3. QED
      BY <2>2, <3>2
  <2>3. QED
    BY <2>1, <2>2
<1> HIDE DEF X, Turn, seq
<1>4. step \in [X \X (1..LastAgreement) -> X]
  BY <1>3
<1>5. PICK i \in [SUBSET (1..LastAgreement) -> X] : FoldsBy(i, LastAgreement, <<>>, step)
  <2> HIDE DEF step
  <2> QED
    BY <1>0, <1>2, <1>4, FoldExists
<1>6. i = Whole(i)
  <2>1. ASSUME NEW s \in SUBSET (1..LastAgreement), s # {}
        PROVE  i[s] = Turn(i[s \ {Max(s)}], seq[Max(s)])
    <3>1. Max(s) \in 1..LastAgreement
      BY <1>2, <2>1, MaxIsIn
    <3>2. i[s] = step[<<i[s \ {Max(s)}], Max(s)>>] /\ i[s \ {Max(s)}] \in X
      BY <1>5, <2>1 DEF FoldsBy
    <3>3. QED
      BY <1>2, <3>1, <3>2
  <2>2. QED
    BY <1>2, <1>5, <2>1 DEF FoldsBy
<1>7. fold = Whole(fold)
  <2> HIDE DEF Whole
  <2> QED
    BY <1>6
<1> HIDE DEF fold
<1>8. fold[{}] \in X
  BY <1>0, <1>7
<1>9. ASSUME NEW s \in SUBSET (1..LastAgreement), s # {}, fold[s \ {Max(s)}] \in X
      PROVE  fold[s] \in X
  <2>1. fold[s] = Turn(fold[s \ {Max(s)}], seq[Max(s)]) /\ Max(s) \in 1..LastAgreement
    BY <1>2, <1>7, <1>9, MaxIsIn
  <2>2. QED
    BY <1>2, <1>3, <1>9, <2>1
<1>10. fold[1..LastAgreement] \in X
  BY <1>2, <1>8, <1>9, FoldKeeps
<1>11. QED
  BY <1>1, <1>2, <1>10 DEF X

LEMMA OwnAskIsAnAsk ==
  ASSUME NEW a \in Agreement, LastVisit(a) > 0
  PROVE  OwnAsk(a) \in Ask
<1> DEFINE d == LastVisit(a)
<1>1. d \in Day
  BY LastVisitIsADay
<1> HIDE DEF d
<1>2. PeriodDays(PeriodOf[d]) \in SUBSET (0..LastDay) /\ PeriodDays(PeriodOf[d]) # {}
  BY <1>1, DaysAreNumbers DEF PeriodDays, Day
<1>3. PeriodLast(d) \in Day
  BY <1>2, DaysAreNumbers, GreatestOf DEF PeriodLast, PeriodDays
<1>4. 1 \in Day
  BY <1>1, DaysAreNumbers DEF Day
<1>5. QED
  BY <1>3, <1>4 DEF OwnAsk, Ask, d

LEMMA MovedIsANumber ==
  ASSUME NEW plan \in Plans
  PROVE  Moved(plan) \in Nat
<1>1. Cardinality(plan.adds) \in Nat /\ Cardinality(plan.removals) \in Nat
  <2>1. plan.adds \in SUBSET Slot /\ plan.removals \in SUBSET Slot
    BY DEF Plans
  <2>2. QED
    BY <2>1, DaysAreNumbers, FS_Subset, FS_CardinalityType
<1>2. QED
  BY <1>1 DEF Moved, Lesser

LEMMA SlotsAreCounted ==
  ASSUME NEW S \in SUBSET Slot
  PROVE  Cardinality(S) \in Nat
BY DaysAreNumbers, FS_Subset, FS_CardinalityType

LEMMA ChangeIsAMove ==
  ASSUME NEW ask \in Ask, NEW after
  PROVE  Change(ask, after) \in Move
<1>1. Cardinality(Came(after)) \in Nat /\ Cardinality(Gone(after)) \in Nat
  BY SlotsAreCounted DEF Came, Gone
<1>2. QED
  BY <1>1 DEF Change, Lesser, Move

LEMMA NowIsRead ==
  ASSUME TypeOK
  PROVE  Now \in Read
  BY DEF TypeOK, Now, Read

(* What a bunching repair proposes. *)
LEMMA BunchingMovesType ==
  ASSUME TypeOK
  PROVE  BunchingMoves \in Seq(Move)
<1> DEFINE X == Seq(Move)
           Changes(plan) == plan.adds # {} \/ plan.removals # {}
           previews == [a \in {a \in Agreement : LastVisit(a) > 0} |-> PlanOf(OwnAsk(a), Now, visits)]
           Turn(acc, a) ==
             IF a \in DOMAIN previews /\ Changes(previews[a])
             THEN Append(acc, [ask |-> OwnAsk(a), moved |-> Moved(previews[a])]) ELSE acc
           seq == [a \in Agreement |-> a]
           Whole(i) == [s \in SUBSET DOMAIN seq |-> IF s = {} THEN <<>>
                          ELSE LET x == Max(s) IN Turn(i[s \ {x}], seq[x])]
           fold == CHOOSE i : i = Whole(i)
           step == [x \in X \X (1..LastAgreement) |-> Turn(x[1], x[2])]
<1>0. <<>> \in X
  OBVIOUS
<1>1. BunchingMoves = fold[DOMAIN seq]
  BY DEF BunchingMoves, FoldLeft, MapThenFoldSet
<1>2. DOMAIN seq = 1..LastAgreement /\ LastAgreement \in Nat /\ \A x \in 1..LastAgreement : seq[x] = x
  BY DaysAreNumbers DEF Agreement
<1>3. ASSUME NEW acc \in X, NEW a \in 1..LastAgreement PROVE Turn(acc, a) \in X
  <2>1. CASE a \in DOMAIN previews /\ Changes(previews[a])
    <3>1. a \in Agreement /\ LastVisit(a) > 0
      BY <2>1
    <3>2. OwnAsk(a) \in Ask
      BY <3>1, OwnAskIsAnAsk
    <3>3. previews[a] = PlanOf(OwnAsk(a), Now, visits)
      BY <3>1
    <3>4. previews[a] \in Plans
      BY <3>2, <3>3, NowIsRead, PlanOfIsWithin DEF TypeOK
    <3>5. [ask |-> OwnAsk(a), moved |-> Moved(previews[a])] \in Move
      <4> HIDE DEF previews
      <4> QED
        BY <3>2, <3>4, MovedIsANumber DEF Move
    <3> HIDE DEF previews, Changes
    <3>6. QED
      BY <2>1, <3>5
  <2>2. CASE ~(a \in DOMAIN previews /\ Changes(previews[a]))
    BY <2>2
  <2>3. QED
    BY <2>1, <2>2
<1> HIDE DEF X, Turn, seq
<1>4. step \in [X \X (1..LastAgreement) -> X]
  BY <1>3
<1>5. PICK i \in [SUBSET (1..LastAgreement) -> X] : FoldsBy(i, LastAgreement, <<>>, step)
  <2> HIDE DEF step
  <2> QED
    BY <1>0, <1>2, <1>4, FoldExists
<1>6. i = Whole(i)
  <2>1. ASSUME NEW s \in SUBSET (1..LastAgreement), s # {}
        PROVE  i[s] = Turn(i[s \ {Max(s)}], seq[Max(s)])
    <3>1. Max(s) \in 1..LastAgreement
      BY <1>2, <2>1, MaxIsIn
    <3>2. i[s] = step[<<i[s \ {Max(s)}], Max(s)>>] /\ i[s \ {Max(s)}] \in X
      BY <1>5, <2>1 DEF FoldsBy
    <3>3. QED
      BY <1>2, <3>1, <3>2
  <2>2. QED
    BY <1>2, <1>5, <2>1 DEF FoldsBy
<1>7. fold = Whole(fold)
  <2> HIDE DEF Whole
  <2> QED
    BY <1>6
<1> HIDE DEF fold
<1>8. fold[{}] \in X
  BY <1>0, <1>7
<1>9. ASSUME NEW s \in SUBSET (1..LastAgreement), s # {}, fold[s \ {Max(s)}] \in X
      PROVE  fold[s] \in X
  <2>1. fold[s] = Turn(fold[s \ {Max(s)}], seq[Max(s)]) /\ Max(s) \in 1..LastAgreement
    BY <1>2, <1>7, <1>9, MaxIsIn
  <2>2. QED
    BY <1>2, <1>3, <1>9, <2>1
<1>10. fold[1..LastAgreement] \in X
  BY <1>2, <1>8, <1>9, FoldKeeps
<1>11. QED
  BY <1>1, <1>2, <1>10 DEF X

-----------------------------------------------------------------------------
(* The type invariant.                                                     *)

(* What a step writes makes nothing of another job but stale rows. *)
LEMMA StaledKeeps ==
  ASSUME TypeInv, NEW slots
  PROVE  /\ Staled(slots) \in [Process -> Job]
         /\ \A p \in Process : /\ JobShape(Staled(slots)[p])
                               /\ Staled(slots)[p].stage = jobs[p].stage
                               /\ Staled(slots)[p].kind = jobs[p].kind
                               /\ Staled(slots)[p].key = jobs[p].key
                               /\ Staled(slots)[p].done = jobs[p].done
                               /\ Staled(slots)[p].todo = jobs[p].todo
                               /\ Staled(slots)[p].plan = jobs[p].plan
                               /\ Staled(slots)[p].steady = jobs[p].steady
<1> SUFFICES ASSUME NEW p \in Process
             PROVE  LET j == Staled(slots)[p]
                    IN  /\ j \in Job /\ JobShape(j)
                        /\ j.stage = jobs[p].stage /\ j.kind = jobs[p].kind
                        /\ j.key = jobs[p].key /\ j.done = jobs[p].done
                        /\ j.todo = jobs[p].todo /\ j.plan = jobs[p].plan
                        /\ j.steady = jobs[p].steady
  BY DEF Staled
<1> DEFINE j == Staled(slots)[p]
<1>1. j = WithStale(jobs[p], slots) /\ jobs[p] \in Job /\ JobShape(jobs[p])
  BY DEF Staled, TypeInv, TypeOK
<1>2. \E stale \in SUBSET Slot : j = [jobs[p] EXCEPT !.stale = stale]
  <2>1. CASE jobs[p].stage = "plan"
    <3> DEFINE new == jobs[p].stale \cup (slots \cap (jobs[p].todo[1].scope \X Day))
    <3>1. jobs[p].todo[1] \in Ask
      BY <1>1, <2>1 DEF JobShape, Job
    <3>2. new \in SUBSET Slot
      BY <1>1, <3>1 DEF Job, Ask, Slot
    <3>3. j = [jobs[p] EXCEPT !.stale = new]
      BY <1>1, <2>1 DEF WithStale
    <3>4. QED
      BY <3>2, <3>3
  <2>2. CASE jobs[p].stage = "apply"
    <3> DEFINE new == jobs[p].stale \cup (slots \cap (jobs[p].plan.updates \cup jobs[p].plan.removals))
    <3>1. new \in SUBSET Slot
      BY <1>1 DEF Job, Plans
    <3>2. j = [jobs[p] EXCEPT !.stale = new]
      BY <1>1, <2>2 DEF WithStale
    <3>3. QED
      BY <3>1, <3>2
  <2>3. CASE jobs[p].stage \notin {"plan", "apply"}
    <3>1. j = jobs[p]
      BY <1>1, <2>3 DEF WithStale
    <3>2. j = [jobs[p] EXCEPT !.stale = jobs[p].stale]
      BY <1>1, <3>1 DEF Job
    <3>3. QED
      BY <1>1, <3>2 DEF Job
  <2>4. QED
    BY <2>1, <2>2, <2>3
<1>3. PICK stale \in SUBSET Slot : j = [jobs[p] EXCEPT !.stale = stale]
  BY <1>2
<1> HIDE DEF j
<1>4. /\ j \in Job
      /\ j.stage = jobs[p].stage /\ j.kind = jobs[p].kind
      /\ j.key = jobs[p].key /\ j.done = jobs[p].done
      /\ j.todo = jobs[p].todo /\ j.plan = jobs[p].plan /\ j.seen = jobs[p].seen
      /\ j.steady = jobs[p].steady
  BY <1>1, <1>3 DEF Job
<1>5. JobShape(j)
  BY <1>1, <1>4 DEF JobShape
<1>6. QED
  BY <1>4, <1>5 DEF j

LEMMA ReviseKeeps ==
  ASSUME TypeInv, NEW slots, Revise(slots)
  PROVE  /\ reviewed' \in [Key -> Reviewed]
         /\ \A k \in Key : reviewed'[k].intact => reviewed'[k].moves # <<>>
<1> SUFFICES ASSUME NEW k \in Key
             PROVE  /\ reviewed'[k] \in Reviewed
                    /\ reviewed'[k].intact => reviewed'[k].moves # <<>>
  BY DEF Revise
<1>1. PICK b \in BOOLEAN : reviewed'[k] = [reviewed[k] EXCEPT !.intact = reviewed[k].intact /\ b]
  BY DEF Revise
<1>2. reviewed[k] \in Reviewed /\ (reviewed[k].intact => reviewed[k].moves # <<>>)
  BY DEF TypeInv, TypeOK
<1>3. QED
  BY <1>1, <1>2 DEF Reviewed

(* One job moves on. *)
LEMMA StepKeeps ==
  ASSUME TypeInv, NEW p \in Process, NEW j \in Job, JobShape(j), jobs' = [jobs EXCEPT ![p] = j]
  PROVE  jobs' \in [Process -> Job] /\ \A q \in Process : JobShape(jobs'[q])
  BY DEF TypeInv, TypeOK

LEMMA FollowingKeeps ==
  ASSUME NEW j \in Job, JobShape(j), j.todo # <<>>, j.stage \in {"apply", "record"}
  PROVE  /\ Following(j) \in Job /\ JobShape(Following(j))
         /\ j.kind = "repair" => /\ Following(j).stage \in {"read", "complete"}
                                 /\ Following(j).key = j.key /\ Following(j).done = j.done
         /\ j.kind # "repair" => Following(j).key = {}
<1> DEFINE rest == [j EXCEPT !.todo = Tail(@), !.plan = NoPlan, !.steady = FALSE, !.stale = {}]
<1>1. Tail(j.todo) \in Seq(Ask)
  BY DEF Job
<1>2. /\ rest \in Job /\ rest.kind = j.kind /\ rest.key = j.key /\ rest.done = j.done
      /\ rest.plan = NoPlan
  <2> HIDE DEF NoPlan
  <2> QED
    BY <1>1, NothingPlanned DEF Job
<1> HIDE DEF rest
<1>3. CASE rest.todo # <<>>
  <2> DEFINE next == [rest EXCEPT !.stage = "read"]
  <2>1. Following(j) = next
    BY <1>3 DEF Following, rest
  <2>2. /\ next \in Job /\ next.stage = "read" /\ next.kind = j.kind /\ next.key = j.key
        /\ next.done = j.done /\ next.todo # <<>>
    BY <1>2, <1>3 DEF Job, Stages
  <2> HIDE DEF next
  <2>3. JobShape(next)
    BY <2>2 DEF JobShape
  <2>4. QED
    BY <2>1, <2>2, <2>3 DEF JobShape
<1>4. CASE rest.todo = <<>> /\ j.kind = "repair"
  <2> DEFINE next == [rest EXCEPT !.stage = "complete"]
  <2>1. Following(j) = next
    BY <1>4 DEF Following, rest
  <2>2. /\ next \in Job /\ next.stage = "complete" /\ next.kind = j.kind /\ next.key = j.key
        /\ next.done = j.done
    BY <1>2 DEF Job, Stages
  <2> HIDE DEF next
  <2>3. JobShape(next)
    BY <1>4, <2>2 DEF JobShape
  <2>4. QED
    BY <1>4, <2>1, <2>2, <2>3
<1>5. CASE rest.todo = <<>> /\ j.kind # "repair"
  <2>1. Following(j) = Idle
    BY <1>5 DEF Following, rest
  <2>2. Idle.key = {}
    BY DEF Idle
  <2>3. QED
    BY <1>5, <2>1, <2>2, NothingPlanned
<1>6. QED
  BY <1>3, <1>4, <1>5

LEMMA InitTypes ==
  ASSUME Init
  PROVE  TypeInv
<1>1. PICK s \in Starts : terms = s.terms /\ opens = s.opens /\ visits = s.visits
  BY DEF Init
<1>2. terms \in [Agreement -> Terms] /\ Promised(terms)
  <2>1. \A a \in Agreement : terms[a] \in TermsOf[a]
    BY <1>1, GenerationAssumption
  <2>2. terms \in [Agreement -> Terms]
    BY <1>1, GenerationAssumption
  <2>3. QED
    BY <2>1, <2>2 DEF Promised
<1>3. opens \in [Agreement -> SUBSET Day] /\ visits \in Calendar
  BY <1>1, GenerationAssumption DEF Calendar
<1>4. jobs \in [Process -> Job] /\ \A p \in Process : JobShape(jobs[p])
  BY NothingPlanned DEF Init
<1>5. <<>> \in Seq(Move)
  OBVIOUS
<1>6. /\ reviewed \in [Key -> Reviewed] /\ \A k \in Key : ~reviewed[k].intact
      /\ batches \in [Key -> Batch] /\ landed \in [Key -> Seq(Move)]
  BY <1>5 DEF Init, NoReview, Reviewed, NoBatch, Batch
<1>7. budget \in [jobs : Nat, hand : Nat, edits : Nat]
  BY GenerationAssumption DEF Init
<1>8. QED
  BY <1>2, <1>3, <1>4, <1>6, <1>7 DEF TypeInv, TypeOK

(* What is left of the bounds. *)
LEMMA SpendKeeps ==
  ASSUME TypeInv, NEW what \in {"jobs", "hand", "edits"}, Spend(what)
  PROVE  budget' \in [jobs : Nat, hand : Nat, edits : Nat]
<1>1. budget \in [jobs : Nat, hand : Nat, edits : Nat]
  BY DEF TypeInv, TypeOK
<1>2. budget[what] \in Nat /\ budget[what] > 0
  BY <1>1 DEF Spend
<1>3. budget[what] - 1 \in Nat
  BY <1>2
<1>4. budget' = [budget EXCEPT ![what] = budget[what] - 1]
  BY DEF Spend
<1>5. QED
  BY <1>1, <1>3, <1>4

LEMMA RowOf ==
  ASSUME TypeInv, NEW a \in Agreement, NEW d \in Day
  PROVE  visits \in Calendar /\ visits[a][d] \in Row /\ NoVisit \in Row
  BY DEF TypeInv, TypeOK, Calendar, Row, NoVisit

LEMMA RowWritten ==
  ASSUME NEW calendar \in Calendar, NEW a \in Agreement, NEW d \in Day, NEW row \in Row
  PROVE  [calendar EXCEPT ![a][d] = row] \in Calendar
  BY DEF Calendar

LEMMA HandSteps ==
  ASSUME TypeInv,
         \/ \E a \in Agreement, d \in Day : Hold(a, d) \/ Release(a, d)
         \/ \E a \in Agreement, d, e \in Day : MoveByHand(a, d, e)
         \/ \E a \in Agreement : EditTerms(a) \/ EditHours(a)
  PROVE  TypeInv'
<1>1. ASSUME NEW slots, NEW new \in Calendar, ByHand(slots, new)
      PROVE  TypeInv'
  <2>1. jobs' \in [Process -> Job] /\ \A p \in Process : JobShape(jobs'[p])
    BY <1>1, StaledKeeps DEF ByHand
  <2>2. /\ reviewed' \in [Key -> Reviewed]
        /\ \A k \in Key : reviewed'[k].intact => reviewed'[k].moves # <<>>
    BY <1>1, ReviseKeeps DEF ByHand
  <2>3. budget' \in [jobs : Nat, hand : Nat, edits : Nat]
    BY <1>1, SpendKeeps DEF ByHand
  <2>4. QED
    BY <1>1, <2>1, <2>2, <2>3 DEF ByHand, TypeInv, TypeOK
<1>2. ASSUME NEW a \in Agreement, NEW d \in Day, Hold(a, d)
      PROVE  TypeInv'
  <2> DEFINE row == [visits[a][d] EXCEPT !.held = TRUE]
  <2>1. row \in Row
    BY RowOf DEF Row
  <2>2. [visits EXCEPT ![a][d].held = TRUE] = [visits EXCEPT ![a][d] = row]
    OBVIOUS
  <2> HIDE DEF row
  <2>3. [visits EXCEPT ![a][d].held = TRUE] \in Calendar
    BY <2>1, <2>2, RowOf, RowWritten
  <2>4. QED
    BY <1>1, <1>2, <2>3 DEF Hold
<1>3. ASSUME NEW a \in Agreement, NEW d \in Day, Release(a, d)
      PROVE  TypeInv'
  <2> DEFINE row == [visits[a][d] EXCEPT !.held = FALSE]
  <2>1. row \in Row
    BY RowOf DEF Row
  <2>2. [visits EXCEPT ![a][d].held = FALSE] = [visits EXCEPT ![a][d] = row]
    OBVIOUS
  <2> HIDE DEF row
  <2>3. [visits EXCEPT ![a][d].held = FALSE] \in Calendar
    BY <2>1, <2>2, RowOf, RowWritten
  <2>4. QED
    BY <1>1, <1>3, <2>3 DEF Release
<1>4. ASSUME NEW a \in Agreement, NEW d \in Day, NEW e \in Day, MoveByHand(a, d, e)
      PROVE  TypeInv'
  <2> DEFINE row == [visits[a][d] EXCEPT !.held = TRUE, !.moved = TRUE]
  <2>1. row \in Row /\ NoVisit \in Row
    BY RowOf DEF Row
  <2>2. [visits EXCEPT ![a][d] = NoVisit, ![a][e] = row] \in Calendar
    <3> HIDE DEF row
    <3>1. [visits EXCEPT ![a][d] = NoVisit] \in Calendar
      BY <2>1, RowOf, RowWritten
    <3>2. [[visits EXCEPT ![a][d] = NoVisit] EXCEPT ![a][e] = row] \in Calendar
      BY <2>1, <3>1, RowWritten
    <3> QED
      BY <3>2
  <2>3. QED
    BY <1>1, <1>4, <2>2 DEF MoveByHand
<1>5. ASSUME NEW a \in Agreement, EditTerms(a)
      PROVE  TypeInv'
  <2>1. PICK t \in TermsOf[a] : terms' = [terms EXCEPT ![a] = t]
    BY <1>5 DEF EditTerms
  <2>2. t \in Terms
    BY GenerationAssumption
  <2>3. terms' \in [Agreement -> Terms] /\ Promised(terms')
    BY <2>1, <2>2 DEF TypeInv, TypeOK, Promised
  <2>4. budget' \in [jobs : Nat, hand : Nat, edits : Nat]
    BY <1>5, SpendKeeps DEF EditTerms
  <2>5. QED
    BY <1>5, <2>3, <2>4 DEF EditTerms, TypeInv, TypeOK
<1>6. ASSUME NEW a \in Agreement, EditHours(a)
      PROVE  TypeInv'
  <2>1. opens' \in [Agreement -> SUBSET Day]
    BY <1>6, GenerationAssumption DEF EditHours, TypeInv, TypeOK
  <2>2. budget' \in [jobs : Nat, hand : Nat, edits : Nat]
    BY <1>6, SpendKeeps DEF EditHours
  <2>3. QED
    BY <1>6, <2>1, <2>2 DEF EditHours, TypeInv, TypeOK
<1>7. QED
  BY <1>2, <1>3, <1>4, <1>5, <1>6

LEMMA ListOf ==
  \A S : \A n \in Nat : \A f \in [1..n -> S] : f \in Seq(S) /\ Len(f) = n
  OBVIOUS

(* A job begins. *)
LEMMA BeginKeeps ==
  ASSUME TypeInv, NEW p \in Process, NEW j \in Job, JobShape(j), Begin(p, j), UNCHANGED reviewed
  PROVE  TypeInv'
<1>1. jobs' \in [Process -> Job] /\ \A q \in Process : JobShape(jobs'[q])
  BY StepKeeps DEF Begin, Step
<1>2. budget' \in [jobs : Nat, hand : Nat, edits : Nat]
  BY SpendKeeps DEF Begin
<1>3. QED
  BY <1>1, <1>2 DEF Begin, TypeInv, TypeOK

LEMMA ReadingKeeps ==
  ASSUME TypeInv, NEW j \in Job, j.todo # <<>>, j.kind = "repair" <=> j.key # {}
  PROVE  Reading(j) \in Job /\ JobShape(Reading(j))
<1>1. /\ Reading(j) \in Job /\ Reading(j).stage = "plan" /\ Reading(j).seen = Now
      /\ Reading(j).kind = j.kind /\ Reading(j).key = j.key /\ Reading(j).todo = j.todo
  <2>1. Now \in Read
    BY NowIsRead DEF TypeInv
  <2>2. QED
    BY <2>1 DEF Reading, Job, Stages
<1>2. Now \in Read /\ Promised(Now.terms)
  BY NowIsRead DEF TypeInv, TypeOK, Now
<1>3. QED
  BY <1>1, <1>2 DEF JobShape

LEMMA BeginSteps ==
  ASSUME TypeInv,
         \/ \E p \in Process : Confirm(p) \/ Sweep(p)
         \/ \E p \in Process, k \in Key : StartRepair(p, k)
  PROVE  TypeInv'
<1>1. ASSUME NEW p \in Process, Confirm(p)
      PROVE  TypeInv'
  <2>1. PICK ask \in Asks :
          /\ Begin(p, Reading([Idle EXCEPT !.kind = "confirm", !.todo = <<ask>>]))
          /\ UNCHANGED reviewed
    BY <1>1 DEF Confirm
  <2> DEFINE j == [Idle EXCEPT !.kind = "confirm", !.todo = <<ask>>]
  <2>2. ask \in Ask
    BY GenerationAssumption
  <2>3. <<ask>> \in Seq(Ask) /\ <<ask>> # <<>>
    BY <2>2
  <2>4. j \in Job /\ j.kind = "confirm" /\ j.todo = <<ask>> /\ j.key = {}
    BY <2>3, NothingPlanned DEF Job, Kinds, Idle
  <2> HIDE DEF j
  <2>5. Reading(j) \in Job /\ JobShape(Reading(j))
    BY <2>3, <2>4, ReadingKeeps
  <2>6. QED
    BY <2>1, <2>5, BeginKeeps DEF j
<1>2. ASSUME NEW p \in Process, Sweep(p)
      PROVE  TypeInv'
  <2> DEFINE j == [Idle EXCEPT !.kind = "sweep", !.stage = "read", !.todo = SweepAsks]
  <2>1. SweepAsks \in Seq(Ask) /\ SweepAsks # <<>>
    BY <1>2, SweepAsksType DEF Sweep
  <2>2. /\ j \in Job /\ j.kind = "sweep" /\ j.stage = "read" /\ j.todo = SweepAsks /\ j.key = {}
    BY <2>1, NothingPlanned DEF Job, Kinds, Stages, Idle
  <2> HIDE DEF j
  <2>3. JobShape(j)
    BY <2>1, <2>2 DEF JobShape
  <2>4. QED
    BY <1>2, <2>2, <2>3, BeginKeeps DEF Sweep, j
<1>3. ASSUME NEW p \in Process, NEW k \in Key, StartRepair(p, k)
      PROVE  TypeInv'
  <2> DEFINE todo == [i \in DOMAIN reviewed[k].moves |-> reviewed[k].moves[i].ask]
             j == [Idle EXCEPT !.kind = "repair", !.stage = "claim", !.key = {k}, !.todo = todo]
  <2>1. reviewed[k].moves \in Seq(Move) /\ reviewed[k].moves # <<>>
    BY <1>3 DEF StartRepair, TypeInv, TypeOK, Reviewed
  <2>2. todo \in Seq(Ask) /\ todo # <<>>
    <3>1. /\ Len(reviewed[k].moves) \in Nat /\ Len(reviewed[k].moves) # 0
          /\ DOMAIN reviewed[k].moves = 1..Len(reviewed[k].moves)
      BY <2>1
    <3>2. \A i \in DOMAIN reviewed[k].moves : reviewed[k].moves[i] \in Move
      BY <2>1
    <3>3. \A i \in DOMAIN reviewed[k].moves : reviewed[k].moves[i].ask \in Ask
      BY <3>2 DEF Move
    <3>4. todo \in [1..Len(reviewed[k].moves) -> Ask]
      BY <3>1, <3>3
    <3> DEFINE n == Len(reviewed[k].moves)
    <3>5. n \in Nat /\ n # 0 /\ todo \in [1..n -> Ask]
      BY <3>1, <3>4
    <3> HIDE DEF todo, n
    <3>6. todo \in Seq(Ask) /\ Len(todo) # 0
      BY <3>5, ListOf
    <3>7. QED
      BY <3>6
  <2>3. {k} \in Keys
    BY DEF Keys
  <2> HIDE DEF todo
  <2>4. /\ j \in Job /\ j.kind = "repair" /\ j.stage = "claim" /\ j.todo = todo /\ j.key = {k}
        /\ j.done = <<>>
    BY <2>2, <2>3, NothingPlanned DEF Job, Kinds, Stages, Idle
  <2> HIDE DEF j
  <2>5. JobShape(j)
    BY <2>2, <2>4 DEF JobShape
  <2>6. QED
    BY <1>3, <2>4, <2>5, BeginKeeps DEF StartRepair, j, todo
<1>4. QED
  BY <1>1, <1>2, <1>3

LEMMA PlannedIsWritable ==
  ASSUME NEW ask \in Ask, NEW t \in [Agreement -> Terms], Promised(t), NEW s \in Slot, s \in Window(ask),
         PeriodOf[s[2]] \in PlannedPeriods(t[s[1]], ask)
  PROVE  MayWrite(s, ask)
<1>1. s[1] \in Agreement /\ t[s[1]] \in TermsOf[s[1]]
  BY DEF Slot, Promised
<1>2. CASE BookedIn(t[s[1]], PeriodOf[s[2]], ask) # {}
  BY <1>1, <1>2 DEF MayWrite
<1>3. CASE PeriodDays(PeriodOf[s[2]]) \subseteq InRange(ask)
  BY <1>3 DEF MayWrite
<1>4. QED
  BY <1>2, <1>3 DEF PlannedPeriods

LEMMA ReadSteps ==
  ASSUME TypeInv, NEW p \in Process, ReadAgreements(p) \/ ReadRange(p)
  PROVE  TypeInv'
<1> DEFINE job == jobs[p]
<1>0. job \in Job /\ JobShape(job)
  BY DEF TypeInv, TypeOK
<1>1. CASE ReadAgreements(p)
  <2>1. job.todo # <<>> /\ (job.kind = "repair" <=> job.key # {})
    BY <1>0, <1>1 DEF ReadAgreements, JobShape
  <2>2. Reading(job) \in Job /\ JobShape(Reading(job))
    BY <1>0, <2>1, ReadingKeeps
  <2>3. jobs' \in [Process -> Job] /\ \A q \in Process : JobShape(jobs'[q])
    BY <1>1, <2>2, StepKeeps DEF ReadAgreements, Step
  <2>4. QED
    BY <1>1, <2>3 DEF ReadAgreements, TypeInv, TypeOK
<1>2. CASE ReadRange(p)
  <2> DEFINE ask == job.todo[1]
             plan == PlanOf(ask, job.seen, visits)
             still == \A a \in ask.scope : visits[a] = job.seen.visits[a]
             late == job.stale \cap (plan.updates \cup plan.removals)
             next == [job EXCEPT !.stage = "apply", !.plan = plan, !.seen = Unread,
                                 !.steady = still, !.stale = late]
  <2>1. job.stage = "plan" /\ jobs' = [jobs EXCEPT ![p] = next]
    BY <1>2 DEF ReadRange, Step
  <2>2. job.todo # <<>> /\ job.seen \in Read /\ Promised(job.seen.terms) /\ (job.kind = "repair" <=> job.key # {})
    BY <1>0, <2>1 DEF JobShape
  <2>3. ask \in Ask
    BY <1>0, <2>2 DEF Job
  <2>4. visits \in Calendar
    BY DEF TypeInv, TypeOK
  <2> HIDE DEF ask
  <2>5. plan \in Plans /\ WithinTheAsk(plan, ask, job.seen.terms)
    BY <2>2, <2>3, <2>4, PlanOfIsWithin
  <2> HIDE DEF plan, still
  <2>6. \A s \in Touched(plan) : MayWrite(s, ask) /\ s[1] \in DOMAIN plan.minutes
    <3>1. job.seen.terms \in [Agreement -> Terms]
      BY <2>2 DEF Read
    <3>2. QED
      BY <2>2, <2>3, <2>5, <3>1, PlannedIsWritable DEF WithinTheAsk
  <2>7. late \in SUBSET Slot
    BY <1>0 DEF Job
  <2>8. still \in BOOLEAN
    BY DEF still
  <2> HIDE DEF late
  <2>9. /\ next \in Job /\ next.stage = "apply" /\ next.plan = plan /\ next.todo = job.todo
        /\ next.kind = job.kind /\ next.key = job.key
    BY <1>0, <2>5, <2>7, <2>8 DEF Job, Stages
  <2> HIDE DEF next
  <2>10. JobShape(next)
    BY <2>2, <2>6, <2>9 DEF JobShape, ask
  <2>11. jobs' \in [Process -> Job] /\ \A q \in Process : JobShape(jobs'[q])
    BY <2>1, <2>9, <2>10, StepKeeps
  <2>12. QED
    BY <1>2, <2>11 DEF ReadRange, TypeInv, TypeOK
<1>3. QED
  BY <1>1, <1>2

LEMMA ReviewStep ==
  ASSUME TypeInv, NEW k \in Key, Review(k)
  PROVE  TypeInv'
<1>1. PICK moves \in {BunchingMoves} \ {<<>>} :
        reviewed' = [reviewed EXCEPT ![k] = [moves |-> moves, intact |-> TRUE]]
  BY DEF Review
<1>2. moves \in Seq(Move) /\ moves # <<>>
  BY <1>1, BunchingMovesType DEF TypeInv
<1>3. [moves |-> moves, intact |-> TRUE] \in Reviewed
  BY <1>2 DEF Reviewed
<1>4. /\ reviewed' \in [Key -> Reviewed]
      /\ \A l \in Key : reviewed'[l].intact => reviewed'[l].moves # <<>>
  BY <1>1, <1>2, <1>3 DEF TypeInv, TypeOK
<1>5. QED
  BY <1>4 DEF Review, TypeInv, TypeOK

LEMMA WrittenKeeps ==
  ASSUME TypeInv, NEW p \in Process, jobs[p].stage = "apply"
  PROVE  Written(jobs[p].plan) \in Calendar
<1> DEFINE plan == jobs[p].plan
<1>1. plan \in Plans /\ \A s \in Touched(plan) : s[1] \in DOMAIN plan.minutes
  BY DEF TypeInv, TypeOK, Job, JobShape
<1>2. plan.minutes \in Partial(Nat \ {0})
  BY <1>1 DEF Plans
<1>3. \A a \in DOMAIN plan.minutes : plan.minutes[a] \in Nat
  BY <1>2 DEF Partial
<1> HIDE DEF plan
<1>4. ASSUME NEW a \in Agreement, NEW d \in Day
      PROVE  Written(plan)[a][d] \in Row
  <2>1. CASE <<a, d>> \in plan.removals
    <3>1. Written(plan)[a][d] = NoVisit
      BY <2>1 DEF Written
    <3>2. QED
      BY <3>1, RowOf
  <2>2. CASE <<a, d>> \notin plan.removals /\ <<a, d>> \in plan.adds \cup plan.updates
    <3>1. Written(plan)[a][d] = [held |-> FALSE, moved |-> FALSE, minutes |-> plan.minutes[a]]
      BY <2>2 DEF Written
    <3>2. <<a, d>> \in Touched(plan)
      BY <2>2 DEF Touched
    <3>3. plan.minutes[a] \in Nat
      BY <1>1, <1>3, <3>2
    <3>4. QED
      BY <3>1, <3>3 DEF Row
  <2>3. CASE <<a, d>> \notin Touched(plan)
    <3>1. Written(plan)[a][d] = visits[a][d]
      BY <2>3 DEF Written, Touched
    <3>2. QED
      BY <3>1, RowOf
  <2>4. QED
    BY <2>1, <2>2, <2>3 DEF Touched
<1>5. Written(plan) = [a \in Agreement |-> [d \in Day |-> Written(plan)[a][d]]]
  BY DEF Written
<1>6. Written(plan) \in Calendar
  BY <1>4, <1>5 DEF Calendar
<1>7. QED
  BY <1>6 DEF plan

(* What a confirm leaves its job to do. *)
LEMMA ApplyStep ==
  ASSUME TypeInv, NEW p \in Process, Apply(p)
  PROVE  TypeInv'
<1> DEFINE job == jobs[p]
           slots == job.plan.adds \cup job.plan.updates \cup job.plan.removals
           moved == job.kind = "repair" /\ Moved(job.plan) > 0
           move == [ask |-> job.todo[1], moved |-> Moved(job.plan)]
           recording == [job EXCEPT !.stage = "record", !.done = Append(@, move),
                                    !.plan = NoPlan, !.steady = FALSE]
           after == IF moved THEN recording ELSE Following(job)
<1>1. /\ job.stage = "apply" /\ visits' = Written(job.plan) /\ Revise(slots)
      /\ jobs' = [Staled(slots) EXCEPT ![p] = after]
      /\ landed' = [k \in Key |-> IF visits' # visits /\ k \in job.key
                                  THEN Append(landed[k], Change(job.todo[1], visits')) ELSE landed[k]]
      /\ UNCHANGED <<terms, opens, batches, budget>>
  BY DEF Apply
<1>2. job \in Job /\ JobShape(job)
  BY DEF TypeInv, TypeOK
<1>3. job.todo # <<>> /\ (job.kind = "repair" <=> job.key # {})
  BY <1>1, <1>2 DEF JobShape
<1>4. job.todo[1] \in Ask
  BY <1>2, <1>3 DEF Job
<1>5. recording \in Job /\ (moved => JobShape(recording))
  <2>0. move \in Move
    BY <1>2, <1>4, MovedIsANumber DEF Job, Move
  <2>1. Append(job.done, move) \in Seq(Move)
    BY <1>2, <2>0 DEF Job
  <2> HIDE DEF move
  <2>2. /\ recording \in Job /\ recording.stage = "record" /\ recording.todo = job.todo
        /\ recording.kind = job.kind /\ recording.key = job.key
    <3> HIDE DEF NoPlan
    <3> QED
      BY <1>2, <2>1, NothingPlanned DEF Job, Stages
  <2> HIDE DEF recording
  <2>3. QED
    BY <1>3, <2>2 DEF JobShape
<1>6. after \in Job /\ JobShape(after)
  <2>1. Following(job) \in Job /\ JobShape(Following(job))
    BY <1>1, <1>2, <1>3, FollowingKeeps
  <2> HIDE DEF recording, moved
  <2>2. QED
    BY <1>5, <2>1
<1> HIDE DEF after, slots, moved
<1>7. jobs' \in [Process -> Job] /\ \A q \in Process : JobShape(jobs'[q])
  BY <1>1, <1>6, StaledKeeps
<1>8. /\ reviewed' \in [Key -> Reviewed]
      /\ \A k \in Key : reviewed'[k].intact => reviewed'[k].moves # <<>>
  BY <1>1, ReviseKeeps
<1>9. visits' \in Calendar
  BY <1>1, WrittenKeeps
<1>10. landed' \in [Key -> Seq(Move)]
  <2>1. Change(job.todo[1], visits') \in Move
    BY <1>4, ChangeIsAMove
  <2>2. QED
    BY <1>1, <2>1 DEF TypeInv, TypeOK
<1>11. QED
  BY <1>1, <1>7, <1>8, <1>9, <1>10 DEF TypeInv, TypeOK

LEMMA RefuseStep ==
  ASSUME TypeInv, NEW p \in Process, Refuse(p)
  PROVE  TypeInv'
<1> DEFINE job == jobs[p]
           failed == [job EXCEPT !.stage = "fail", !.plan = NoPlan, !.steady = FALSE, !.stale = {}]
           next == CASE job.kind = "sweep"  -> Following(job)
                     [] job.kind = "repair" -> failed
                     [] OTHER -> Idle
<1>1. job.stage = "apply" /\ jobs' = [jobs EXCEPT ![p] = next]
  BY DEF Refuse, Step
<1>2. job \in Job /\ JobShape(job)
  BY DEF TypeInv, TypeOK
<1>3. job.todo # <<>> /\ (job.kind = "repair" <=> job.key # {})
  BY <1>1, <1>2 DEF JobShape
<1>4. failed \in Job /\ (job.kind = "repair" => JobShape(failed))
  <2>1. /\ failed \in Job /\ failed.stage = "fail" /\ failed.kind = job.kind /\ failed.key = job.key
    <3> HIDE DEF NoPlan
    <3> QED
      BY <1>2, NothingPlanned DEF Job, Stages
  <2> HIDE DEF failed
  <2>2. QED
    BY <1>3, <2>1 DEF JobShape
<1>5. next \in Job /\ JobShape(next)
  <2>1. Following(job) \in Job /\ JobShape(Following(job))
    BY <1>1, <1>2, <1>3, FollowingKeeps
  <2> HIDE DEF failed
  <2>2. QED
    BY <1>4, <2>1, NothingPlanned
<1> HIDE DEF next
<1>6. jobs' \in [Process -> Job] /\ \A q \in Process : JobShape(jobs'[q])
  BY <1>1, <1>5, StepKeeps
<1>7. QED
  BY <1>6 DEF Refuse, TypeInv, TypeOK

(* What a repair writes in its ledger. *)
LEMMA LedgerKeeps ==
  ASSUME TypeInv, NEW p, NEW status \in {"NONE", "IN_PROGRESS", "COMPLETED", "FAILED"},
         NEW recorded \in Seq(Move), Ledger(p, status, recorded),
         jobs' \in [Process -> Job] /\ \A q \in Process : JobShape(jobs'[q])
  PROVE  TypeInv'
<1>1. batches' \in [Key -> Batch]
  BY DEF Ledger, TypeInv, TypeOK, Batch
<1>2. QED
  BY <1>1 DEF Ledger, TypeInv, TypeOK

LEMMA LedgerSteps ==
  ASSUME TypeInv, NEW p \in Process, RecordMove(p) \/ FailBatch(p) \/ CompleteBatch(p)
  PROVE  TypeInv'
<1>1. jobs[p] \in Job /\ JobShape(jobs[p]) /\ jobs[p].done \in Seq(Move)
  BY DEF TypeInv, TypeOK, Job
<1>2. CASE RecordMove(p)
  <2>1. Following(jobs[p]) \in Job /\ JobShape(Following(jobs[p]))
    BY <1>1, <1>2, FollowingKeeps DEF RecordMove, JobShape
  <2>2. jobs' \in [Process -> Job] /\ \A q \in Process : JobShape(jobs'[q])
    BY <1>2, <2>1, StepKeeps DEF RecordMove, Step
  <2>3. QED
    BY <1>1, <1>2, <2>2, LedgerKeeps DEF RecordMove
<1>3. CASE FailBatch(p)
  <2>1. jobs' \in [Process -> Job] /\ \A q \in Process : JobShape(jobs'[q])
    BY <1>3, NothingPlanned, StepKeeps DEF FailBatch, Step
  <2>2. QED
    BY <1>1, <1>3, <2>1, LedgerKeeps DEF FailBatch, SoFar
<1>4. CASE CompleteBatch(p)
  <2>1. jobs' \in [Process -> Job] /\ \A q \in Process : JobShape(jobs'[q])
    BY <1>4, NothingPlanned, StepKeeps DEF CompleteBatch, Step
  <2>2. QED
    BY <1>1, <1>4, <2>1, LedgerKeeps DEF CompleteBatch
<1>5. QED
  BY <1>2, <1>3, <1>4

LEMMA ClaimStep ==
  ASSUME TypeInv, NEW p \in Process, Claim(p)
  PROVE  TypeInv'
<1> DEFINE reading == [jobs[p] EXCEPT !.stage = "read"]
<1>1. jobs[p] \in Job /\ JobShape(jobs[p]) /\ jobs[p].stage = "claim" /\ jobs[p].key \in Keys
  BY DEF Claim, TypeInv, TypeOK, Job
<1>2. reading \in Job /\ JobShape(reading)
  <2>1. /\ reading \in Job /\ reading.stage = "read" /\ reading.kind = jobs[p].kind
        /\ reading.key = jobs[p].key /\ reading.todo = jobs[p].todo
    BY <1>1 DEF Job, Stages
  <2> HIDE DEF reading
  <2>2. QED
    BY <1>1, <2>1 DEF JobShape
<1>3. PICK k \in jobs[p].key :
        IF Claimed(k) THEN Step(p, Idle) /\ UNCHANGED batches
        ELSE /\ batches' = [batches EXCEPT ![k] = [status |-> "IN_PROGRESS", recorded |-> <<>>]]
             /\ Step(p, reading)
  BY DEF Claim
<1>4. k \in Key
  BY <1>1, <1>3 DEF Keys
<1> HIDE DEF reading
<1>5. jobs' \in [Process -> Job] /\ \A q \in Process : JobShape(jobs'[q])
  BY <1>2, <1>3, NothingPlanned, StepKeeps DEF Step
<1>6. batches' \in [Key -> Batch]
  <2>1. <<>> \in Seq(Move)
    OBVIOUS
  <2>2. [status |-> "IN_PROGRESS", recorded |-> <<>>] \in Batch
    BY <2>1 DEF Batch
  <2>3. batches \in [Key -> Batch]
    BY DEF TypeInv, TypeOK
  <2>4. QED
    BY <1>3, <1>4, <2>2, <2>3
<1>7. QED
  BY <1>5, <1>6 DEF Claim, TypeInv, TypeOK

LEMMA CrashStep ==
  ASSUME TypeInv, NEW p \in Process, Crash(p)
  PROVE  TypeInv'
<1>1. jobs' \in [Process -> Job] /\ \A q \in Process : JobShape(jobs'[q])
  BY NothingPlanned, StepKeeps DEF Crash, Step
<1>2. QED
  BY <1>1 DEF Crash, TypeInv, TypeOK

LEMMA NextTypes ==
  ASSUME TypeInv, [Next]_vars
  PROVE  TypeInv'
<1>1. CASE UNCHANGED vars
  BY <1>1 DEF vars, TypeInv, TypeOK, Promised
<1>2. CASE Next
  BY <1>2, HandSteps, BeginSteps, ReadSteps, ReviewStep, ClaimStep, ApplyStep, RefuseStep,
     LedgerSteps, CrashStep DEF Next
<1>3. QED
  BY <1>1, <1>2

(* Whatever is generated, extended, repaired or done by hand, every calendar, *)
(* plan, job and ledger has the shape the code gives it, and what a plan may  *)
(* write was asked for.                                                       *)
THEOREM GenerationTypeCorrect == Spec => []TypeInv
<1>1. Init => TypeInv
  BY InitTypes
<1>2. TypeInv /\ [Next]_vars => TypeInv'
  BY NextTypes
<1>3. QED
  BY <1>1, <1>2, PTL DEF Spec

-----------------------------------------------------------------------------
(* What a run writes.                                                      *)

(* Only a confirm's transaction takes a job past its plan and changes the *)
(* calendar.                                                               *)
LEMMA OnlyApplyCommits ==
  ASSUME TypeInv, Next, NEW p \in Process, Commits(p)
  PROVE  Apply(p)
<1>1. jobs[p].stage = "apply" /\ jobs'[p].stage # "apply" /\ visits' # visits
  BY DEF Commits
<1>2. ASSUME NEW slots, NEW new, ByHand(slots, new) PROVE FALSE
  BY <1>1, <1>2, StaledKeeps DEF ByHand
<1>3. ASSUME NEW q \in Process, Apply(q) PROVE q = p
  <2>1. SUFFICES ASSUME q # p PROVE FALSE
    OBVIOUS
  <2>2. PICK slots, after : jobs' = [Staled(slots) EXCEPT ![q] = after]
    BY <1>3 DEF Apply
  <2>3. jobs'[p].stage = jobs[p].stage
    BY <2>1, <2>2, StaledKeeps
  <2>4. QED
    BY <1>1, <2>3
<1>4. \/ \E a \in Agreement, d \in Day : Hold(a, d) \/ Release(a, d)
      \/ \E a \in Agreement, d, e \in Day : MoveByHand(a, d, e)
      \/ \E q \in Process : Apply(q)
  BY <1>1 DEF Next, EditTerms, EditHours, Confirm, Sweep, StartRepair, Begin, Review, Claim, ReadAgreements,
     ReadRange, Refuse, RecordMove, FailBatch, CompleteBatch, Ledger, Crash
<1>5. QED
  BY <1>2, <1>3, <1>4 DEF Hold, Release, MoveByHand

LEMMA OnlyWhatIsTouched ==
  ASSUME TypeInv, NEW plan, NEW s \in Slot, Written(plan)[s[1]][s[2]] # visits[s[1]][s[2]]
  PROVE  s \in Touched(plan)
<1>1. s = <<s[1], s[2]>> /\ s[1] \in Agreement /\ s[2] \in Day
  BY DEF Slot
<1>2. QED
  BY <1>1 DEF Written, Touched

(* A run changes only slots its plan touches, all of them its own to write; *)
(* none holds a visit somebody took since.                                  *)
LEMMA CommitWritesItsOwn ==
  ASSUME TypeInv, Next, NEW p \in Process, Commits(p), NEW s \in Slot,
         visits'[s[1]][s[2]] # visits[s[1]][s[2]]
  PROVE  ~visits[s[1]][s[2]].held /\ MayWrite(s, jobs[p].todo[1])
<1>1. Apply(p)
  BY OnlyApplyCommits
<1> DEFINE plan == jobs[p].plan
<1>2. /\ jobs[p].stage = "apply" /\ visits' = Written(plan)
      /\ StillOurs(plan, jobs[p].stale) /\ SlotsFree(plan)
  BY <1>1 DEF Apply, Accepted
<1>3. JobShape(jobs[p])
  BY DEF TypeInv
<1> HIDE DEF plan
<1>4. s \in Touched(plan)
  BY <1>2, OnlyWhatIsTouched
<1>5. ~visits[s[1]][s[2]].held
  <2>1. CASE s \in plan.adds
    BY <1>2, <2>1 DEF SlotsFree, Exists, NoVisit
  <2>2. CASE s \in plan.updates \cup plan.removals
    BY <1>2, <2>2 DEF StillOurs
  <2>3. QED
    BY <1>4, <2>1, <2>2 DEF Touched
<1>6. MayWrite(s, jobs[p].todo[1])
  BY <1>2, <1>3, <1>4 DEF JobShape, plan
<1>7. QED
  BY <1>5, <1>6

(* Applying a plan made from earlier reads never changes, moves or deletes a *)
(* visit somebody holds, and writes only within what was asked for           *)
(* (assertPlanIsStillSafe and the occurrence planner).                       *)
THEOREM OnlyItsOwnIsWritten == Spec => WritesOnlyItsOwn
<1>1. TypeInv /\ [Next]_vars =>
        [\A p \in Process : Commits(p) =>
           LET ask == jobs[p].todo[1]
           IN  \A s \in Slot : visits'[s[1]][s[2]] # visits[s[1]][s[2]] =>
                 /\ ~visits[s[1]][s[2]].held
                 /\ s \in Window(ask)
                 /\ \/ PeriodDays(PeriodOf[s[2]]) \subseteq InRange(ask)
                    \/ \E t \in TermsOf[s[1]] : BookedIn(t, PeriodOf[s[2]], ask) # {}]_vars
  BY CommitWritesItsOwn DEF MayWrite
<1>2. QED
  BY <1>1, GenerationTypeCorrect, PTL DEF Spec, WritesOnlyItsOwn

-----------------------------------------------------------------------------
(* The ledger of a repair.                                                 *)

(* The moves among changes, one change at a time. *)
IfMove(acc, c) == IF c.moved > 0 THEN Append(acc, c) ELSE acc
MovesRun(f, s) ==
  /\ f \in [0..Len(s) -> Seq(Move)] /\ f[0] = <<>> /\ f[Len(s)] = MovesIn(s)
  /\ \A n \in 1..Len(s) : f[n] = IfMove(f[n - 1], s[n])

LEMMA MovesHaveARun ==
  ASSUME NEW s \in Seq(Move)
  PROVE  \E f : MovesRun(f, s)
<1> DEFINE N == Len(s)
           X == Seq(Move)
           step == [x \in X \X (1..N) |-> IfMove(x[1], s[x[2]])]
           Whole(i) == [d \in SUBSET DOMAIN s |-> IF d = {} THEN <<>>
                          ELSE LET x == Max(d) IN IfMove(i[d \ {x}], s[x])]
           fold == CHOOSE i : i = Whole(i)
<1>1. MovesIn(s) = fold[DOMAIN s]
  BY DEF MovesIn, FoldLeft, MapThenFoldSet, IfMove
<1>2. N \in Nat /\ DOMAIN s = 1..N /\ <<>> \in X /\ \A n \in 1..N : s[n] \in Move
  OBVIOUS
<1>3. ASSUME NEW acc \in X, NEW n \in 1..N PROVE IfMove(acc, s[n]) \in X
  <2>1. s[n] \in Move
    BY <1>2
  <2>2. Append(acc, s[n]) \in X
    BY <2>1
  <2>3. QED
    BY <2>2 DEF IfMove
<1> HIDE DEF N, X
<1>4. step \in [X \X (1..N) -> X]
  BY <1>3
<1>5. PICK i \in [SUBSET (1..N) -> X] : FoldsBy(i, N, <<>>, step)
  <2> HIDE DEF step
  <2> QED
    BY <1>2, <1>4, FoldExists
<1>6. i = Whole(i)
  <2>1. ASSUME NEW d \in SUBSET (1..N), d # {}
        PROVE  i[d] = IfMove(i[d \ {Max(d)}], s[Max(d)])
    <3>1. Max(d) \in 1..N
      BY <1>2, <2>1, MaxIsIn
    <3>2. i[d] = step[<<i[d \ {Max(d)}], Max(d)>>] /\ i[d \ {Max(d)}] \in X
      BY <1>5, <2>1 DEF FoldsBy
    <3>3. QED
      BY <3>1, <3>2
  <2>2. QED
    BY <1>2, <1>5, <2>1 DEF FoldsBy
<1>7. fold = Whole(fold)
  <2> HIDE DEF Whole
  <2> QED
    BY <1>6
<1> HIDE DEF fold
<1>8. FoldsIn(fold, N, X, <<>>, step)
  <2>1. fold[{}] = <<>>
    BY <1>7
  <2>2. ASSUME NEW d \in SUBSET (1..N), d # {}, fold[d \ {Max(d)}] \in X
        PROVE  fold[d] = step[<<fold[d \ {Max(d)}], Max(d)>>]
    <3>1. fold[d] = IfMove(fold[d \ {Max(d)}], s[Max(d)]) /\ Max(d) \in 1..N
      BY <1>2, <1>7, <2>2, MaxIsIn
    <3>2. QED
      BY <2>2, <3>1
  <2> HIDE DEF step
  <2>3. QED
    BY <2>1, <2>2 DEF FoldsIn
<1>9. HasRun(fold, N, X, <<>>, step)
  <2> HIDE DEF step
  <2> QED
    BY <1>2, <1>4, <1>8, RunOfFold
<1>10. PICK f \in [0..N -> X] : /\ f[0] = <<>> /\ f[N] = fold[1..N]
                                /\ \A n \in 1..N : f[n] = step[<<f[n - 1], n>>]
  <2> HIDE DEF step
  <2> QED
    BY <1>9 DEF HasRun
<1>11. ASSUME NEW n \in 1..N PROVE f[n] = IfMove(f[n - 1], s[n])
  <2>1. n - 1 \in 0..N
    BY <1>2
  <2>2. f[n - 1] \in X
    BY <2>1
  <2>3. QED
    BY <1>10, <2>2
<1> HIDE DEF step
<1>12. MovesRun(f, s)
  BY <1>1, <1>2, <1>10, <1>11 DEF MovesRun, N, X
<1>13. QED
  BY <1>12

LEMMA MovesInGrows ==
  /\ MovesIn(<<>>) = <<>>
  /\ \A s \in Seq(Move) : MovesIn(s) \in Seq(Move)
  /\ \A s \in Seq(Move), c \in Move :
       MovesIn(Append(s, c)) = IF c.moved > 0 THEN Append(MovesIn(s), c) ELSE MovesIn(s)
<1>1. MovesIn(<<>>) = <<>>
  <2>1. <<>> \in Seq(Move) /\ Len(<<>>) = 0
    OBVIOUS
  <2>2. PICK f : MovesRun(f, <<>>)
    BY <2>1, MovesHaveARun
  <2>3. QED
    BY <2>1, <2>2 DEF MovesRun
<1>2. ASSUME NEW s \in Seq(Move) PROVE MovesIn(s) \in Seq(Move)
  <2>1. PICK f : MovesRun(f, s)
    BY MovesHaveARun
  <2>2. Len(s) \in 0..Len(s)
    OBVIOUS
  <2>3. QED
    BY <2>1, <2>2 DEF MovesRun
<1>3. ASSUME NEW s \in Seq(Move), NEW c \in Move
      PROVE  MovesIn(Append(s, c)) = IfMove(MovesIn(s), c)
  <2> DEFINE t == Append(s, c)
             N == Len(s)
  <2>1. /\ t \in Seq(Move) /\ N \in Nat /\ Len(t) = N + 1 /\ t[N + 1] = c
        /\ \A n \in 1..N : t[n] = s[n]
    OBVIOUS
  <2> HIDE DEF t
  <2>2. PICK f : MovesRun(f, s)
    BY MovesHaveARun
  <2>3. PICK g : MovesRun(g, t)
    BY <2>1, MovesHaveARun
  <2>4. /\ f[0] = <<>> /\ f[N] = MovesIn(s) /\ \A n \in 1..N : f[n] = IfMove(f[n - 1], s[n])
    BY <2>2 DEF MovesRun
  <2>5. /\ g[0] = <<>> /\ g[N + 1] = MovesIn(t)
        /\ \A n \in 1..(N + 1) : g[n] = IfMove(g[n - 1], t[n])
    BY <2>1, <2>3 DEF MovesRun
  <2> HIDE DEF N
  <2>6. ASSUME NEW n \in 1..N, f[n - 1] = g[n - 1] PROVE f[n] = g[n]
    <3>1. n \in 1..(N + 1)
      BY <2>1
    <3>2. QED
      BY <2>1, <2>4, <2>5, <2>6, <3>1
  <2>7. f[N] = g[N]
    BY <2>1, <2>4, <2>5, <2>6, RunsAgree
  <2>8. g[N + 1] = IfMove(g[N], c)
    <3>1. N + 1 \in 1..(N + 1) /\ (N + 1) - 1 = N
      BY <2>1
    <3>2. QED
      BY <2>1, <2>5, <3>1
  <2>9. QED
    BY <2>4, <2>5, <2>7, <2>8 DEF t
<1>4. QED
  BY <1>1, <1>2, <1>3 DEF IfMove

(* Under this key nobody starts to work, records or is given more to record. *)
NothingToRecord(k) ==
  /\ batches'[k] = batches[k] /\ MovesLanded(k)' = MovesLanded(k)
  /\ \A p \in Process : k \in jobs'[p].key /\ jobs'[p].stage # "claim" =>
       /\ k \in jobs[p].key /\ jobs[p].stage # "claim"
       /\ jobs'[p].done = jobs[p].done
       /\ jobs'[p].stage # "record" => jobs[p].stage # "record"

(* And nothing at all lands under it. *)
NothingNewUnder(k) == landed'[k] = landed[k] /\ NothingToRecord(k)

LEMMA KeyKept ==
  ASSUME NEW k \in Key, KeyHolds(k), NothingToRecord(k)
  PROVE  KeyHolds(k)'
<1>1. \A p \in Working(k)' : /\ p \in Working(k) /\ jobs'[p].done = jobs[p].done
                             /\ jobs'[p].stage # "record" => jobs[p].stage # "record"
  BY DEF Working, NothingToRecord
<1>2. batches'[k] = batches[k] /\ MovesLanded(k)' = MovesLanded(k)
  BY DEF NothingToRecord
<1>3. (batches[k].status = "NONE" => batches[k] = NoBatch)'
  BY <1>2 DEF KeyHolds
<1>4. (batches[k].status # "IN_PROGRESS" => Working(k) = {} /\ MovesLanded(k) = batches[k].recorded)'
  BY <1>1, <1>2 DEF KeyHolds
<1>5. (MovesLanded(k) = batches[k].recorded \/ \E e \in Move : MovesLanded(k) = Append(batches[k].recorded, e))'
  BY <1>2 DEF KeyHolds
<1>6. (\A p \in Working(k) : /\ MovesLanded(k) = jobs[p].done
                             /\ jobs[p].stage # "record" => jobs[p].done = batches[k].recorded)'
  BY <1>1, <1>2 DEF KeyHolds
<1>7. (\A p, q \in Working(k) : p = q)'
  BY <1>1 DEF KeyHolds
<1>8. QED
  BY <1>3, <1>4, <1>5, <1>6, <1>7 DEF KeyHolds

(* One job moves on and the ledger stays as it is. *)
LEMMA JobMovesOn ==
  ASSUME TypeInv, NEW p \in Process, NEW j, jobs' = [jobs EXCEPT ![p] = j],
         UNCHANGED <<batches, landed>>, NEW k \in Key,
         k \in j.key /\ j.stage # "claim" => /\ k \in jobs[p].key /\ jobs[p].stage # "claim"
                                             /\ j.done = jobs[p].done
                                             /\ j.stage # "record" => jobs[p].stage # "record"
  PROVE  NothingNewUnder(k)
<1>1. jobs'[p] = j /\ \A q \in Process : q # p => jobs'[q] = jobs[q]
  BY DEF TypeInv, TypeOK
<1>2. QED
  BY <1>1 DEF NothingNewUnder, NothingToRecord, MovesLanded

LEMMA OthersKeepWorking ==
  ASSUME TypeInv, NEW slots, jobs' = Staled(slots), UNCHANGED <<batches, landed>>, NEW k \in Key
  PROVE  NothingNewUnder(k)
  BY StaledKeeps DEF NothingNewUnder, NothingToRecord, MovesLanded

LEMMA IdleHasNoKey ==
  Idle.key = {} /\ Idle.stage = "idle"
  BY DEF Idle

LEMMA QuietSteps ==
  ASSUME TypeInv, NEW k \in Key,
         \/ \E a \in Agreement, d \in Day : Hold(a, d) \/ Release(a, d)
         \/ \E a \in Agreement, d, e \in Day : MoveByHand(a, d, e)
         \/ \E a \in Agreement : EditTerms(a) \/ EditHours(a)
         \/ \E l \in Key : Review(l)
  PROVE  NothingNewUnder(k)
<1>1. ASSUME NEW slots, NEW new, ByHand(slots, new) PROVE NothingNewUnder(k)
  BY <1>1, OthersKeepWorking DEF ByHand
<1>2. CASE UNCHANGED <<jobs, batches, landed>>
  BY <1>2 DEF NothingNewUnder, NothingToRecord, MovesLanded
<1>3. QED
  BY <1>1, <1>2 DEF Hold, Release, MoveByHand, EditTerms, EditHours, Review

(* What a job is when it begins: it works under no key yet. *)
LEMMA BeginsWithoutWork ==
  ASSUME TypeInv, NEW k \in Key, NEW p \in Process,
         Confirm(p) \/ Sweep(p) \/ \E l \in Key : StartRepair(p, l)
  PROVE  NothingNewUnder(k)
<1>1. ASSUME NEW j, Begin(p, j), k \in j.key => j.stage = "claim"
      PROVE  NothingNewUnder(k)
  BY <1>1, JobMovesOn DEF Begin, Step
<1>2. CASE Confirm(p)
  <2>1. PICK ask \in Asks : Begin(p, Reading([Idle EXCEPT !.kind = "confirm", !.todo = <<ask>>]))
    BY <1>2 DEF Confirm
  <2>2. Reading([Idle EXCEPT !.kind = "confirm", !.todo = <<ask>>]).key = {}
    BY DEF Reading, Idle
  <2>3. QED
    BY <1>1, <2>1, <2>2
<1>3. CASE Sweep(p)
  <2>1. [Idle EXCEPT !.kind = "sweep", !.stage = "read", !.todo = SweepAsks].key = {}
    BY DEF Idle
  <2>2. QED
    BY <1>1, <1>3, <2>1 DEF Sweep
<1>4. ASSUME NEW l \in Key, StartRepair(p, l) PROVE NothingNewUnder(k)
  <2> DEFINE todo == [i \in DOMAIN reviewed[l].moves |-> reviewed[l].moves[i].ask]
             j == [Idle EXCEPT !.kind = "repair", !.stage = "claim", !.key = {l}, !.todo = todo]
  <2>1. j.stage = "claim"
    BY DEF Idle
  <2>2. Begin(p, j)
    BY <1>4 DEF StartRepair
  <2> HIDE DEF j
  <2>3. QED
    BY <1>1, <2>1, <2>2
<1>5. QED
  BY <1>2, <1>3, <1>4

LEMMA ReadsLeaveTheLedger ==
  ASSUME TypeInv, NEW k \in Key, NEW p \in Process, ReadAgreements(p) \/ ReadRange(p)
  PROVE  NothingNewUnder(k)
<1>1. jobs[p] \in Job
  BY DEF TypeInv, TypeOK
<1>2. CASE ReadAgreements(p)
  <2>1. /\ Reading(jobs[p]).stage = "plan" /\ Reading(jobs[p]).key = jobs[p].key
        /\ Reading(jobs[p]).done = jobs[p].done
    BY <1>1 DEF Reading, Job
  <2>2. jobs[p].stage = "read" /\ jobs' = [jobs EXCEPT ![p] = Reading(jobs[p])]
        /\ UNCHANGED <<batches, landed>>
    BY <1>2 DEF ReadAgreements, Step
  <2>3. QED
    BY <2>1, <2>2, JobMovesOn
<1>3. CASE ReadRange(p)
  <2> DEFINE ask == jobs[p].todo[1]
             plan == PlanOf(ask, jobs[p].seen, visits)
             j == [jobs[p] EXCEPT !.stage = "apply", !.plan = plan, !.seen = Unread,
                                  !.steady = \A a \in ask.scope : visits[a] = jobs[p].seen.visits[a],
                                  !.stale = @ \cap (plan.updates \cup plan.removals)]
  <2>1. j.stage = "apply" /\ j.key = jobs[p].key /\ j.done = jobs[p].done
    BY <1>1 DEF Job
  <2>2. /\ jobs[p].stage = "plan" /\ jobs' = [jobs EXCEPT ![p] = j]
        /\ UNCHANGED <<batches, landed>>
    BY <1>3 DEF ReadRange, Step
  <2> HIDE DEF j
  <2>3. QED
    BY <2>1, <2>2, JobMovesOn
<1>4. QED
  BY <1>2, <1>3

LEMMA RefusalLeavesTheLedger ==
  ASSUME TypeInv, NEW k \in Key, NEW p \in Process, Refuse(p)
  PROVE  NothingNewUnder(k)
<1> DEFINE job == jobs[p]
           failed == [job EXCEPT !.stage = "fail", !.plan = NoPlan, !.steady = FALSE, !.stale = {}]
           next == CASE job.kind = "sweep"  -> Following(job)
                     [] job.kind = "repair" -> failed
                     [] OTHER -> Idle
<1>1. /\ job \in Job /\ JobShape(job) /\ job.stage = "apply"
      /\ jobs' = [jobs EXCEPT ![p] = next] /\ UNCHANGED <<batches, landed>>
  BY DEF Refuse, Step, TypeInv, TypeOK
<1>2. job.todo # <<>>
  BY <1>1 DEF JobShape
<1>3. job.kind # "repair" => Following(job).key = {}
  BY <1>1, <1>2, FollowingKeeps
<1>4. failed.stage = "fail" /\ failed.key = job.key /\ failed.done = job.done
  BY <1>1 DEF Job
<1> HIDE DEF failed
<1>5. k \in next.key => next.key = job.key /\ next.stage = "fail" /\ next.done = job.done
  BY <1>3, <1>4, IdleHasNoKey
<1> HIDE DEF next
<1>6. QED
  BY <1>1, <1>5, JobMovesOn

LEMMA CrashLeavesTheLedger ==
  ASSUME TypeInv, NEW k \in Key, NEW p \in Process, Crash(p)
  PROVE  NothingNewUnder(k)
  BY JobMovesOn, IdleHasNoKey DEF Crash, Step

(* The key of a job, when it has one. *)
LEMMA OneKey ==
  ASSUME TypeInv, NEW p \in Process
  PROVE  /\ \A k, l \in jobs[p].key : k = l /\ k \in Key
         /\ jobs[p].kind = "repair" <=> jobs[p].key # {}
<1>1. jobs[p].key \in Keys /\ JobShape(jobs[p])
  BY DEF TypeInv, TypeOK, Job
<1>2. QED
  BY <1>1 DEF Keys, JobShape

LEMMA ClaimKeepsLedger ==
  ASSUME LedgerInv, NEW p \in Process, Claim(p), NEW k \in Key
  PROVE  KeyHolds(k)'
<1> DEFINE reading == [jobs[p] EXCEPT !.stage = "read"]
<1>1. TypeInv /\ jobs[p] \in Job /\ JobShape(jobs[p]) /\ jobs[p].stage = "claim" /\ UNCHANGED landed
  BY DEF LedgerInv, Claim, TypeInv, TypeOK
<1>2. PICK l \in jobs[p].key :
        IF Claimed(l) THEN Step(p, Idle) /\ UNCHANGED batches
        ELSE /\ batches' = [batches EXCEPT ![l] = [status |-> "IN_PROGRESS", recorded |-> <<>>]]
             /\ Step(p, reading)
  BY DEF Claim
<1>3. l \in Key /\ (k \in jobs[p].key => k = l)
  BY <1>1, <1>2, OneKey
<1>4. KeyHolds(k) /\ KeyHolds(l)
  BY <1>3 DEF LedgerInv
<1>5. reading.stage = "read" /\ reading.key = jobs[p].key /\ reading.done = jobs[p].done
  BY <1>1 DEF Job
<1> HIDE DEF reading
<1>6. CASE Claimed(l)
  <2>1. jobs' = [jobs EXCEPT ![p] = Idle] /\ UNCHANGED batches
    BY <1>2, <1>6 DEF Step
  <2>2. NothingNewUnder(k)
    BY <1>1, <2>1, JobMovesOn, IdleHasNoKey
  <2>3. QED
    BY <1>4, <2>2, KeyKept DEF NothingNewUnder
<1>7. CASE ~Claimed(l)
  <2>1. /\ batches' = [batches EXCEPT ![l] = [status |-> "IN_PROGRESS", recorded |-> <<>>]]
        /\ jobs' = [jobs EXCEPT ![p] = reading]
    BY <1>2, <1>7 DEF Step
  <2>2. jobs'[p] = reading /\ \A q \in Process : q # p => jobs'[q] = jobs[q]
    BY <1>1, <2>1 DEF TypeInv, TypeOK
  <2>3. batches[l] = NoBatch
    BY <1>7 DEF Claimed
  <2>4. CASE k # l
    <3>1. batches'[k] = batches[k]
      BY <1>1, <1>3, <2>1, <2>4 DEF TypeInv, TypeOK
    <3>2. NothingNewUnder(k)
      BY <1>1, <1>3, <1>5, <2>2, <2>4, <3>1 DEF NothingNewUnder, NothingToRecord, MovesLanded
    <3>3. QED
      BY <1>4, <3>2, KeyKept DEF NothingNewUnder
  <2>5. CASE k = l
    <3>1. batches'[k] = [status |-> "IN_PROGRESS", recorded |-> <<>>]
      BY <1>1, <2>1, <2>5 DEF TypeInv, TypeOK
    <3>2. MovesLanded(k)' = <<>> /\ Working(k) = {}
      BY <1>1, <1>4, <2>3, <2>5 DEF KeyHolds, NoBatch, MovesLanded
    <3>3. Working(k)' \subseteq {p}
      BY <2>2, <3>2 DEF Working
    <3>4. jobs'[p].done = <<>>
      BY <1>1, <1>5, <2>2 DEF JobShape
    <3>5. QED
      BY <3>1, <3>2, <3>3, <3>4 DEF KeyHolds
  <2>6. QED
    BY <2>4, <2>5
<1>8. QED
  BY <1>6, <1>7

(* An accepted confirm does to the calendar what its plan says: the slots it *)
(* adds were free and those it takes away are its own.                       *)
LEMMA PlanIsChange ==
  ASSUME TypeInv, NEW p \in Process, Apply(p)
  PROVE  Came(visits') = jobs[p].plan.adds /\ Gone(visits') = jobs[p].plan.removals
<1> DEFINE plan == jobs[p].plan
<1>1. /\ jobs[p].stage = "apply" /\ visits' = Written(plan)
      /\ StillOurs(plan, jobs[p].stale) /\ SlotsFree(plan)
  BY DEF Apply, Accepted
<1>2. plan \in Plans /\ \A s \in Touched(plan) : s[1] \in DOMAIN plan.minutes
  BY <1>1 DEF TypeInv, TypeOK, Job, JobShape
<1>3. /\ plan.adds \subseteq Slot /\ plan.removals \subseteq Slot
      /\ \A a \in DOMAIN plan.minutes : plan.minutes[a] # 0
  BY <1>2 DEF Plans, Partial
<1>4. /\ \A s \in plan.updates \cup plan.removals : Exists(visits[s[1]][s[2]])
      /\ \A s \in plan.adds : ~Exists(visits[s[1]][s[2]])
  BY <1>1 DEF StillOurs, SlotsFree
<1> HIDE DEF plan
<1>5. ASSUME NEW a \in Agreement, NEW d \in Day
      PROVE  /\ <<a, d>> \in plan.adds <=> ~Exists(visits[a][d]) /\ Exists(Written(plan)[a][d])
             /\ <<a, d>> \in plan.removals <=> Exists(visits[a][d]) /\ ~Exists(Written(plan)[a][d])
  <2>1. /\ <<a, d>> \in plan.adds => ~Exists(visits[a][d])
        /\ <<a, d>> \in plan.updates \cup plan.removals => Exists(visits[a][d])
    BY <1>4
  <2>2. CASE <<a, d>> \in plan.removals
    <3>1. Written(plan)[a][d] = NoVisit
      BY <2>2 DEF Written
    <3>2. QED
      BY <2>1, <2>2, <3>1 DEF Exists
  <2>3. CASE <<a, d>> \notin plan.removals /\ <<a, d>> \in plan.adds \cup plan.updates
    <3>1. Written(plan)[a][d] = [held |-> FALSE, moved |-> FALSE, minutes |-> plan.minutes[a]]
      BY <2>3 DEF Written
    <3>2. plan.minutes[a] # 0
      <4>1. <<a, d>> \in Touched(plan)
        BY <2>3 DEF Touched
      <4>2. QED
        BY <1>2, <1>3, <4>1
    <3>3. Exists(Written(plan)[a][d])
      BY <3>1, <3>2 DEF Exists, NoVisit
    <3>4. QED
      BY <2>1, <2>3, <3>3
  <2>4. CASE <<a, d>> \notin Touched(plan)
    <3>1. Written(plan)[a][d] = visits[a][d]
      BY <2>4 DEF Written, Touched
    <3>2. QED
      BY <2>4, <3>1 DEF Touched
  <2>5. QED
    BY <2>2, <2>3, <2>4 DEF Touched
<1>6. ASSUME NEW s \in Slot
      PROVE  /\ s \in plan.adds <=> ~Exists(visits[s[1]][s[2]]) /\ Exists(Written(plan)[s[1]][s[2]])
             /\ s \in plan.removals <=> Exists(visits[s[1]][s[2]]) /\ ~Exists(Written(plan)[s[1]][s[2]])
  <2>1. s[1] \in Agreement /\ s[2] \in Day /\ s = <<s[1], s[2]>>
    BY DEF Slot
  <2>2. QED
    BY <1>5, <2>1
<1>7. Came(visits') = plan.adds /\ Gone(visits') = plan.removals
  BY <1>1, <1>3, <1>6 DEF Came, Gone
<1>8. QED
  BY <1>7 DEF plan

(* What a confirm lands under a key, and which move of it is to be named. *)
LEMMA ApplyLands ==
  ASSUME TypeInv, NEW p \in Process, Apply(p), NEW k \in Key
  PROVE  MovesLanded(k)' =
           IF k \in jobs[p].key /\ Moved(jobs[p].plan) > 0
           THEN Append(MovesLanded(k), [ask |-> jobs[p].todo[1], moved |-> Moved(jobs[p].plan)])
           ELSE MovesLanded(k)
<1> DEFINE plan == jobs[p].plan
           ask == jobs[p].todo[1]
           change == [ask |-> ask, moved |-> Moved(plan)]
<1>1. landed'[k] = IF visits' # visits /\ k \in jobs[p].key
                   THEN Append(landed[k], Change(ask, visits')) ELSE landed[k]
  BY DEF Apply
<1>2. jobs[p].stage = "apply" /\ jobs[p] \in Job /\ JobShape(jobs[p]) /\ landed[k] \in Seq(Move)
  BY DEF TypeInv, TypeOK, Apply
<1>3. ask \in Ask /\ plan \in Plans
  BY <1>2 DEF Job, JobShape
<1>4. Change(ask, visits') = change
  BY PlanIsChange DEF Change, Moved
<1>5. change \in Move /\ Moved(plan) \in Nat
  BY <1>3, MovedIsANumber DEF Move
<1>6. visits' = visits => Moved(plan) = 0
  <2>1. SUFFICES ASSUME visits' = visits PROVE Moved(plan) = 0
    OBVIOUS
  <2>2. plan.adds = {} /\ plan.removals = {}
    BY <2>1, PlanIsChange DEF Came, Gone
  <2>3. QED
    BY <2>2, FS_EmptySet DEF Moved, Lesser
<1> HIDE DEF plan, ask
<1>7. MovesIn(Append(landed[k], change)) =
        IF Moved(plan) > 0 THEN Append(MovesIn(landed[k]), change) ELSE MovesIn(landed[k])
  <2> HIDE DEF change
  <2>1. MovesIn(Append(landed[k], change)) =
          IF change.moved > 0 THEN Append(MovesIn(landed[k]), change) ELSE MovesIn(landed[k])
    BY <1>2, <1>5, MovesInGrows
  <2>2. change.moved = Moved(plan)
    BY DEF change
  <2>3. QED
    BY <2>1, <2>2
<1>8. MovesIn(landed'[k]) = IF k \in jobs[p].key /\ Moved(plan) > 0
                            THEN Append(MovesIn(landed[k]), change) ELSE MovesIn(landed[k])
  <2> HIDE DEF change
  <2> QED
    BY <1>1, <1>4, <1>5, <1>6, <1>7
<1>9. QED
  BY <1>8 DEF MovesLanded, plan, ask

LEMMA ApplyKeepsLedger ==
  ASSUME LedgerInv, NEW p \in Process, Apply(p), NEW k \in Key
  PROVE  KeyHolds(k)'
<1> DEFINE job == jobs[p]
           slots == job.plan.adds \cup job.plan.updates \cup job.plan.removals
           moved == job.kind = "repair" /\ Moved(job.plan) > 0
           move == [ask |-> job.todo[1], moved |-> Moved(job.plan)]
           recording == [job EXCEPT !.stage = "record", !.done = Append(@, move),
                                    !.plan = NoPlan, !.steady = FALSE]
           after == IF moved THEN recording ELSE Following(job)
<1>1. job.stage = "apply" /\ jobs' = [Staled(slots) EXCEPT ![p] = after] /\ UNCHANGED batches
  BY DEF Apply
<1>2. TypeInv /\ KeyHolds(k) /\ job \in Job /\ JobShape(job)
  BY DEF LedgerInv, TypeInv, TypeOK
<1>3. job.todo # <<>> /\ (job.kind = "repair" <=> job.key # {})
  BY <1>1, <1>2 DEF JobShape
<1>4. move \in Move
  BY <1>2, <1>3, MovedIsANumber DEF Job, Move
<1>5. recording.stage = "record" /\ recording.key = job.key /\ recording.done = Append(job.done, move)
  BY <1>2 DEF Job
<1>6. /\ job.kind = "repair" => /\ Following(job).stage \in {"read", "complete"}
                                /\ Following(job).key = job.key /\ Following(job).done = job.done
      /\ job.kind # "repair" => Following(job).key = {}
  BY <1>1, <1>2, <1>3, FollowingKeeps
<1>7. MovesLanded(k)' = IF k \in job.key /\ Moved(job.plan) > 0 THEN Append(MovesLanded(k), move)
                        ELSE MovesLanded(k)
  BY <1>2, ApplyLands
<1> HIDE DEF recording, slots, move
<1>8. /\ jobs'[p] = after
      /\ \A q \in Process : q # p => /\ jobs'[q].stage = jobs[q].stage /\ jobs'[q].key = jobs[q].key
                                     /\ jobs'[q].done = jobs[q].done
  BY <1>1, <1>2, StaledKeeps
<1>9. CASE ~(moved /\ k \in job.key)
  <2>1. MovesLanded(k)' = MovesLanded(k) /\ batches'[k] = batches[k]
    BY <1>1, <1>3, <1>7, <1>9
  <2>2. k \in after.key => /\ k \in job.key /\ after.done = job.done /\ after.stage # "record"
    BY <1>3, <1>5, <1>6, <1>9
  <2> HIDE DEF after, moved
  <2>3. NothingToRecord(k)
    BY <1>1, <1>8, <2>1, <2>2 DEF NothingToRecord
  <2>4. QED
    BY <1>2, <2>3, KeyKept
<1>10. CASE moved /\ k \in job.key
  <2>1. /\ after.stage = "record" /\ after.key = job.key /\ after.done = Append(job.done, move)
    BY <1>5, <1>10
  <2>2. MovesLanded(k)' = Append(MovesLanded(k), move) /\ batches'[k] = batches[k]
    BY <1>1, <1>7, <1>10
  <2> HIDE DEF after, moved
  <2>3. p \in Working(k)
    BY <1>1, <1>10 DEF Working
  <2>4. /\ batches[k].status = "IN_PROGRESS" /\ MovesLanded(k) = job.done /\ job.done = batches[k].recorded
        /\ Working(k) = {p}
    BY <1>1, <1>2, <2>3 DEF KeyHolds
  <2>5. Working(k)' \subseteq {p}
    BY <1>8, <2>4 DEF Working
  <2> HIDE DEF job
  <2>6. batches'[k].status = "IN_PROGRESS"
    BY <2>2, <2>4
  <2>7. MovesLanded(k)' = Append(batches'[k].recorded, move) /\ MovesLanded(k)' = jobs'[p].done
    BY <1>8, <2>1, <2>2, <2>4
  <2>8. jobs'[p].stage = "record"
    BY <1>8, <2>1
  <2>9. QED
    BY <1>4, <2>5, <2>6, <2>7, <2>8 DEF KeyHolds
<1>11. QED
  BY <1>9, <1>10

(* Writing the ledger: the one who works under a key writes what it has done. *)
LEMMA LedgerWritten ==
  ASSUME LedgerInv, NEW p \in Process, NEW status \in {"IN_PROGRESS", "COMPLETED", "FAILED"}, NEW j,
         Ledger(p, status, jobs[p].done), jobs' = [jobs EXCEPT ![p] = j], jobs[p].stage # "claim",
         j.key \subseteq jobs[p].key,
         j.key # {} => status = "IN_PROGRESS" /\ j.stage # "claim" /\ j.stage # "record"
                       /\ j.done = jobs[p].done,
         NEW k \in Key
  PROVE  KeyHolds(k)'
<1>1. TypeInv /\ KeyHolds(k)
  BY DEF LedgerInv
<1>2. jobs'[p] = j /\ \A q \in Process : q # p => jobs'[q] = jobs[q]
  BY <1>1 DEF TypeInv, TypeOK
<1>3. /\ batches'[k] = IF k \in jobs[p].key THEN [status |-> status, recorded |-> jobs[p].done] ELSE batches[k]
      /\ MovesLanded(k)' = MovesLanded(k)
  BY DEF Ledger, MovesLanded
<1>4. CASE k \notin jobs[p].key
  <2>1. NothingToRecord(k)
    BY <1>2, <1>3, <1>4 DEF NothingToRecord
  <2>2. QED
    BY <1>1, <2>1, KeyKept
<1>5. CASE k \in jobs[p].key
  <2>1. p \in Working(k)
    BY <1>5 DEF Working
  <2>2. Working(k) = {p} /\ MovesLanded(k) = jobs[p].done
    BY <1>1, <2>1 DEF KeyHolds
  <2>3. Working(k)' \subseteq {p} /\ (j.key = {} => Working(k)' = {})
    BY <1>2, <2>2 DEF Working
  <2>4. batches'[k].status = status /\ batches'[k].recorded = MovesLanded(k)' /\ MovesLanded(k)' = jobs[p].done
    BY <1>3, <1>5, <2>2
  <2>5. Working(k)' # {} => status = "IN_PROGRESS" /\ jobs'[p].done = MovesLanded(k)'
    BY <1>2, <2>3, <2>4
  <2>6. QED
    BY <2>3, <2>4, <2>5 DEF KeyHolds
<1>6. QED
  BY <1>4, <1>5

LEMMA WritingKeepsLedger ==
  ASSUME LedgerInv, NEW p \in Process, RecordMove(p) \/ FailBatch(p) \/ CompleteBatch(p), NEW k \in Key
  PROVE  KeyHolds(k)'
<1>1. TypeInv /\ jobs[p] \in Job /\ JobShape(jobs[p])
  BY DEF LedgerInv, TypeInv, TypeOK
<1>2. CASE RecordMove(p)
  <2>1. /\ jobs[p].stage = "record" /\ jobs' = [jobs EXCEPT ![p] = Following(jobs[p])]
        /\ Ledger(p, "IN_PROGRESS", jobs[p].done)
    BY <1>2 DEF RecordMove, Step
  <2>2. jobs[p].kind = "repair" /\ jobs[p].todo # <<>>
    BY <1>1, <2>1 DEF JobShape
  <2>3. /\ Following(jobs[p]).stage \in {"read", "complete"}
        /\ Following(jobs[p]).key = jobs[p].key /\ Following(jobs[p]).done = jobs[p].done
    BY <1>1, <2>1, <2>2, FollowingKeeps
  <2>4. QED
    BY <2>1, <2>3, LedgerWritten
<1>3. CASE FailBatch(p)
  BY <1>3, LedgerWritten, IdleHasNoKey DEF FailBatch, Step, SoFar
<1>4. CASE CompleteBatch(p)
  BY <1>4, LedgerWritten, IdleHasNoKey DEF CompleteBatch, Step
<1>5. QED
  BY <1>2, <1>3, <1>4

LEMMA LedgerStays ==
  ASSUME LedgerInv, [Next]_vars
  PROVE  LedgerInv'
<1>1. TypeInv'
  BY NextTypes DEF LedgerInv
<1>2. ASSUME NEW k \in Key PROVE KeyHolds(k)'
  <2>1. TypeInv /\ KeyHolds(k)
    BY DEF LedgerInv
  <2>2. CASE UNCHANGED vars
    BY <2>1, <2>2, KeyKept DEF vars, NothingToRecord, MovesLanded
  <2>3. NothingNewUnder(k) => KeyHolds(k)'
    BY <2>1, KeyKept DEF NothingNewUnder
  <2>4. CASE Next
    BY <2>1, <2>3, <2>4, QuietSteps, BeginsWithoutWork, ReadsLeaveTheLedger, RefusalLeavesTheLedger,
       CrashLeavesTheLedger, ClaimKeepsLedger, ApplyKeepsLedger, WritingKeepsLedger DEF Next
  <2>5. QED
    BY <2>2, <2>4
<1>3. QED
  BY <1>1, <1>2 DEF LedgerInv

(* Once a batch is closed nobody works under its key again. *)
LEMMA ClosedStays ==
  ASSUME LedgerInv, [Next]_vars, NEW k \in Key, Closed(k)
  PROVE  batches'[k] = batches[k] /\ landed'[k] = landed[k]
<1>1. TypeInv /\ KeyHolds(k)
  BY DEF LedgerInv
<1>2. Working(k) = {} /\ batches[k] # NoBatch
  BY <1>1 DEF KeyHolds, Closed, NoBatch
<1>3. CASE UNCHANGED vars
  BY <1>3 DEF vars
<1>4. ASSUME NEW p \in Process, Claim(p)
      PROVE  batches'[k] = batches[k] /\ landed'[k] = landed[k]
  <2>1. PICK l \in jobs[p].key :
          \/ UNCHANGED batches
          \/ ~Claimed(l) /\ batches' = [batches EXCEPT ![l] = [status |-> "IN_PROGRESS", recorded |-> <<>>]]
    BY <1>4 DEF Claim
  <2>2. l # k \/ UNCHANGED batches
    BY <1>2, <2>1 DEF Claimed
  <2>3. batches \in [Key -> Batch] /\ UNCHANGED landed
    BY <1>1, <1>4 DEF TypeInv, TypeOK, Claim
  <2>4. QED
    BY <2>1, <2>2, <2>3
<1>5. ASSUME NEW p \in Process, Apply(p)
      PROVE  batches'[k] = batches[k] /\ landed'[k] = landed[k]
  <2>1. k \notin jobs[p].key
    BY <1>2, <1>5 DEF Working, Apply
  <2>2. QED
    BY <1>5, <2>1 DEF Apply
<1>6. ASSUME NEW p \in Process, RecordMove(p) \/ FailBatch(p) \/ CompleteBatch(p)
      PROVE  batches'[k] = batches[k] /\ landed'[k] = landed[k]
  <2>1. k \notin jobs[p].key
    BY <1>2, <1>6 DEF Working, RecordMove, FailBatch, CompleteBatch
  <2>2. QED
    BY <1>6, <2>1 DEF RecordMove, FailBatch, CompleteBatch, Ledger
<1>7. CASE Next
  BY <1>1, <1>4, <1>5, <1>6, <1>7, QuietSteps, BeginsWithoutWork, ReadsLeaveTheLedger,
     RefusalLeavesTheLedger, CrashLeavesTheLedger DEF Next, NothingNewUnder, NothingToRecord
<1>8. QED
  BY <1>3, <1>7

LEMMA AtMostOne ==
  ASSUME NEW S, \A x, y \in S : x = y
  PROVE  Cardinality(S) <= 1
<1>1. CASE S = {}
  BY <1>1, FS_EmptySet
<1>2. CASE S # {}
  <2>1. PICK x \in S : S = {x}
    BY <1>2
  <2>2. QED
    BY <2>1, FS_Singleton
<1>3. QED
  BY <1>1, <1>2

LEMMA AppendExtends ==
  ASSUME NEW s \in Seq(Move), NEW e \in Move, NEW t, t = s \/ t = Append(s, e)
  PROVE  IsPrefix(s, t) /\ Len(t) <= Len(s) + 1
<1>1. Len(t) \in Nat /\ Len(s) <= Len(t) /\ Len(t) <= Len(s) + 1
  OBVIOUS
<1>2. SubSeq(s, 1, Len(s)) = SubSeq(t, 1, Len(s))
  OBVIOUS
<1>3. QED
  BY <1>1, <1>2 DEF IsPrefix

LEMMA LedgerTells ==
  ASSUME LedgerInv, [Next]_vars, NEW k \in Key
  PROVE  /\ IsPrefix(batches'[k].recorded, MovesLanded(k)')
         /\ Len(MovesLanded(k)') <= Len(batches'[k].recorded) + 1
         /\ Closed(k)' => batches'[k].recorded = MovesLanded(k)'
         /\ Cardinality(Working(k)') <= 1
<1>1. LedgerInv'
  BY LedgerStays
<1>2. KeyHolds(k)' /\ batches'[k] \in Batch
  BY <1>1 DEF LedgerInv, TypeInv, TypeOK
<1>3. batches'[k].recorded \in Seq(Move)
  BY <1>2 DEF Batch
<1>4. \/ MovesLanded(k)' = batches'[k].recorded
      \/ \E e \in Move : MovesLanded(k)' = Append(batches'[k].recorded, e)
  BY <1>2 DEF KeyHolds
<1>5. /\ IsPrefix(batches'[k].recorded, MovesLanded(k)')
      /\ Len(MovesLanded(k)') <= Len(batches'[k].recorded) + 1
  <2>1. CASE MovesLanded(k)' = batches'[k].recorded
    <3>1. Len(MovesLanded(k)') \in Nat
      BY <1>3, <2>1
    <3>2. QED
      BY <2>1, <3>1 DEF IsPrefix
  <2>2. CASE \E e \in Move : MovesLanded(k)' = Append(batches'[k].recorded, e)
    BY <1>3, <2>2, AppendExtends
  <2>3. QED
    BY <1>4, <2>1, <2>2
<1>6. Closed(k)' => batches'[k].recorded = MovesLanded(k)'
  BY <1>2 DEF KeyHolds, Closed
<1>7. Cardinality(Working(k)') <= 1
  <2>1. \A p, q \in Working(k)' : p = q
    BY <1>2 DEF KeyHolds
  <2>2. QED
    BY <2>1, AtMostOne
<1>8. QED
  BY <1>5, <1>6, <1>7

(* Whatever crashes, fails, races for a key or is sent again, a repair's     *)
(* ledger is the moves its confirms made on the calendar, short of one while *)
(* it is open, and exactly those once it is closed.                          *)
THEOREM LedgerIsTrue == Spec => []LedgerInv
<1>1. Init => LedgerInv
  <2>1. SUFFICES ASSUME Init, NEW k \in Key PROVE KeyHolds(k)
    BY InitTypes DEF LedgerInv
  <2>2. batches[k] = NoBatch /\ MovesLanded(k) = <<>> /\ Working(k) = {}
    BY <2>1, IdleHasNoKey, MovesInGrows DEF Init, Working, MovesLanded
  <2>3. QED
    BY <2>2 DEF KeyHolds, NoBatch
<1>2. LedgerInv /\ [Next]_vars => LedgerInv'
  BY LedgerStays
<1>3. QED
  BY <1>1, <1>2, PTL DEF Spec

(* One key applies one plan (applyBunchingRepair and the rows it keeps): the *)
(* ledger never claims a move that the calendar did not make nor loses one,  *)
(* and a repeated request is told the same for good.                         *)
THEOREM LedgerTellsTheTruth == Spec => LedgerTellsWhatLanded
<1>1. LedgerInv /\ [Next]_vars =>
        [\A k \in Key :
           /\ IsPrefix(batches'[k].recorded, MovesLanded(k)')
           /\ Len(MovesLanded(k)') <= Len(batches'[k].recorded) + 1
           /\ Closed(k)' => batches'[k].recorded = MovesLanded(k)'
           /\ Cardinality(Working(k)') <= 1
           /\ Closed(k) => /\ ReplayOrReject(batches[k])' = ReplayOrReject(batches[k])
                           /\ landed'[k] = landed[k]]_vars
  <2>1. SUFFICES ASSUME LedgerInv, [Next]_vars, NEW k \in Key
        PROVE  /\ IsPrefix(batches'[k].recorded, MovesLanded(k)')
               /\ Len(MovesLanded(k)') <= Len(batches'[k].recorded) + 1
               /\ Closed(k)' => batches'[k].recorded = MovesLanded(k)'
               /\ Cardinality(Working(k)') <= 1
               /\ Closed(k) => /\ ReplayOrReject(batches[k])' = ReplayOrReject(batches[k])
                               /\ landed'[k] = landed[k]
    OBVIOUS
  <2>2. Closed(k) => batches'[k] = batches[k] /\ landed'[k] = landed[k]
    BY <2>1, ClosedStays
  <2>3. Closed(k) => ReplayOrReject(batches[k])' = ReplayOrReject(batches[k])
    BY <2>2 DEF ReplayOrReject
  <2>4. QED
    BY <2>1, <2>2, <2>3, LedgerTells
<1>2. QED
  BY <1>1, LedgerIsTrue, PTL DEF Spec, LedgerTellsWhatLanded

-----------------------------------------------------------------------------
(* Adding keeps the cap.                                                   *)

(* Agreements keep their crew-minutes: whatever terms somebody agrees to for *)
(* one, a visit of it takes as many, and so do the visits that stood before. *)
CrewMinutesKept ==
  /\ \A a \in Agreement : \A t \in TermsOf[a] : t.minutes = CrewMinutes(a)
  /\ \A s \in Starts : Weighed(s.visits)

PlanWeighed(plan) == \A a \in DOMAIN plan.minutes : plan.minutes[a] = CrewMinutes(a)

(* A plan still to be applied left room on the days it adds unbooked work to. *)
RoomForPlan(j) == j.stage = "apply" => PlanWeighed(j.plan) /\ (j.steady => RoomWasMade(j.plan))

CapInv ==
  /\ TypeInv
  /\ Weighed(visits)
  /\ \A p \in Process : RoomForPlan(jobs[p])

LEMMA InitHasRoom ==
  ASSUME CrewMinutesKept, Init
  PROVE  CapInv
<1>1. TypeInv
  BY InitTypes
<1>2. Weighed(visits)
  BY DEF Init, CrewMinutesKept
<1>3. \A p \in Process : jobs[p].stage = "idle"
  BY DEF Init, Idle
<1>4. QED
  BY <1>1, <1>2, <1>3 DEF CapInv, RoomForPlan

(* Managers keep, release and move visits as they are. *)
LEMMA HandsKeepWeights ==
  ASSUME CapInv,
         \/ \E a \in Agreement, d \in Day : Hold(a, d) \/ Release(a, d)
         \/ \E a \in Agreement, d, e \in Day : MoveByHand(a, d, e)
  PROVE  Weighed(visits')
<1>0. visits \in Calendar /\ Weighed(visits)
  BY DEF CapInv, TypeInv, TypeOK
<1>1. ASSUME NEW a \in Agreement, NEW d \in Day, Hold(a, d) \/ Release(a, d)
      PROVE  Weighed(visits')
  <2>1. Exists(visits[a][d])
    BY <1>1 DEF Hold, Release, Exists, NoVisit
  <2>2. PICK b \in BOOLEAN : visits' = [visits EXCEPT ![a][d].held = b]
    BY <1>1 DEF Hold, Release, ByHand
  <2>3. visits[a][d].minutes = CrewMinutes(a) /\ visits[a][d] \in Row
    BY <1>0, <2>1 DEF Weighed, Calendar
  <2>4. visits'[a][d].minutes = visits[a][d].minutes
    BY <1>0, <2>2, <2>3 DEF Calendar, Row
  <2>5. ASSUME NEW b_ \in Agreement, NEW e \in Day, Exists(visits'[b_][e])
        PROVE  visits'[b_][e].minutes = CrewMinutes(b_)
    <3>1. CASE b_ = a /\ e = d
      BY <2>3, <2>4, <3>1
    <3>2. CASE ~(b_ = a /\ e = d)
      <4>1. visits'[b_][e] = visits[b_][e]
        BY <1>0, <2>2, <3>2 DEF Calendar
      <4>2. QED
        BY <1>0, <2>5, <4>1 DEF Weighed
    <3>3. QED
      BY <3>1, <3>2
  <2>6. QED
    BY <2>5 DEF Weighed
<1>2. ASSUME NEW a \in Agreement, NEW d \in Day, NEW e \in Day, MoveByHand(a, d, e)
      PROVE  Weighed(visits')
  <2> DEFINE row == [visits[a][d] EXCEPT !.held = TRUE, !.moved = TRUE]
  <2>1. /\ Exists(visits[a][d]) /\ d # e
        /\ visits' = [visits EXCEPT ![a][d] = NoVisit, ![a][e] = row]
    BY <1>2 DEF MoveByHand, ByHand
  <2>2. row.minutes = CrewMinutes(a)
    BY <1>0, <2>1 DEF Weighed, Calendar, Row
  <2> HIDE DEF row
  <2>3. ASSUME NEW b \in Agreement, NEW c \in Day, Exists(visits'[b][c])
        PROVE  visits'[b][c].minutes = CrewMinutes(b)
    <3>1. visits'[b][c] = IF b = a /\ c = e THEN row
                          ELSE IF b = a /\ c = d THEN NoVisit ELSE visits[b][c]
      BY <1>0, <2>1 DEF Calendar
    <3>2. QED
      BY <1>0, <2>2, <2>3, <3>1 DEF Weighed, Exists
  <2>4. QED
    BY <2>3 DEF Weighed
<1>3. QED
  BY <1>1, <1>2

(* What a confirm writes weighs what its agreements do. *)
LEMMA WrittenWeighs ==
  ASSUME CapInv, NEW p \in Process, jobs[p].stage = "apply"
  PROVE  Weighed(Written(jobs[p].plan))
<1> DEFINE plan == jobs[p].plan
<1>1. /\ PlanWeighed(plan) /\ \A s \in Touched(plan) : s[1] \in DOMAIN plan.minutes
      /\ Weighed(visits)
  BY DEF CapInv, RoomForPlan, TypeInv, JobShape
<1> HIDE DEF plan
<1>2. ASSUME NEW a \in Agreement, NEW d \in Day, Exists(Written(plan)[a][d])
      PROVE  Written(plan)[a][d].minutes = CrewMinutes(a)
  <2>1. CASE <<a, d>> \in plan.removals
    <3>1. Written(plan)[a][d] = NoVisit
      BY <2>1 DEF Written
    <3>2. QED
      BY <1>2, <3>1 DEF Exists
  <2>2. CASE <<a, d>> \notin plan.removals /\ <<a, d>> \in plan.adds \cup plan.updates
    <3>1. Written(plan)[a][d].minutes = plan.minutes[a]
      BY <2>2 DEF Written
    <3>2. <<a, d>> \in Touched(plan)
      BY <2>2 DEF Touched
    <3>3. plan.minutes[a] = CrewMinutes(a)
      BY <1>1, <3>2 DEF PlanWeighed
    <3>4. QED
      BY <3>1, <3>3
  <2>3. CASE <<a, d>> \notin Touched(plan)
    <3>1. Written(plan)[a][d] = visits[a][d]
      BY <2>3 DEF Written, Touched
    <3>2. QED
      BY <1>1, <1>2, <3>1 DEF Weighed
  <2>4. QED
    BY <2>1, <2>2, <2>3 DEF Touched
<1>3. QED
  BY <1>2 DEF Weighed, plan

(* A job that moves on to a stage without a plan. *)
LEMMA OthersKeepTheirRoom ==
  ASSUME CapInv, NEW p \in Process, NEW j, jobs' = [jobs EXCEPT ![p] = j], j.stage # "apply"
  PROVE  \A q \in Process : RoomForPlan(jobs'[q])
<1> TAKE q \in Process
<1>1. jobs'[q] = IF q = p THEN j ELSE jobs[q]
  BY DEF CapInv, TypeInv, TypeOK
<1>2. QED
  BY <1>1 DEF CapInv, RoomForPlan

LEMMA FollowingPlansAfresh ==
  ASSUME NEW j \in Job
  PROVE  Following(j).stage # "apply"
<1> DEFINE rest == [j EXCEPT !.todo = Tail(@), !.plan = NoPlan, !.steady = FALSE, !.stale = {}]
<1>1. Following(j) = IF rest.todo # <<>> THEN [rest EXCEPT !.stage = "read"]
                     ELSE IF j.kind = "repair" THEN [rest EXCEPT !.stage = "complete"] ELSE Idle
  BY DEF Following
<1>2. [rest EXCEPT !.stage = "read"].stage = "read" /\ [rest EXCEPT !.stage = "complete"].stage = "complete"
  BY DEF Job
<1>3. QED
  BY <1>1, <1>2, IdleHasNoKey

(* The steps that write no visit and make no plan. *)
LEMMA MovesWithoutPlans ==
  ASSUME CapInv, NEW p \in Process,
         \/ Confirm(p) \/ Sweep(p) \/ (\E k \in Key : StartRepair(p, k))
         \/ Claim(p) \/ ReadAgreements(p) \/ Refuse(p)
         \/ RecordMove(p) \/ FailBatch(p) \/ CompleteBatch(p) \/ Crash(p)
  PROVE  \A q \in Process : RoomForPlan(jobs'[q])
<1> DEFINE Moves == \E j : jobs' = [jobs EXCEPT ![p] = j] /\ j.stage # "apply"
<1>0. jobs[p] \in Job
  BY DEF CapInv, TypeInv, TypeOK
<1>1. CASE Confirm(p)
  <2>1. PICK ask \in Asks : Begin(p, Reading([Idle EXCEPT !.kind = "confirm", !.todo = <<ask>>]))
    BY <1>1 DEF Confirm
  <2>2. Reading([Idle EXCEPT !.kind = "confirm", !.todo = <<ask>>]).stage = "plan"
    BY DEF Reading, Idle
  <2>3. Moves
    BY <2>1, <2>2 DEF Begin, Step
  <2>4. QED
    BY <2>3, OthersKeepTheirRoom
<1>2. CASE Sweep(p)
  <2> DEFINE j == [Idle EXCEPT !.kind = "sweep", !.stage = "read", !.todo = SweepAsks]
  <2>1. j.stage = "read" /\ Begin(p, j)
    BY <1>2 DEF Sweep, Idle
  <2> HIDE DEF j
  <2>2. Moves
    BY <2>1 DEF Begin, Step
  <2>3. QED
    BY <2>2, OthersKeepTheirRoom
<1>3. ASSUME NEW k \in Key, StartRepair(p, k) PROVE Moves
  <2> DEFINE j == [Idle EXCEPT !.kind = "repair", !.stage = "claim", !.key = {k},
                     !.todo = [i \in DOMAIN reviewed[k].moves |-> reviewed[k].moves[i].ask]]
  <2>1. j.stage = "claim"
    BY DEF Idle
  <2>2. Begin(p, j)
    BY <1>3 DEF StartRepair
  <2> HIDE DEF j
  <2>3. QED
    BY <2>1, <2>2 DEF Begin, Step
<1>4. CASE Claim(p)
  <2>1. [jobs[p] EXCEPT !.stage = "read"].stage = "read"
    BY <1>0 DEF Job
  <2>2. \/ jobs' = [jobs EXCEPT ![p] = Idle]
        \/ jobs' = [jobs EXCEPT ![p] = [jobs[p] EXCEPT !.stage = "read"]]
    BY <1>4 DEF Claim, Step
  <2>3. Moves
    BY <2>1, <2>2, IdleHasNoKey
  <2>4. QED
    BY <2>3, OthersKeepTheirRoom
<1>5. CASE ReadAgreements(p)
  <2>1. Reading(jobs[p]).stage = "plan"
    BY <1>0 DEF Reading, Job
  <2>2. Moves
    BY <1>5, <2>1 DEF ReadAgreements, Step
  <2>3. QED
    BY <2>2, OthersKeepTheirRoom
<1>6. CASE Refuse(p)
  <2> DEFINE failed == [jobs[p] EXCEPT !.stage = "fail", !.plan = NoPlan, !.steady = FALSE, !.stale = {}]
             next == CASE jobs[p].kind = "sweep"  -> Following(jobs[p])
                       [] jobs[p].kind = "repair" -> failed
                       [] OTHER -> Idle
  <2>1. failed.stage = "fail"
    BY <1>0 DEF Job
  <2>2. jobs' = [jobs EXCEPT ![p] = next]
    BY <1>6 DEF Refuse, Step
  <2> HIDE DEF failed
  <2>3. next.stage # "apply"
    BY <1>0, <2>1, FollowingPlansAfresh, IdleHasNoKey
  <2> HIDE DEF next
  <2>4. QED
    BY <2>2, <2>3, OthersKeepTheirRoom
<1>7. CASE RecordMove(p)
  <2>1. jobs' = [jobs EXCEPT ![p] = Following(jobs[p])]
    BY <1>7 DEF RecordMove, Step
  <2>2. QED
    BY <1>0, <2>1, FollowingPlansAfresh, OthersKeepTheirRoom
<1>8. CASE FailBatch(p) \/ CompleteBatch(p) \/ Crash(p)
  <2>1. jobs' = [jobs EXCEPT ![p] = Idle]
    BY <1>8 DEF FailBatch, CompleteBatch, Crash, Step
  <2>2. QED
    BY <2>1, IdleHasNoKey, OthersKeepTheirRoom
<1>9. QED
  BY <1>1, <1>2, <1>3, <1>4, <1>5, <1>6, <1>7, <1>8, OthersKeepTheirRoom

(* A plan made from two reads between which none of its agreements' visits *)
(* changed leaves room for what it adds.                                   *)
LEMMA PlanningMakesRoom ==
  ASSUME CrewMinutesKept, CapInv, NEW p \in Process, ReadRange(p)
  PROVE  \A q \in Process : RoomForPlan(jobs'[q])
<1> DEFINE job == jobs[p]
           ask == job.todo[1]
           plan == PlanOf(ask, job.seen, visits)
           still == \A a \in ask.scope : visits[a] = job.seen.visits[a]
           next == [job EXCEPT !.stage = "apply", !.plan = plan, !.seen = Unread,
                               !.steady = still, !.stale = @ \cap (plan.updates \cup plan.removals)]
<1>1. job.stage = "plan" /\ jobs' = [jobs EXCEPT ![p] = next]
  BY DEF ReadRange, Step
<1>2. job \in Job /\ JobShape(job) /\ visits \in Calendar /\ Weighed(visits)
  BY DEF CapInv, TypeInv, TypeOK
<1>3. job.todo # <<>> /\ job.seen \in Read /\ Promised(job.seen.terms)
  BY <1>1, <1>2 DEF JobShape
<1>4. ask \in Ask
  BY <1>2, <1>3 DEF Job
<1>5. next.plan = plan /\ next.steady = still
  BY <1>2 DEF Job
<1>6. \A a \in Agreement : job.seen.terms[a].minutes = CrewMinutes(a)
  BY <1>3 DEF Promised, CrewMinutesKept
<1>7. PlanWeighed(plan)
  <2> DEFINE touched == DOMAIN plan.minutes
  <2>1. \A a \in touched : plan.minutes[a] = job.seen.terms[a].minutes
    BY DEF PlanOf, Difference
  <2>2. touched \subseteq Agreement
    <3>1. plan \in Plans
      BY <1>2, <1>3, <1>4, PlanOfIsWithin
    <3> HIDE DEF plan
    <3>2. QED
      BY <3>1 DEF Plans, Partial
  <2> HIDE DEF plan
  <2>3. QED
    BY <1>6, <2>1, <2>2 DEF PlanWeighed
<1>8. still => RoomWasMade(plan)
  <2> HIDE DEF ask
  <2>1. QED
    BY <1>2, <1>3, <1>4, <1>6, PlanMakesRoom
<1> HIDE DEF plan, still, next
<1>9. ASSUME NEW q \in Process PROVE RoomForPlan(jobs'[q])
  <2>1. jobs'[q] = IF q = p THEN next ELSE jobs[q]
    BY <1>1 DEF CapInv, TypeInv, TypeOK
  <2>2. QED
    BY <1>5, <1>7, <1>8, <2>1 DEF CapInv, RoomForPlan
<1>10. QED
  BY <1>9

LEMMA ApplyingKeepsRoom ==
  ASSUME CapInv, NEW p \in Process, Apply(p)
  PROVE  \A q \in Process : RoomForPlan(jobs'[q])
<1> DEFINE job == jobs[p]
           slots == job.plan.adds \cup job.plan.updates \cup job.plan.removals
           moved == job.kind = "repair" /\ Moved(job.plan) > 0
           move == [ask |-> job.todo[1], moved |-> Moved(job.plan)]
           recording == [job EXCEPT !.stage = "record", !.done = Append(@, move),
                                    !.plan = NoPlan, !.steady = FALSE]
           after == IF moved THEN recording ELSE Following(job)
<1>1. jobs' = [Staled(slots) EXCEPT ![p] = after]
  BY DEF Apply
<1>2. job \in Job /\ TypeInv
  BY DEF CapInv, TypeInv, TypeOK
<1>3. recording.stage = "record"
  BY <1>2 DEF Job
<1> HIDE DEF recording, moved
<1>4. after.stage # "apply"
  BY <1>2, <1>3, FollowingPlansAfresh
<1> HIDE DEF after, slots
<1>5. ASSUME NEW q \in Process PROVE RoomForPlan(jobs'[q])
  <2>1. Staled(slots) \in [Process -> Job]
    BY <1>2, StaledKeeps
  <2>2. jobs'[q] = IF q = p THEN after ELSE Staled(slots)[q]
    BY <1>1, <2>1
  <2>3. /\ Staled(slots)[q].stage = jobs[q].stage /\ Staled(slots)[q].plan = jobs[q].plan
        /\ Staled(slots)[q].steady = jobs[q].steady
    BY <1>2, StaledKeeps
  <2>4. RoomForPlan(jobs[q])
    BY DEF CapInv
  <2>5. QED
    BY <1>4, <2>2, <2>3, <2>4 DEF RoomForPlan
<1>6. QED
  BY <1>5

LEMMA NextKeepsRoom ==
  ASSUME CrewMinutesKept, CapInv, [Next]_vars
  PROVE  CapInv'
<1>1. TypeInv'
  BY NextTypes DEF CapInv
<1>2. ASSUME Weighed(visits'), \A p \in Process : RoomForPlan(jobs'[p])
      PROVE  CapInv'
  <2>1. Weighed(visits)' /\ (\A p \in Process : RoomForPlan(jobs[p]))'
    BY <1>2 DEF Weighed, RoomForPlan, RoomWasMade, PlanWeighed, UnbookedDays, AddedTo, FreedFrom, CrewMinutes
  <2>2. QED
    BY <1>1, <2>1 DEF CapInv
<1>3. CASE UNCHANGED vars
  <2>1. visits' = visits /\ jobs' = jobs
    BY <1>3 DEF vars
  <2>2. QED
    BY <1>2, <2>1 DEF CapInv
<1>4. ASSUME NEW slots, NEW new, ByHand(slots, new)
      PROVE  \A p \in Process : RoomForPlan(jobs'[p])
  <2> TAKE p \in Process
  <2>1. /\ Staled(slots)[p].stage = jobs[p].stage /\ Staled(slots)[p].plan = jobs[p].plan
        /\ Staled(slots)[p].steady = jobs[p].steady
    BY StaledKeeps DEF CapInv
  <2>2. jobs' = Staled(slots)
    BY <1>4 DEF ByHand
  <2>3. QED
    BY <2>1, <2>2 DEF CapInv, RoomForPlan
<1>5. CASE \/ \E a \in Agreement, d \in Day : Hold(a, d) \/ Release(a, d)
           \/ \E a \in Agreement, d, e \in Day : MoveByHand(a, d, e)
  <2>1. Weighed(visits')
    BY <1>5, HandsKeepWeights
  <2>2. \E slots, new : ByHand(slots, new)
    BY <1>5 DEF Hold, Release, MoveByHand
  <2>3. QED
    BY <1>2, <1>4, <2>1, <2>2
<1>6. CASE \/ \E a \in Agreement : EditTerms(a) \/ EditHours(a)
           \/ \E k \in Key : Review(k)
  <2>1. visits' = visits /\ jobs' = jobs
    BY <1>6 DEF EditTerms, EditHours, Review
  <2>2. QED
    BY <1>2, <2>1 DEF CapInv
<1>7. ASSUME NEW p \in Process,
             \/ Confirm(p) \/ Sweep(p) \/ (\E k \in Key : StartRepair(p, k))
             \/ Claim(p) \/ ReadAgreements(p) \/ Refuse(p)
             \/ RecordMove(p) \/ FailBatch(p) \/ CompleteBatch(p) \/ Crash(p)
      PROVE  CapInv'
  <2>1. visits' = visits
    BY <1>7 DEF Confirm, Sweep, StartRepair, Begin, Claim, ReadAgreements, Refuse, RecordMove,
       FailBatch, CompleteBatch, Ledger, Crash
  <2>2. \A q \in Process : RoomForPlan(jobs'[q])
    BY <1>7, MovesWithoutPlans
  <2>3. QED
    BY <1>2, <2>1, <2>2 DEF CapInv
<1>8. ASSUME NEW p \in Process, ReadRange(p) PROVE CapInv'
  <2>1. visits' = visits
    BY <1>8 DEF ReadRange
  <2>2. QED
    BY <1>2, <1>8, <2>1, PlanningMakesRoom DEF CapInv
<1>9. ASSUME NEW p \in Process, Apply(p) PROVE CapInv'
  <2>1. visits' = Written(jobs[p].plan) /\ jobs[p].stage = "apply"
    BY <1>9 DEF Apply
  <2>2. Weighed(visits')
    BY <2>1, WrittenWeighs
  <2>3. QED
    BY <1>2, <1>9, <2>2, ApplyingKeepsRoom
<1>10. CASE Next
  BY <1>10, <1>5, <1>6, <1>7, <1>8, <1>9 DEF Next
<1>11. QED
  BY <1>3, <1>10

(* What the transaction counts as added to a day and freed there. *)
LEMMA RoomIsCounted ==
  ASSUME NEW plan \in Plans, PlanWeighed(plan), \A s \in Touched(plan) : s[1] \in DOMAIN plan.minutes,
         NEW d \in Day, visits \in Calendar, Weighed(visits),
         \A s \in plan.removals : Exists(visits[s[1]][s[2]])
  PROVE  LET added == MapThenSumSet(LAMBDA s : plan.minutes[s[1]], {s \in plan.adds : s[2] = d})
             freed == MapThenSumSet(LAMBDA s : visits[s[1]][d].minutes, {s \in plan.removals : s[2] = d})
         IN  /\ added \in Nat /\ freed \in Nat
             /\ Sum(AddedTo(plan, d), Agreement) <= added
             /\ freed <= Sum(FreedFrom(plan, d), Agreement)
<1> DEFINE A == {s \in plan.adds : s[2] = d}
           R == {s \in plan.removals : s[2] = d}
           f == [s \in A |-> plan.minutes[s[1]]]
           h == [s \in R |-> visits[s[1]][d].minutes]
           FirstA(i) == [s \in SUBSET A |-> IF s = {} THEN 0
                           ELSE LET x == CHOOSE x \in s : TRUE IN plan.minutes[x[1]] + i[s \ {x}]]
           SecondA(i) == [s \in SUBSET A |-> IF s = {} THEN 0
                            ELSE LET x == CHOOSE x \in s : TRUE IN f[x] + i[s \ {x}]]
           FirstR(i) == [s \in SUBSET R |-> IF s = {} THEN 0
                           ELSE LET x == CHOOSE x \in s : TRUE
                                IN  visits[x[1]][d].minutes + i[s \ {x}]]
           SecondR(i) == [s \in SUBSET R |-> IF s = {} THEN 0
                            ELSE LET x == CHOOSE x \in s : TRUE IN h[x] + i[s \ {x}]]
           firstA == CHOOSE i : i = FirstA(i)
           secondA == CHOOSE i : i = SecondA(i)
           firstR == CHOOSE i : i = FirstR(i)
           secondR == CHOOSE i : i = SecondR(i)
           added == MapThenSumSet(LAMBDA s : plan.minutes[s[1]], A)
           freed == MapThenSumSet(LAMBDA s : visits[s[1]][d].minutes, R)
           ad == AddedTo(plan, d)
           fr == FreedFrom(plan, d)
<1>1. A \in SUBSET Slot /\ R \in SUBSET Slot
  BY DEF Plans
<1>2. IsFiniteSet(A) /\ IsFiniteSet(R) /\ IsFiniteSet(Agreement)
  <2> HIDE DEF A, R
  <2> QED
    BY <1>1, DaysAreNumbers, FS_Subset
<1>3. \A i : FirstA(i) = SecondA(i)
  <2> TAKE i
  <2>1. \A s \in SUBSET A : s # {} => (CHOOSE x \in s : TRUE) \in A
    OBVIOUS
  <2> HIDE DEF A
  <2>2. QED
    BY <2>1
<1>4. \A i : FirstR(i) = SecondR(i)
  <2> TAKE i
  <2>1. \A s \in SUBSET R : s # {} => (CHOOSE x \in s : TRUE) \in R
    OBVIOUS
  <2> HIDE DEF R
  <2>2. QED
    BY <2>1
<1>5. firstA = secondA /\ firstR = secondR
  <2> HIDE DEF FirstA, SecondA, FirstR, SecondR
  <2>1. firstA = secondA
    BY <1>3
  <2>2. firstR = secondR
    BY <1>4
  <2>3. QED
    BY <2>1, <2>2
<1>6. added = firstA[A] /\ freed = firstR[R]
  BY DEF MapThenSumSet, MapThenFoldSet
<1>7. Sum(f, A) = secondA[A] /\ Sum(h, R) = secondR[R]
  BY DEF Sum, MapThenSumSet, MapThenFoldSet
<1>8. \A s \in A : s = <<s[1], d>> /\ s[1] \in Agreement /\ f[s] = CrewMinutes(s[1]) /\ f[s] \in Nat
  <2> TAKE s \in A
  <2>1. s = <<s[1], d>> /\ s[1] \in Agreement
    BY <1>1 DEF Slot
  <2>2. s[1] \in DOMAIN plan.minutes
    BY DEF Touched
  <2>3. QED
    BY <2>1, <2>2, CrewMinutesType DEF PlanWeighed
<1>9. \A s \in R : s = <<s[1], d>> /\ s[1] \in Agreement /\ h[s] = CrewMinutes(s[1]) /\ h[s] \in Nat
  <2> TAKE s \in R
  <2>1. s = <<s[1], d>> /\ s[1] \in Agreement
    BY <1>1 DEF Slot
  <2>2. visits[s[1]][d].minutes = CrewMinutes(s[1])
    BY <2>1 DEF Weighed
  <2>3. QED
    BY <2>1, <2>2, CrewMinutesType
<1>10. \A a \in Agreement : /\ ad[a] = IF <<a, d>> \in A THEN CrewMinutes(a) ELSE 0
                            /\ fr[a] = IF <<a, d>> \in R THEN CrewMinutes(a) ELSE 0
                            /\ ad[a] \in Nat /\ fr[a] \in Nat /\ CrewMinutes(a) \in Nat
  BY CrewMinutesType DEF AddedTo, FreedFrom
<1> HIDE DEF A, R, f, h, firstA, secondA, firstR, secondR, added, freed, ad, fr
<1>11. added = Sum(f, A) /\ freed = Sum(h, R)
  BY <1>5, <1>6, <1>7
<1>12. added \in Nat /\ freed \in Nat
  BY <1>2, <1>8, <1>9, <1>11, SumType
<1>13. Sum(ad, Agreement) <= Sum(f, A)
  <2> DEFINE e == [a \in Agreement |-> <<a, d>>]
  <2>1. \A a \in Agreement : e[a] = <<a, d>>
    OBVIOUS
  <2> HIDE DEF e
  <2>2. \A x, y \in Agreement : ad[x] # 0 /\ ad[y] # 0 /\ e[x] = e[y] => x = y
    BY <2>1
  <2>3. ASSUME NEW x \in Agreement, ad[x] # 0 PROVE e[x] \in A /\ ad[x] <= f[e[x]]
    <3>1. <<x, d>> \in A /\ ad[x] = CrewMinutes(x)
      BY <1>10, <2>3
    <3>2. f[<<x, d>>] = CrewMinutes(x)
      BY <1>8, <3>1
    <3>3. QED
      BY <1>10, <2>1, <3>1, <3>2
  <2>4. QED
    BY <1>2, <1>8, <1>10, <2>2, <2>3, SumDominated
<1>14. Sum(h, R) <= Sum(fr, Agreement)
  <2> DEFINE e == [s \in R |-> s[1]]
  <2>1. \A s \in R : e[s] = s[1]
    OBVIOUS
  <2> HIDE DEF e
  <2>2. \A x, y \in R : h[x] # 0 /\ h[y] # 0 /\ e[x] = e[y] => x = y
    BY <1>9, <2>1
  <2>3. ASSUME NEW x \in R PROVE e[x] \in Agreement /\ h[x] <= fr[e[x]]
    <3>1. x = <<x[1], d>> /\ x[1] \in Agreement /\ h[x] = CrewMinutes(x[1])
      BY <1>9
    <3>2. fr[x[1]] = CrewMinutes(x[1])
      BY <1>10, <3>1
    <3>3. QED
      BY <1>10, <2>1, <3>1, <3>2
  <2>4. QED
    BY <1>2, <1>9, <1>10, <2>2, <2>3, SumDominated
<1>15. QED
  BY <1>11, <1>12, <1>13, <1>14 DEF added, freed, A, R, ad, fr

(* A day's minutes after a confirm are those before, and what was added, *)
(* less what was freed.                                                  *)
LEMMA WrittenAddsUp ==
  ASSUME CapInv, NEW p \in Process, jobs[p].stage = "apply", SlotsFree(jobs[p].plan),
         \A s \in jobs[p].plan.updates \cup jobs[p].plan.removals : Exists(visits[s[1]][s[2]]),
         NEW d \in Day
  PROVE  LET plan == jobs[p].plan
         IN  /\ DayMinutes(Written(plan), d) \in Nat /\ DayMinutes(visits, d) \in Nat
             /\ Sum(AddedTo(plan, d), Agreement) \in Nat /\ Sum(FreedFrom(plan, d), Agreement) \in Nat
             /\ DayMinutes(Written(plan), d) + Sum(FreedFrom(plan, d), Agreement)
                  = DayMinutes(visits, d) + Sum(AddedTo(plan, d), Agreement)
<1> DEFINE plan == jobs[p].plan
           v == MinutesOn(visits, d)
           w == MinutesOn(Written(plan), d)
           ad == AddedTo(plan, d)
           fr == FreedFrom(plan, d)
           before == [a \in Agreement |-> v[a] + ad[a]]
           after == [a \in Agreement |-> w[a] + fr[a]]
<1>1. /\ TypeInv /\ visits \in Calendar /\ Weighed(visits) /\ PlanWeighed(plan)
      /\ \A s \in Touched(plan) : s[1] \in DOMAIN plan.minutes
  BY DEF CapInv, RoomForPlan, TypeInv, TypeOK, JobShape
<1>2. Written(plan) \in Calendar
  BY <1>1, WrittenKeeps
<1>3. IsFiniteSet(Agreement)
  BY DaysAreNumbers
<1>4. /\ DayMinutes(visits, d) = Sum(v, Agreement) /\ DayMinutes(Written(plan), d) = Sum(w, Agreement)
      /\ \A a \in Agreement : v[a] \in Nat /\ w[a] \in Nat
  BY <1>1, <1>2, DayMinutesIsSum
<1>5. \A s \in plan.adds : ~Exists(visits[s[1]][s[2]])
  BY DEF SlotsFree
<1>6. \A s \in plan.updates \cup plan.removals : Exists(visits[s[1]][s[2]])
  OBVIOUS
<1> HIDE DEF plan
<1>7. ASSUME NEW a \in Agreement
      PROVE  /\ ad[a] \in Nat /\ fr[a] \in Nat /\ before[a] = v[a] + ad[a] /\ after[a] = w[a] + fr[a]
             /\ after[a] = before[a]
  <2>1. /\ ad[a] = IF <<a, d>> \in plan.adds THEN CrewMinutes(a) ELSE 0
        /\ fr[a] = IF <<a, d>> \in plan.removals THEN CrewMinutes(a) ELSE 0
        /\ CrewMinutes(a) \in Nat
    BY CrewMinutesType DEF AddedTo, FreedFrom
  <2>2. /\ v[a] = visits[a][d].minutes /\ w[a] = Written(plan)[a][d].minutes
        /\ before[a] = v[a] + ad[a] /\ after[a] = w[a] + fr[a]
    BY DEF MinutesOn
  <2>3. /\ <<a, d>> \in plan.adds => ~Exists(visits[a][d])
        /\ <<a, d>> \in plan.updates \cup plan.removals => Exists(visits[a][d])
    BY <1>5, <1>6
  <2>4. /\ ~Exists(visits[a][d]) => v[a] = 0
        /\ Exists(visits[a][d]) => v[a] = CrewMinutes(a)
    BY <1>1, <2>2 DEF Weighed, Exists, NoVisit
  <2>5. CASE <<a, d>> \in plan.removals
    <3>1. Written(plan)[a][d] = NoVisit
      BY <2>5 DEF Written
    <3>2. w[a] = 0
      BY <2>2, <3>1 DEF NoVisit
    <3>3. <<a, d>> \notin plan.adds /\ v[a] = CrewMinutes(a)
      BY <2>3, <2>4, <2>5
    <3>4. QED
      BY <2>1, <2>2, <2>5, <3>2, <3>3
  <2>6. CASE <<a, d>> \notin plan.removals /\ <<a, d>> \in plan.adds \cup plan.updates
    <3>1. Written(plan)[a][d].minutes = plan.minutes[a]
      BY <2>6 DEF Written
    <3>2. plan.minutes[a] = CrewMinutes(a)
      <4>1. <<a, d>> \in Touched(plan)
        BY <2>6 DEF Touched
      <4>2. QED
        BY <1>1, <4>1 DEF PlanWeighed
    <3>3. IF <<a, d>> \in plan.adds THEN v[a] = 0 ELSE v[a] = CrewMinutes(a)
      BY <2>3, <2>4, <2>6
    <3>4. QED
      BY <2>1, <2>2, <2>6, <3>1, <3>2, <3>3
  <2>7. CASE <<a, d>> \notin Touched(plan)
    <3>1. Written(plan)[a][d] = visits[a][d]
      BY <2>7 DEF Written, Touched
    <3>2. <<a, d>> \notin plan.adds /\ <<a, d>> \notin plan.removals
      BY <2>7 DEF Touched
    <3>3. QED
      BY <1>4, <2>1, <2>2, <3>1, <3>2
  <2>8. QED
    BY <2>5, <2>6, <2>7 DEF Touched
<1> HIDE DEF v, w, ad, fr, before, after
<1>8. Sum(before, Agreement) = Sum(v, Agreement) + Sum(ad, Agreement)
  BY <1>3, <1>4, <1>7, SumAdds
<1>9. Sum(after, Agreement) = Sum(w, Agreement) + Sum(fr, Agreement)
  BY <1>3, <1>4, <1>7, SumAdds
<1>10. Sum(after, Agreement) = Sum(before, Agreement)
  <2>1. \A a \in Agreement : before[a] \in Nat /\ after[a] = before[a]
    BY <1>4, <1>7
  <2>2. QED
    BY <1>3, <2>1, SumIsOfValues
<1>11. /\ Sum(v, Agreement) \in Nat /\ Sum(w, Agreement) \in Nat
       /\ Sum(ad, Agreement) \in Nat /\ Sum(fr, Agreement) \in Nat
  <2>1. \A a \in Agreement : v[a] \in Nat /\ w[a] \in Nat /\ ad[a] \in Nat /\ fr[a] \in Nat
    BY <1>4, <1>7
  <2>2. QED
    BY <1>3, <2>1, SumType
<1>12. QED
  BY <1>4, <1>8, <1>9, <1>10, <1>11 DEF plan, ad, fr

(* A confirm that commits keeps the days it adds unbooked work to within *)
(* their caps: what landed there since is no more than it was planned     *)
(* against, or all of it was counted again.                               *)
LEMMA CommitKeepsTheCap ==
  ASSUME CapInv, Next, NEW p \in Process, Commits(p), jobs[p].steady,
         NEW d \in UnbookedDays(jobs[p].plan), Cap[d] > 0
  PROVE  DayMinutes(visits', d) <= Cap[d]
<1> DEFINE plan == jobs[p].plan
           added == MapThenSumSet(LAMBDA s : plan.minutes[s[1]], {s \in plan.adds : s[2] = d})
           freed == MapThenSumSet(LAMBDA s : visits[s[1]][d].minutes, {s \in plan.removals : s[2] = d})
           ad == Sum(AddedTo(plan, d), Agreement)
           fr == Sum(FreedFrom(plan, d), Agreement)
<1>1. Apply(p)
  BY OnlyApplyCommits DEF CapInv
<1>2. /\ jobs[p].stage = "apply" /\ visits' = Written(plan)
      /\ StillOurs(plan, jobs[p].stale) /\ SlotsFree(plan) /\ DaysHaveRoom(plan)
  BY <1>1 DEF Apply, Accepted
<1>3. /\ TypeInv /\ visits \in Calendar /\ Weighed(visits) /\ plan \in Plans
      /\ PlanWeighed(plan) /\ RoomWasMade(plan)
      /\ \A s \in Touched(plan) : s[1] \in DOMAIN plan.minutes
  BY <1>2 DEF CapInv, RoomForPlan, TypeInv, TypeOK, JobShape, Job
<1>4. \A s \in plan.updates \cup plan.removals : Exists(visits[s[1]][s[2]])
  BY <1>2 DEF StillOurs
<1>5. d \in Day
  <2> HIDE DEF plan
  <2> QED
    BY <1>3 DEF UnbookedDays, Plans, Slot, plan
<1>6. d \in DOMAIN plan.load /\ plan.load[d] + ad <= Cap[d] + fr /\ plan.load[d] \in Nat
  <2>1. d \in DOMAIN plan.load /\ plan.load[d] + ad <= Cap[d] + fr
    BY <1>3 DEF RoomWasMade
  <2>2. plan.load \in Loads
    BY <1>3 DEF Plans
  <2> HIDE DEF plan
  <2>3. QED
    BY <2>1, <2>2 DEF Loads
<1>7. DayMinutes(visits, d) <= plan.load[d] \/ DayMinutes(visits, d) + added <= Cap[d] + freed
  BY <1>2, <1>6 DEF DaysHaveRoom, LoadNow
<1>8. added \in Nat /\ freed \in Nat /\ ad <= added /\ freed <= fr
  <2> HIDE DEF plan
  <2> QED
    BY <1>3, <1>4, <1>5, RoomIsCounted
<1>9. /\ DayMinutes(Written(plan), d) \in Nat /\ DayMinutes(visits, d) \in Nat /\ ad \in Nat /\ fr \in Nat
      /\ DayMinutes(Written(plan), d) + fr = DayMinutes(visits, d) + ad
  BY <1>2, <1>4, <1>5, WrittenAddsUp
<1>10. Cap[d] \in Nat
  BY <1>5, PlanningAssumption
<1> HIDE DEF added, freed, ad, fr, plan
<1>11. DayMinutes(Written(plan), d) <= Cap[d]
  BY <1>6, <1>7, <1>8, <1>9, <1>10
<1>12. QED
  BY <1>2, <1>11

(* Where agreements keep their crew-minutes, adding unbooked work leaves no  *)
(* day over its cap, whoever filled it between the run's reads and its       *)
(* transaction (guardDailyLoad, assertBranchDaysStillFit).                   *)
THEOREM AddedWorkFits ==
  ASSUME CrewMinutesKept
  PROVE  Spec => AddingKeepsTheCap
<1>1. Init => CapInv
  BY InitHasRoom
<1>2. CapInv /\ [Next]_vars => CapInv'
  BY NextKeepsRoom
<1>3. CapInv /\ [Next]_vars =>
        [\A p \in Process : Commits(p) /\ jobs[p].steady =>
           \A d \in UnbookedDays(jobs[p].plan) : Cap[d] > 0 => DayMinutes(visits', d) <= Cap[d]]_vars
  BY CommitKeepsTheCap
<1>4. QED
  BY <1>1, <1>2, <1>3, PTL DEF Spec, AddingKeepsTheCap

=============================================================================
