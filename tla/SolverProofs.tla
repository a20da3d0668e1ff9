----------------------------- MODULE SolverProofs -----------------------------
(***************************************************************************)
(* What an answer of the solver keeps, for any visits, people, vehicles,   *)
(* days and limit of the lookahead.  The constraint model is shown to      *)
(* allow exactly the sound plans; a sound plan is one the engine accepts;  *)
(* and an invariant of the phases says what the days add to the pinned     *)
(* visits and what they leave out.                                         *)
(***************************************************************************)
EXTENDS Solver, FoldTheorems

(***************************************************************************)
(* The larger and the smaller of two.                                      *)
(***************************************************************************)
LEMMA MaxOfTwo ==
  ASSUME NEW a \in Int, NEW b \in Int
  PROVE  Max({a, b}) \in Int /\ Max({a, b}) \in {a, b} /\ Max({a, b}) >= a /\ Max({a, b}) >= b
<1>1. \E x \in {a, b} : \A y \in {a, b} : x >= y
  <2>1. CASE a >= b BY <2>1
  <2>2. CASE b >= a BY <2>2
  <2>3. QED BY <2>1, <2>2
<1>2. Max({a, b}) \in {a, b} /\ \A y \in {a, b} : Max({a, b}) >= y
  BY <1>1 DEF Max
<1>3. QED
  BY <1>2

LEMMA MinOfTwo ==
  ASSUME NEW a \in Int, NEW b \in Int
  PROVE  Min({a, b}) \in Int /\ Min({a, b}) \in {a, b} /\ Min({a, b}) <= a /\ Min({a, b}) <= b
<1>1. \E x \in {a, b} : \A y \in {a, b} : x <= y
  <2>1. CASE a <= b BY <2>1
  <2>2. CASE b <= a BY <2>2
  <2>3. QED BY <2>1, <2>2
<1>2. Min({a, b}) \in {a, b} /\ \A y \in {a, b} : Min({a, b}) <= y
  BY <1>1 DEF Min
<1>3. QED
  BY <1>2

(***************************************************************************)
(* Days and minutes.                                                       *)
(***************************************************************************)
LEMMA DayAndMinute ==
  ASSUME NEW d \in Nat, NEW m \in Nat, m < DayMinutes
  PROVE  /\ d * DayMinutes + m \in Nat
         /\ DayOf(d * DayMinutes + m) = d
         /\ MinuteOf(d * DayMinutes + m) = m
BY DEF DayMinutes, DayOf, MinuteOf

LEMMA DayIsWhole ==
  ASSUME NEW t \in Int
  PROVE  /\ t = DayOf(t) * DayMinutes + MinuteOf(t)
         /\ DayOf(t) \in Int /\ MinuteOf(t) \in Nat /\ MinuteOf(t) < DayMinutes
BY DEF DayMinutes, DayOf, MinuteOf

(***************************************************************************)
(* What stays while the snapshot stays.                                    *)
(***************************************************************************)
LEMMA AskStays ==
  ASSUME db' = db PROVE \A v : Ask(v)' = Ask(v)
BY DEF Ask, Terms, SlotsOf, Pins, TimePinned, Protected, ProtectedSlots, CandidateSlots, SlotsWithin, BuildSlots, DaysOfPeriod, Windows, Occupied
LEMMA OptionsStay ==
  ASSUME db' = db PROVE \A q : Options(q)' = Options(q)
BY DEF Options, Starts, Crews, Rides, HonoursPins, Vans, Able, CanServe, Staff, Fleet, Leads
LEMMA ReservationsStay ==
  ASSUME db' = db PROVE Reservations' = Reservations
BY DEF Reservations, Period, Terms

(***************************************************************************)
(* The slots of a visit.                                                   *)
(***************************************************************************)
LEMMA SnapshotIs ==
  ASSUME db \in Snapshots, NEW v \in Visit
  PROVE  /\ IsSnapshot(db)
         /\ Terms(v) = db.agreements[db.visits[v].agreement]
         /\ db.visits[v].date \in Day /\ db.visits[v].date \in Nat
         /\ db.visits[v].minutes \in Nat /\ db.visits[v].minutes # 0 /\ db.visits[v].crew \in Nat
         /\ db.visits[v].opens \in Nat /\ db.visits[v].closes \in Nat
         /\ InHours(Terms(v)) /\ Terms(v).allowed \subseteq Day
         /\ \A d \in Day : \A w \in db.hours[Terms(v).site][d] : InHours(w)
<1>1. IsSnapshot(db)
  BY SnapshotsAreSound
<1>2. /\ db.visits[v].date \in Day
      /\ db.visits[v].minutes \in Nat \ {0} /\ db.visits[v].crew \in Nat
      /\ InHours(db.visits[v]) /\ InHours(Terms(v)) /\ Terms(v).allowed \subseteq Day
      /\ \A d \in Day : \A w \in db.hours[Terms(v).site][d] : InHours(w)
  BY <1>1 DEF IsSnapshot, Terms
<1>3. /\ db.visits[v].date \in Nat
      /\ db.visits[v].opens \in Nat /\ db.visits[v].closes \in Nat
  BY <1>2, SnapshotsAreSound DEF InHours, Day
<1>4. QED
  BY <1>1, <1>2, <1>3 DEF Terms

LEMMA WindowsAre ==
  ASSUME NEW terms, InHours(terms), NEW d \in Day,
         \A x \in Day : \A w \in db.hours[terms.site][x] : InHours(w), NEW w \in Windows(terms, d)
  PROVE  w.opens \in Nat /\ w.closes \in Nat
<1> DEFINE known == IF \A x \in Day : db.hours[terms.site][x] = {} THEN {AssumedDay} ELSE db.hours[terms.site][d]
<1>1. PICK k \in known : w = [opens |-> Max({k.opens, terms.opens}), closes |-> Min({k.closes, terms.closes})]
  BY DEF Windows
<1>2. k.opens \in Nat /\ k.closes \in Nat
  BY DEF AssumedDay, InHours
<1>3. terms.opens \in Nat /\ terms.closes \in Nat
  BY DEF InHours
<1>4. Max({k.opens, terms.opens}) \in {k.opens, terms.opens} /\ Min({k.closes, terms.closes}) \in {k.closes, terms.closes}
  <2>1. k.opens \in Int /\ k.closes \in Int /\ terms.opens \in Int /\ terms.closes \in Int
    BY <1>2, <1>3
  <2>2. QED
    BY <2>1, MaxOfTwo, MinOfTwo, Zenon
<1>5. QED
  BY <1>1, <1>2, <1>3, <1>4

LEMMA BuildSlotsAre ==
  ASSUME NEW terms, InHours(terms), NEW days \in SUBSET Day, NEW minutes \in Int,
         \A x \in Day : \A w \in db.hours[terms.site][x] : InHours(w),
         NEW s \in BuildSlots(terms, days, minutes)
  PROVE  /\ s.date \in days /\ s.earliest \in Nat /\ s.latest \in Int
         /\ s = [date |-> s.date, earliest |-> s.earliest, latest |-> s.latest, preferred |-> s.preferred]
<1>1. PICK d \in days, w \in UNION {Windows(terms, x) : x \in days} :
        s = [date |-> d, earliest |-> w.opens, latest |-> w.closes - minutes, preferred |-> d \in terms.preferred]
  BY DEF BuildSlots
<1>2. w.opens \in Nat /\ w.closes \in Nat
  BY WindowsAre
<1>3. QED
  BY <1>1, <1>2

LEMMA SlotsWithinAre ==
  ASSUME NEW terms, InHours(terms), NEW days \in SUBSET Day, NEW minutes \in Int,
         \A x \in Day : \A w \in db.hours[terms.site][x] : InHours(w),
         NEW date, NEW window, window.opens \in Nat, window.closes \in Nat,
         NEW s \in SlotsWithin(days, date, window, terms, minutes)
  PROVE  /\ s.date \in days /\ s.earliest \in Nat /\ s.latest \in Int /\ s.earliest <= s.latest
         /\ s.date = date => s.earliest >= window.opens /\ s.latest + minutes <= window.closes
<1> DEFINE kept(x) == IF x.date # date THEN x
                      ELSE [date |-> date, preferred |-> x.preferred,
                            earliest |-> Max({x.earliest, window.opens}),
                            latest |-> Min({x.latest, window.closes - minutes})]
<1>1. s.earliest <= s.latest /\ \E x \in BuildSlots(terms, days, minutes) : s = kept(x)
  BY DEF SlotsWithin
<1>2. PICK x \in BuildSlots(terms, days, minutes) : s = kept(x)
  BY <1>1
<1>3. x.date \in days /\ x.earliest \in Nat /\ x.latest \in Int
  BY BuildSlotsAre
<1>4. CASE x.date # date
  BY <1>1, <1>2, <1>3, <1>4
<1>5. CASE x.date = date
  <2>1. s.date = date /\ s.earliest = Max({x.earliest, window.opens})
        /\ s.latest = Min({x.latest, window.closes - minutes})
    BY <1>2, <1>5
  <2>2. /\ Max({x.earliest, window.opens}) \in {x.earliest, window.opens}
        /\ Max({x.earliest, window.opens}) >= window.opens
    <3>1. x.earliest \in Int /\ window.opens \in Int
      BY <1>3
    <3>2. QED
      BY <3>1, MaxOfTwo, Zenon
  <2>3. window.closes - minutes \in Int
    OBVIOUS
  <2>4. /\ Min({x.latest, window.closes - minutes}) \in Int
        /\ Min({x.latest, window.closes - minutes}) <= window.closes - minutes
    BY <1>3, <2>3, MinOfTwo, Zenon
  <2>5. QED
    BY <1>1, <1>3, <1>5, <2>1, <2>2, <2>4
<1>6. QED
  BY <1>4, <1>5

LEMMA ProtectedSlotsAre ==
  ASSUME NEW terms, InHours(terms), NEW minutes \in Int,
         \A x \in Day : \A w \in db.hours[terms.site][x] : InHours(w),
         NEW visit, InHours(visit), visit.date \in Day,
         NEW s \in ProtectedSlots(visit, terms, minutes)
  PROVE  /\ s.date = visit.date /\ s.earliest \in Nat /\ s.latest \in Int /\ s.earliest <= s.latest
         /\ s.earliest >= visit.opens /\ s.latest + minutes <= visit.closes
<1> DEFINE bounded == [opens |-> Max({visit.opens, terms.opens}), closes |-> Min({visit.closes, terms.closes})]
<1>1. visit.opens \in Nat /\ visit.closes \in Nat /\ terms.opens \in Nat /\ terms.closes \in Nat
  BY DEF InHours
<1>a. visit.opens \in Int /\ visit.closes \in Int /\ terms.opens \in Int /\ terms.closes \in Int
  BY <1>1
<1>2. bounded.opens \in Nat /\ bounded.opens >= visit.opens
  <2>1. Max({visit.opens, terms.opens}) \in {visit.opens, terms.opens} /\ Max({visit.opens, terms.opens}) >= visit.opens
    BY <1>a, MaxOfTwo, Zenon
  <2>2. QED
    BY <1>1, <2>1
<1>3. bounded.closes \in Nat /\ bounded.closes <= visit.closes
  <2>1. Min({visit.closes, terms.closes}) \in {visit.closes, terms.closes} /\ Min({visit.closes, terms.closes}) <= visit.closes
    BY <1>a, MinOfTwo, Zenon
  <2>2. QED
    BY <1>1, <2>1
<1>4. CASE db.hours[terms.site][visit.date] # {}
  <2>1. s \in SlotsWithin({visit.date}, visit.date, bounded, terms, minutes)
    BY <1>4 DEF ProtectedSlots
  <2> HIDE DEF bounded
  <2>2. {visit.date} \in SUBSET Day
    OBVIOUS
  <2>3. /\ s.date \in {visit.date} /\ s.earliest \in Nat /\ s.latest \in Int /\ s.earliest <= s.latest
        /\ s.date = visit.date => s.earliest >= bounded.opens /\ s.latest + minutes <= bounded.closes
    BY <1>2, <1>3, <2>1, <2>2, SlotsWithinAre
  <2>4. QED
    BY <1>1, <1>2, <1>3, <2>3
<1>5. CASE db.hours[terms.site][visit.date] = {}
  <2>1. s = [date |-> visit.date, earliest |-> bounded.opens, latest |-> bounded.closes - minutes, preferred |-> FALSE]
        /\ s.earliest <= s.latest
    BY <1>5 DEF ProtectedSlots
  <2>2. s.date = visit.date /\ s.earliest = bounded.opens /\ s.latest = bounded.closes - minutes
    BY <2>1
  <2> HIDE DEF bounded
  <2>3. QED
    BY <1>1, <1>2, <1>3, <2>1, <2>2
<1>6. QED
  BY <1>4, <1>5

LEMMA SlotsAre ==
  ASSUME db \in Snapshots, NEW v \in Visit, NEW s \in SlotsOf(v)
  PROVE  /\ ~TimePinned(v)
         /\ s.date \in Day /\ s.earliest \in Nat /\ s.latest \in Int /\ s.earliest <= s.latest
         /\ s.date = db.visits[v].date => /\ s.earliest >= db.visits[v].opens
                                          /\ s.latest + db.visits[v].minutes <= db.visits[v].closes
         /\ IF Protected(v) THEN /\ s.date = db.visits[v].date
                                 /\ s \in ProtectedSlots(db.visits[v], Terms(v), db.visits[v].minutes)
            ELSE s \in CandidateSlots(db.visits[v], Terms(v), db.visits[v].minutes)
<1> DEFINE visit == db.visits[v]
<1>1. /\ InHours(Terms(v)) /\ Terms(v).allowed \subseteq Day
      /\ \A d \in Day : \A w \in db.hours[Terms(v).site][d] : InHours(w)
      /\ visit.date \in Day /\ visit.minutes \in Int /\ visit.opens \in Nat /\ visit.closes \in Nat
      /\ InHours(visit)
  BY SnapshotIs DEF InHours
<1>2. ~TimePinned(v)
  BY DEF SlotsOf
<1>3. CASE Protected(v)
  <2>1. s \in ProtectedSlots(visit, Terms(v), visit.minutes)
    BY <1>2, <1>3 DEF SlotsOf
  <2> HIDE DEF visit
  <2>2. QED
    BY <1>1, <1>2, <1>3, <2>1, ProtectedSlotsAre DEF visit
<1>4. CASE ~Protected(v)
  <2> DEFINE days == IF visit.booked THEN {visit.date} ELSE DaysOfPeriod(Terms(v), visit.date)
  <2>1. s \in CandidateSlots(visit, Terms(v), visit.minutes)
    BY <1>2, <1>4 DEF SlotsOf
  <2>2. s \in SlotsWithin(days, visit.date, visit, Terms(v), visit.minutes)
    BY <2>1 DEF CandidateSlots
  <2>3. days \in SUBSET Day
    BY <1>1 DEF DaysOfPeriod
  <2> HIDE DEF visit, days
  <2>4. /\ s.date \in days /\ s.earliest \in Nat /\ s.latest \in Int /\ s.earliest <= s.latest
        /\ s.date = visit.date => s.earliest >= visit.opens /\ s.latest + visit.minutes <= visit.closes
    BY <1>1, <2>2, <2>3, SlotsWithinAre
  <2>5. QED
    BY <1>2, <1>4, <2>1, <2>3, <2>4 DEF visit
<1>5. QED
  BY <1>3, <1>4

(***************************************************************************)
(* What a visit may be given.                                              *)
(***************************************************************************)
LEMMA OptionsAre ==
  ASSUME NEW q, NEW c
  PROVE  c \in Options(q) <=>
           /\ \E s \in Starts(q), crew \in Crews(q), ride \in UNION {Rides(q, x) : x \in Crews(q)} :
                c = [start |-> s, end |-> s + Length(q), crew |-> crew, vehicles |-> ride,
                     site |-> q.site, agreement |-> q.agreement]
           /\ q.closes - q.opens >= q.minutes
           /\ c.vehicles \in Rides(q, c.crew)
           /\ \A e \in c.crew : DayOf(c.start) \notin db.staff[e].away
           /\ HonoursPins(q, c)
BY DEF Options

LEMMA OptionIs ==
  ASSUME NEW q, NEW c \in Options(q)
  PROVE  /\ c.start \in Starts(q) /\ c.end = c.start + Length(q)
         /\ c.crew \in Crews(q) /\ c.vehicles \in Rides(q, c.crew)
         /\ c.site = q.site /\ c.agreement = q.agreement
         /\ c = [start |-> c.start, end |-> c.end, crew |-> c.crew, vehicles |-> c.vehicles,
                 site |-> c.site, agreement |-> c.agreement]
         /\ q.closes - q.opens >= q.minutes
         /\ \A e \in c.crew : DayOf(c.start) \notin db.staff[e].away
         /\ HonoursPins(q, c)
<1>1. PICK s \in Starts(q), crew \in Crews(q), ride \in UNION {Rides(q, x) : x \in Crews(q)} :
        c = [start |-> s, end |-> s + Length(q), crew |-> crew, vehicles |-> ride,
             site |-> q.site, agreement |-> q.agreement]
  BY OptionsAre, Zenon
<1>2. /\ c.start = s /\ c.end = s + Length(q) /\ c.crew = crew /\ c.vehicles = ride
      /\ c.site = q.site /\ c.agreement = q.agreement
  BY <1>1
<1>3. /\ q.closes - q.opens >= q.minutes
      /\ c.vehicles \in Rides(q, c.crew)
      /\ \A e \in c.crew : DayOf(c.start) \notin db.staff[e].away
      /\ HonoursPins(q, c)
  BY OptionsAre, Zenon
<1>4. c = [start |-> c.start, end |-> c.end, crew |-> c.crew, vehicles |-> c.vehicles,
           site |-> c.site, agreement |-> c.agreement]
  BY <1>1, <1>2
<1>5. QED
  BY <1>1, <1>2, <1>3, <1>4, Zenon

\* A start is some minute of some slot.
StartAt(q, t, s, m) ==
  /\ m \in s.earliest .. Min({s.latest, DayMinutes - q.minutes})
  /\ (m - s.earliest) % Slot = 0
  /\ <<s.date, m>> \notin q.occupied
  /\ t = s.date * DayMinutes + m

LEMMA StartsAre ==
  ASSUME NEW q, ~Timed(q), NEW t
  PROVE  t \in Starts(q) <=> \E s \in q.slots : \E m : StartAt(q, t, s, m)
<1> DEFINE M(s) == {m \in s.earliest .. Min({s.latest, DayMinutes - q.minutes}) :
                      (m - s.earliest) % Slot = 0 /\ <<s.date, m>> \notin q.occupied}
           T(s) == {s.date * DayMinutes + m : m \in M(s)}
<1>1. Starts(q) = UNION {T(s) : s \in q.slots}
  BY DEF Starts
<1>2. ASSUME NEW s PROVE t \in T(s) <=> \E m : StartAt(q, t, s, m)
  <2>1. \A m : m \in M(s) /\ t = s.date * DayMinutes + m <=> StartAt(q, t, s, m)
    BY Zenon DEF StartAt
  <2>2. t \in T(s) <=> \E m \in M(s) : t = s.date * DayMinutes + m
    BY Zenon
  <2>3. QED
    BY <2>1, <2>2, Zenon
<1> HIDE DEF T
<1>3. t \in UNION {T(s) : s \in q.slots} <=> \E s \in q.slots : t \in T(s)
  BY Zenon
<1>4. QED
  BY <1>1, <1>2, <1>3, Zenon

LEMMA RidesAre ==
  ASSUME NEW q, NEW crew, NEW ride \in Rides(q, crew)
  PROVE  \/ \E k \in Vans(q), e \in crew : ride = {[id |-> k, driver |-> e]} /\ k \in db.staff[e].drives
         \/ ride = {} /\ \A e \in crew : db.staff[e].transit
<1>1. CASE ride \in {{x} : x \in {x \in [id : Vans(q), driver : crew] : x.id \in db.staff[x.driver].drives}}
  <2>1. PICK x \in [id : Vans(q), driver : crew] : ride = {x} /\ x.id \in db.staff[x.driver].drives
    BY <1>1
  <2>2. x.id \in Vans(q) /\ x.driver \in crew /\ x = [id |-> x.id, driver |-> x.driver]
    OBVIOUS
  <2>3. QED
    BY <2>1, <2>2
<1>2. CASE ride = {} /\ \A e \in crew : db.staff[e].transit
  BY <1>2
<1>3. QED
  BY <1>1, <1>2 DEF Rides

LEMMA CrewsAre ==
  ASSUME NEW q, NEW crew \in Crews(q)
  PROVE  /\ crew \subseteq Able(q) /\ Cardinality(crew) = q.crew
         /\ \E e \in crew : db.staff[e].pms
         /\ \A s \in q.skills : \E e \in crew : s \in db.staff[e].skills
         /\ \A e \in crew : /\ e \in DOMAIN db.staff /\ db.staff[e].active /\ db.staff[e].branch = q.branch
                            /\ db.staff[e].stationed => \E s \in db.staff[e].stations : s.site = q.site
BY DEF Crews, Able, CanServe, Staff

LEMMA VansAre ==
  ASSUME NEW q, NEW k \in Vans(q)
  PROVE  /\ k \in DOMAIN db.fleet /\ db.fleet[k].active
         /\ db.fleet[k].branch \in {Unknown, q.branch}
         /\ db.fleet[k].seats = NoLimit \/ db.fleet[k].seats >= q.crew
BY DEF Vans, Fleet

LEMMA AskIs ==
  ASSUME NEW v
  PROVE  /\ Ask(v).agreement = db.visits[v].agreement /\ Ask(v).branch = Terms(v).branch
         /\ Ask(v).site = Terms(v).site /\ Ask(v).skills = Terms(v).skills
         /\ Ask(v).date = db.visits[v].date /\ Ask(v).opens = db.visits[v].opens
         /\ Ask(v).closes = db.visits[v].closes /\ Ask(v).minutes = db.visits[v].minutes
         /\ Ask(v).crew = db.visits[v].crew /\ Ask(v).slots = SlotsOf(v)
         /\ Ask(v).occupied = Occupied(v) /\ Ask(v).pins = Pins(v)
         /\ Ask(v).lock = db.visits[v].booking
         /\ Timed(Ask(v)) <=> TimePinned(v)
BY DEF Ask, Timed, Pinned, TimePinned

LEMMA DraftIs ==
  ASSUME db \in Snapshots, NEW v \in Visit, Pins(v) # {}
  PROVE  /\ db.visits[v].standing = "draft" /\ InOrder(db.visits[v].booking)
         /\ DayOf(db.visits[v].booking.start) = db.visits[v].date
         /\ Leads(db.visits[v].booking) # {}
<1>1. db.visits[v].standing = "draft"
  BY DEF Pins
<1>2. IsSnapshot(db)
  BY SnapshotIs
<1>3. /\ InOrder(db.visits[v].booking)
      /\ DayOf(db.visits[v].booking.start) = db.visits[v].date
      /\ db.visits[v].booking.leads \cup db.visits[v].booking.graded # {}
  BY <1>1, <1>2 DEF IsSnapshot
<1>4. QED
  BY <1>1, <1>3 DEF Leads

(* A pinned time is kept as it stands. *)
LEMMA PinnedTime ==
  ASSUME db \in Snapshots, NEW v \in Visit, TimePinned(v), NEW c \in Options(Ask(v))
  PROVE  LET lock == db.visits[v].booking IN
         /\ InOrder(lock) /\ c.start = lock.start /\ c.end = lock.end
         /\ DayOf(c.start) = db.visits[v].date
         /\ lock.end - lock.start >= db.visits[v].minutes
         /\ MinuteOf(lock.start) >= db.visits[v].opens
         /\ lock.end - db.visits[v].date * DayMinutes <= db.visits[v].closes
<1> DEFINE lock == db.visits[v].booking
<1>1. Pins(v) # {}
  BY DEF TimePinned
<1>2. InOrder(lock) /\ DayOf(lock.start) = db.visits[v].date
  BY <1>1, DraftIs
<1>3. Timed(Ask(v))
  BY AskIs
<1>4. /\ lock.end - lock.start >= db.visits[v].minutes
      /\ MinuteOf(lock.start) >= db.visits[v].opens
      /\ lock.end - db.visits[v].date * DayMinutes <= db.visits[v].closes
  <2>1. HonoursPins(Ask(v), c)
    BY OptionIs
  <2>2. QED
    BY <1>3, <2>1, AskIs DEF HonoursPins
<1>5. lock.start \in Int /\ lock.end \in Int
  BY <1>2 DEF InOrder
<1>6. c.start = lock.start
  <2>1. c.start \in {db.visits[v].date * DayMinutes + MinuteOf(lock.start)}
    BY <1>3, OptionIs, AskIs DEF Starts
  <2>2. lock.start = DayOf(lock.start) * DayMinutes + MinuteOf(lock.start)
    BY <1>5, DayIsWhole
  <2>3. QED
    BY <1>2, <2>1, <2>2
<1>7. c.end = lock.end
  <2>1. c.end = c.start + (lock.end - lock.start)
    BY <1>3, <1>4, OptionIs, AskIs DEF Length
  <2>2. QED
    BY <1>5, <1>6, <2>1
<1>8. QED
  BY <1>2, <1>4, <1>6, <1>7

(* Any other start lies in a slot, and is nobody else's. *)
LEMMA OpenTime ==
  ASSUME db \in Snapshots, NEW v \in Visit, ~TimePinned(v), NEW c \in Options(Ask(v))
  PROVE  /\ c.start \in Nat /\ c.end = c.start + db.visits[v].minutes
         /\ \E s \in SlotsOf(v) : /\ DayOf(c.start) = s.date /\ MinuteOf(c.start) \in s.earliest .. s.latest
                                  /\ s.date * DayMinutes + MinuteOf(c.start) = c.start
         /\ <<DayOf(c.start), MinuteOf(c.start)>> \notin Occupied(v)
<1> DEFINE q == Ask(v)
           minutes == db.visits[v].minutes
<1>1. ~Timed(q) /\ q.slots = SlotsOf(v) /\ q.minutes = minutes /\ q.occupied = Occupied(v)
  BY AskIs
<1>2. c.end = c.start + minutes
  BY <1>1, OptionIs DEF Length
<1>3. \E s \in q.slots : \E m : StartAt(q, c.start, s, m)
  <2>1. c.start \in Starts(q)
    BY OptionIs, Zenon
  <2>2. ~Timed(q)
    BY <1>1
  <2> HIDE DEF q
  <2>3. QED
    BY <2>1, <2>2, StartsAre, Zenon
<1> HIDE DEF q
<1>4. PICK s \in q.slots : \E m : StartAt(q, c.start, s, m)
  BY <1>3
<1>a. PICK m : StartAt(q, c.start, s, m)
  BY <1>4
<1>b. s \in SlotsOf(v)
  BY <1>1, <1>4
<1>5. /\ m \in s.earliest .. Min({s.latest, DayMinutes - minutes})
      /\ c.start = s.date * DayMinutes + m /\ <<s.date, m>> \notin Occupied(v)
  BY <1>1, <1>a DEF StartAt
<1>6. s.date \in Day /\ s.earliest \in Nat /\ s.latest \in Int
  BY <1>b, SlotsAre
<1>7. minutes \in Nat /\ minutes # 0
  BY SnapshotIs
<1>8. DayMinutes - minutes \in Int /\ DayMinutes - minutes < DayMinutes
  BY <1>7 DEF DayMinutes
<1>9. LET x == Min({s.latest, DayMinutes - minutes}) IN x \in Int /\ x <= s.latest /\ x <= DayMinutes - minutes
  BY <1>6, <1>8, MinOfTwo, Zenon
<1>10. m \in Nat /\ m >= s.earliest /\ m <= s.latest /\ m < DayMinutes
  BY <1>5, <1>6, <1>8, <1>9 DEF DayMinutes
<1>11. s.date \in Nat
  BY <1>6, SnapshotsAreSound DEF Day
<1>12. c.start \in Nat /\ DayOf(c.start) = s.date /\ MinuteOf(c.start) = m
  BY <1>5, <1>10, <1>11, DayAndMinute
<1>13. MinuteOf(c.start) \in s.earliest .. s.latest
  BY <1>6, <1>10, <1>12
<1>14. QED
  BY <1>2, <1>5, <1>12, <1>13, <1>b

(***************************************************************************)
(* A plan that keeps every rule: each visit has one of its options, beside *)
(* what is fixed, and no two visits are in each other's way.               *)
(***************************************************************************)
PlanIsSound(p) ==
  /\ p = [v \in DOMAIN p |-> p[v]]
  /\ DOMAIN p \subseteq Solvable
  /\ \A v \in DOMAIN p : p[v] \in Options(Ask(v)) /\ FreeOf(p[v], Reservations)
  /\ \A v, w \in DOMAIN p : v # w => Compatible(p[v], p[w])

LEMMA EntryIs ==
  ASSUME db \in Snapshots, PlanIsSound(plan), NEW v \in DOMAIN plan
  PROVE  /\ v \in Visit /\ v \in Solvable /\ plan[v] \in Options(Ask(v))
         /\ InOrder(plan[v]) /\ plan[v].end - plan[v].start >= db.visits[v].minutes
         /\ Proposal(v) = plan[v]
         /\ TimePinned(v) => ~Moved(v)
         /\ ~Moved(v) => /\ MinuteOf(plan[v].start) >= db.visits[v].opens
                         /\ plan[v].end - db.visits[v].date * DayMinutes <= db.visits[v].closes
         /\ ~TimePinned(v) => plan[v].end = plan[v].start + db.visits[v].minutes
<1> DEFINE c == plan[v]
           visit == db.visits[v]
<1>1. v \in Solvable /\ v \in Visit /\ c \in Options(Ask(v))
  BY DEF PlanIsSound, Solvable
<1>2. visit.minutes \in Nat /\ visit.minutes # 0 /\ visit.date \in Nat /\ visit.opens \in Nat /\ visit.closes \in Nat
  BY <1>1, SnapshotIs
<1>3. c = [start |-> c.start, end |-> c.end, crew |-> c.crew, vehicles |-> c.vehicles,
           site |-> c.site, agreement |-> c.agreement]
  BY <1>1, OptionIs, Zenon
<1>4. CASE TimePinned(v)
  <2>1. /\ InOrder(visit.booking) /\ c.start = visit.booking.start /\ c.end = visit.booking.end
        /\ DayOf(c.start) = visit.date
        /\ visit.booking.end - visit.booking.start >= visit.minutes
        /\ MinuteOf(visit.booking.start) >= visit.opens
        /\ visit.booking.end - visit.date * DayMinutes <= visit.closes
    BY <1>1, <1>4, PinnedTime
  <2>2. ~Moved(v)
    BY <2>1 DEF Moved
  <2>3. Proposal(v) = c
    <3>1. Proposal(v) = [c EXCEPT !.end = visit.booking.end]
      BY <1>4 DEF Proposal
    <3>2. visit.booking.end = c.end
      BY <2>1
    <3> HIDE DEF c, visit
    <3>3. [c EXCEPT !.end = visit.booking.end] = c
      BY <1>3, <3>2
    <3>4. QED
      BY <3>1, <3>3 DEF c
  <2>4. InOrder(c)
    BY <2>1 DEF InOrder
  <2>5. QED
    BY <1>1, <1>4, <2>1, <2>2, <2>3, <2>4
<1>5. CASE ~TimePinned(v)
  <2>1. /\ c.start \in Nat /\ c.end = c.start + visit.minutes
        /\ \E s \in SlotsOf(v) : /\ DayOf(c.start) = s.date /\ MinuteOf(c.start) \in s.earliest .. s.latest
                                 /\ s.date * DayMinutes + MinuteOf(c.start) = c.start
    BY <1>1, <1>5, OpenTime
  <2>2. PICK s \in SlotsOf(v) : /\ DayOf(c.start) = s.date /\ MinuteOf(c.start) \in s.earliest .. s.latest
                                /\ s.date * DayMinutes + MinuteOf(c.start) = c.start
    BY <2>1
  <2>3. /\ s.date \in Day /\ s.earliest \in Nat /\ s.latest \in Int /\ s.earliest <= s.latest
        /\ s.date = visit.date => /\ s.earliest >= visit.opens /\ s.latest + visit.minutes <= visit.closes
    BY <1>1, SlotsAre
  <2>4. ~Moved(v) => s.date = visit.date
    BY <2>2 DEF Moved
  <2>5. ~Moved(v) => /\ MinuteOf(c.start) >= visit.opens
                     /\ c.end - visit.date * DayMinutes <= visit.closes
    <3> SUFFICES ASSUME s.date = visit.date
                 PROVE  /\ MinuteOf(c.start) >= visit.opens
                        /\ c.end - visit.date * DayMinutes <= visit.closes
      BY <2>4
    <3>1. MinuteOf(c.start) \in Int /\ MinuteOf(c.start) >= s.earliest /\ MinuteOf(c.start) <= s.latest
      BY <2>2, <2>3
    <3>2. c.end = visit.date * DayMinutes + MinuteOf(c.start) + visit.minutes
      BY <2>1, <2>2
    <3> HIDE DEF c, visit
    <3>3. QED
      BY <1>2, <2>3, <3>1, <3>2 DEF DayMinutes
  <2>6. Proposal(v) = c
    <3>1. Proposal(v) = [c EXCEPT !.end = c.start + visit.minutes]
      BY <1>5 DEF Proposal
    <3> HIDE DEF c, visit
    <3>2. [c EXCEPT !.end = c.start + visit.minutes] = c
      BY <1>3, <2>1
    <3>3. QED
      BY <3>1, <3>2 DEF c
  <2>7. InOrder(c) /\ c.end - c.start >= visit.minutes
    <3> HIDE DEF c, visit
    <3>1. QED
      BY <1>2, <2>1 DEF InOrder
  <2>8. QED
    BY <1>1, <1>5, <2>1, <2>5, <2>6, <2>7
<1>6. QED
  BY <1>4, <1>5

(***************************************************************************)
(* The engine finds no conflict in an entry of a sound plan.               *)
(***************************************************************************)
LEMMA OneAfterTheOther ==
  ASSUME NEW a1 \in Int, NEW a2 \in Int, NEW b1 \in Int, NEW b2 \in Int, NEW buffer \in Nat,
         a1 <= a2, b1 <= b2, a2 + buffer <= b1 \/ b2 + buffer <= a1
  PROVE  /\ ~(a1 < b2 /\ b1 < a2)
         /\ (IF b2 <= a1 THEN a1 - b2 ELSE b1 - a2) >= buffer
         /\ (IF b2 <= a1 THEN a1 - b2 ELSE b1 - a2) \in Int
<1>1. ~(a1 < b2 /\ b1 < a2)
  OBVIOUS
<1>2. CASE b2 <= a1
  BY <1>2
<1>3. CASE ~(b2 <= a1)
  BY <1>3
<1>4. QED
  BY <1>1, <1>2, <1>3

LEMMA ApartIsFine ==
  ASSUME NEW a, NEW b, InOrder(a), InOrder(b), Apart(a, b)
  PROVE  ~Overlap(a, b) /\ ~TooFarApart(a, b)
<1> DEFINE buffer == IF a.site = b.site THEN 0 ELSE TravelBuffer
<1>1. /\ a.start \in Int /\ a.end \in Int /\ a.start <= a.end
      /\ b.start \in Int /\ b.end \in Int /\ b.start <= b.end
  BY DEF InOrder
<1>2. buffer \in Nat /\ (a.end + buffer <= b.start \/ b.end + buffer <= a.start)
  BY DEF Apart, TravelBuffer
<1> HIDE DEF buffer
<1>3. /\ ~(a.start < b.end /\ b.start < a.end)
      /\ (IF b.end <= a.start THEN a.start - b.end ELSE b.start - a.end) >= buffer
      /\ (IF b.end <= a.start THEN a.start - b.end ELSE b.start - a.end) \in Int
  BY <1>1, <1>2, OneAfterTheOther, Zenon
<1>4. ~Overlap(a, b)
  BY <1>3 DEF Overlap
<1>5. Gap(a, b) \in Int /\ Gap(a, b) >= buffer
  BY <1>3 DEF Gap
<1>6. a.site # b.site => ~(Gap(a, b) < TravelBuffer)
  BY <1>5 DEF buffer, TravelBuffer
<1>7. QED
  BY <1>4, <1>6 DEF TooFarApart

LEMMA ReservationsInOrder ==
  ASSUME db \in Snapshots, NEW r \in Reservations
  PROVE  InOrder(r)
<1>1. IsSnapshot(db)
  BY SnapshotsAreSound
<1>2. CASE r \in db.elsewhere
  BY <1>1, <1>2 DEF IsSnapshot
<1>3. ASSUME NEW v \in Visit, db.visits[v].standing = "published", r = Period(v, db.visits[v].booking)
      PROVE  InOrder(r)
  <2>1. InOrder(db.visits[v].booking)
    BY <1>1, <1>3 DEF IsSnapshot
  <2>2. r.start = db.visits[v].booking.start /\ r.end = db.visits[v].booking.end
    BY <1>3 DEF Period
  <2>3. QED
    BY <2>1, <2>2 DEF InOrder
<1>4. QED
  BY <1>2, <1>3 DEF Reservations

OthersOf(v) == {Period(w, Proposal(w)) : w \in DOMAIN plan \ {v}}

LEMMA BookedApart ==
  ASSUME db \in Snapshots, PlanIsSound(plan), NEW v \in DOMAIN plan,
         NEW b \in Reservations \cup OthersOf(v),
         plan[v].crew \cap b.crew # {} \/ VansOf(plan[v]) \cap b.vehicles # {}
  PROVE  ~Overlap(plan[v], b) /\ ~TooFarApart(plan[v], b)
<1>1. InOrder(plan[v])
  BY EntryIs
<1>2. CASE b \in Reservations
  <2>1. InOrder(b)
    BY <1>2, ReservationsInOrder
  <2>2. Apart(plan[v], b)
    BY <1>2 DEF PlanIsSound, FreeOf
  <2>3. QED
    BY <1>1, <2>1, <2>2, ApartIsFine
<1>3. CASE b \in OthersOf(v)
  <2>1. PICK w \in DOMAIN plan \ {v} : b = Period(w, Proposal(w))
    BY <1>3 DEF OthersOf
  <2>2. /\ Proposal(w) = plan[w] /\ InOrder(plan[w]) /\ plan[w] \in Options(Ask(w))
    BY EntryIs
  <2>3. plan[w].site = Terms(w).site
    BY <2>2, OptionIs, AskIs
  <2>4. /\ b.start = plan[w].start /\ b.end = plan[w].end /\ b.site = plan[w].site
        /\ b.crew = plan[w].crew /\ b.vehicles = VansOf(plan[w])
    BY <2>1, <2>2, <2>3 DEF Period, VansOf
  <2>5. Compatible(plan[v], plan[w])
    BY DEF PlanIsSound
  <2>6. Apart(plan[v], plan[w])
    BY <2>4, <2>5 DEF Compatible
  <2>7. Apart(plan[v], b)
    BY <2>4, <2>6 DEF Apart
  <2>8. InOrder(b)
    BY <2>2, <2>4 DEF InOrder
  <2>9. QED
    BY <1>1, <2>7, <2>8, ApartIsFine
<1>4. QED
  BY <1>2, <1>3

LEMMA SoundVerdict ==
  ASSUME db \in Snapshots, PlanIsSound(plan), NEW v \in DOMAIN plan
  PROVE  Verdict(v) = IF AtStations(v) THEN {} ELSE {"EMPLOYEE_PERMANENTLY_STATIONED"}
<1> DEFINE visit == db.visits[v]
           p == Proposal(v)
           date == DayOf(p.start)
           terms == [status |-> visit.status, branch |-> Terms(v).branch, skills |-> Terms(v).skills,
                     crew |-> visit.crew, minutes |-> visit.minutes, date |-> date,
                     opens |-> date * DayMinutes + Window(v).opens,
                     closes |-> date * DayMinutes + Window(v).closes]
           booked == Reservations \cup OthersOf(v)
<1>1. /\ v \in Visit /\ v \in Solvable /\ p = plan[v] /\ p \in Options(Ask(v)) /\ InOrder(p)
      /\ p.end - p.start >= visit.minutes
      /\ TimePinned(v) => ~Moved(v)
      /\ ~Moved(v) => /\ MinuteOf(p.start) >= visit.opens
                      /\ p.end - visit.date * DayMinutes <= visit.closes
      /\ ~TimePinned(v) => p.end = p.start + visit.minutes
  BY EntryIs
<1>2. /\ visit.minutes \in Nat /\ visit.minutes # 0 /\ visit.opens \in Nat /\ visit.closes \in Nat
      /\ visit.date \in Nat /\ visit.crew \in Nat
  BY <1>1, SnapshotIs
<1>3. /\ p.crew \subseteq Able(Ask(v)) /\ Cardinality(p.crew) = visit.crew
      /\ \E e \in p.crew : db.staff[e].pms
      /\ \A s \in Terms(v).skills : \E e \in p.crew : s \in db.staff[e].skills
      /\ \A e \in p.crew : /\ e \in DOMAIN db.staff /\ db.staff[e].active
                           /\ db.staff[e].branch = Terms(v).branch
                           /\ date \notin db.staff[e].away
      /\ p.site = Terms(v).site /\ p.vehicles \in Rides(Ask(v), p.crew)
  <2>1. p.crew \in Crews(Ask(v)) /\ p.vehicles \in Rides(Ask(v), p.crew) /\ p.site = Ask(v).site
        /\ \A e \in p.crew : DayOf(p.start) \notin db.staff[e].away
    BY <1>1, OptionIs
  <2> HIDE DEF p
  <2>2. QED
    BY <2>1, CrewsAre, AskIs
<1>a. \/ \E k \in Vans(Ask(v)), e \in p.crew : p.vehicles = {[id |-> k, driver |-> e]} /\ k \in db.staff[e].drives
      \/ p.vehicles = {} /\ \A e \in p.crew : db.staff[e].transit
  <2> HIDE DEF p
  <2>1. QED
    BY <1>3, RidesAre
<1>4. p.start >= terms.opens /\ p.end <= terms.closes
  <2> DEFINE t == p.start  u == p.end  m == MinuteOf(t)
  <2>1. t \in Int /\ u \in Int /\ t = date * DayMinutes + m /\ date \in Int /\ m \in Nat
    BY <1>1, DayIsWhole DEF InOrder
  <2>2. CASE Moved(v)
    <3>1. u = t + visit.minutes
      BY <1>1, <2>2
    <3>2. Window(v) = [opens |-> m, closes |-> Max({visit.closes, m + visit.minutes})]
      BY <1>1, <2>2 DEF Window
    <3>3. m + visit.minutes \in Int /\ visit.closes \in Int
      BY <1>2, <2>1
    <3>4. Max({visit.closes, m + visit.minutes}) \in Int /\ Max({visit.closes, m + visit.minutes}) >= m + visit.minutes
      BY <3>3, MaxOfTwo, Zenon
    <3> DEFINE w == Max({visit.closes, m + visit.minutes})
    <3>5. terms.opens = date * DayMinutes + m /\ terms.closes = date * DayMinutes + w
      BY <3>2
    <3> HIDE DEF t, u, m, w, visit, date, terms
    <3>6. t >= terms.opens /\ u <= terms.closes
      BY <1>2, <2>1, <3>1, <3>4, <3>5 DEF w, DayMinutes
    <3>7. QED
      BY <3>6 DEF t, u
  <2>3. CASE ~Moved(v)
    <3>1. date = visit.date
      BY <1>1, <2>3 DEF Moved
    <3>2. Window(v) = [opens |-> visit.opens, closes |-> visit.closes]
      BY <2>3 DEF Window
    <3>3. m >= visit.opens /\ u - visit.date * DayMinutes <= visit.closes
      BY <1>1, <2>3
    <3>4. terms.opens = date * DayMinutes + visit.opens /\ terms.closes = date * DayMinutes + visit.closes
      BY <3>2
    <3> HIDE DEF t, u, m, visit, date, terms
    <3>5. t >= terms.opens /\ u <= terms.closes
      BY <1>2, <2>1, <3>1, <3>3, <3>4 DEF DayMinutes
    <3>6. QED
      BY <3>5 DEF t, u
  <2>4. QED
    BY <2>2, <2>3
<1>5. \A b \in booked : p.crew \cap b.crew # {} \/ VansOf(p) \cap b.vehicles # {}
         => ~Overlap(p, b) /\ ~TooFarApart(p, b)
  BY <1>1, BookedApart
<1>6. VisitConflicts(p, terms, FALSE) = {}
  <2>1. visit.status = "OPEN"
    BY <1>1 DEF Solvable
  <2>2. terms.status = "OPEN" /\ terms.minutes = visit.minutes
    BY <2>1
  <2>3. p.start \in Int /\ p.end \in Int /\ terms.opens \in Int /\ terms.closes \in Int
    <3>1. date \in Int
      BY <1>1, DayIsWhole DEF InOrder
    <3>2. Window(v).opens \in Int /\ Window(v).closes \in Int
      <4>1. MinuteOf(plan[v].start) \in Int
        BY <1>1, DayIsWhole DEF InOrder
      <4>2. MinuteOf(plan[v].start) + visit.minutes \in Int
        BY <1>2, <4>1
      <4>3. Max({visit.closes, MinuteOf(plan[v].start) + visit.minutes}) \in Int
        <5>1. visit.closes \in Int
          BY <1>2
        <5>2. QED
          BY <4>2, <5>1, MaxOfTwo, Zenon
      <4>4. QED
        BY <1>2, <4>1, <4>3 DEF Window
    <3> HIDE DEF date
    <3>3. QED
      BY <1>1, <3>1, <3>2 DEF InOrder, DayMinutes
  <2> HIDE DEF p, terms, visit
  <2>4. ~(p.end - p.start < terms.minutes) /\ ~(p.start < terms.opens) /\ ~(p.end > terms.closes)
    BY <1>1, <1>2, <1>4, <2>2, <2>3
  <2>5. QED
    BY <2>2, <2>4 DEF VisitConflicts
<1>7. CrewConflicts(p, terms, db.staff) = {}
  <2>1. p.vehicles = {} => \A e \in p.crew : db.staff[e].transit
    BY <1>a
  <2>2. Cardinality(p.vehicles) \in Nat /\ Cardinality(p.vehicles) <= 1
    <3> HIDE DEF p
    <3>1. CASE p.vehicles = {}
      BY <3>1, FS_EmptySet
    <3>2. ASSUME NEW x, p.vehicles = {x}
          PROVE  Cardinality(p.vehicles) = 1
      BY <3>2, FS_Singleton
    <3>3. QED
      BY <1>a, <3>1, <3>2
  <2>3. terms.crew = visit.crew /\ terms.skills = Terms(v).skills /\ terms.branch = Terms(v).branch
    OBVIOUS
  <2> HIDE DEF p, terms, visit
  <2>5. /\ ~(Cardinality(p.crew) < terms.crew) /\ ~(Cardinality(p.vehicles) > 1)
    BY <1>2, <1>3, <2>2, <2>3
  <2>6. QED
    BY <1>3, <2>1, <2>3, <2>5 DEF CrewConflicts
<1> DEFINE Here(e) == db.staff[e].stationed => Terms(v).site \in SitesOn(db.staff[e], date)
<1>8. ASSUME NEW e \in p.crew
      PROVE  PersonConflicts(p, terms, db.staff[e], EmployeeBusy(e, terms, booked))
               = IF Here(e) THEN {} ELSE {"EMPLOYEE_PERMANENTLY_STATIONED"}
  <2>1. \A b \in EmployeeBusy(e, terms, booked) : ~Overlap(p, b) /\ ~TooFarApart(p, b)
    BY <1>5 DEF EmployeeBusy, AroundDay
  <2>2. terms.branch = Terms(v).branch /\ terms.date = date
    OBVIOUS
  <2> HIDE DEF p, terms, visit, booked, date
  <2>3. QED
    BY <1>3, <2>1, <2>2 DEF PersonConflicts
<1>9. ASSUME NEW x \in p.vehicles
      PROVE  VehicleConflicts(p, terms, db.staff, x, db.fleet[x.id], VehicleBusy(x.id, terms, booked)) = {}
  <2>1. PICK k \in Vans(Ask(v)), e \in p.crew : p.vehicles = {[id |-> k, driver |-> e]} /\ k \in db.staff[e].drives
    BY <1>a
  <2>2. x.id = k /\ x.driver = e
    BY <2>1
  <2>3. k \in VansOf(p)
    BY <2>2 DEF VansOf
  <2>4. \A b \in VehicleBusy(x.id, terms, booked) : ~Overlap(p, b) /\ ~TooFarApart(p, b)
    BY <1>5, <2>2, <2>3 DEF VehicleBusy, AroundDay
  <2>5. /\ db.fleet[k].active /\ db.fleet[k].branch \in {Unknown, Terms(v).branch}
        /\ db.fleet[k].seats = NoLimit \/ db.fleet[k].seats >= visit.crew
    BY VansAre, AskIs
  <2>6. terms.branch = Terms(v).branch
    OBVIOUS
  <2>7. ~(db.fleet[k].seats # NoLimit /\ Cardinality(p.crew) > db.fleet[k].seats)
    <3>1. IsSnapshot(db) /\ k \in DOMAIN db.fleet
      BY SnapshotsAreSound, VansAre
    <3>2. db.fleet[k].seats \in Nat
      BY <3>1 DEF IsSnapshot
    <3> HIDE DEF p, visit
    <3>3. QED
      BY <1>2, <1>3, <2>5, <3>2
  <2> HIDE DEF p, terms, visit, booked, date
  <2>8. QED
    BY <2>1, <2>2, <2>4, <2>5, <2>6, <2>7 DEF VehicleConflicts
<1>10. Verdict(v) = Conflicts(p, terms, FALSE, db.staff, db.fleet, booked)
  BY DEF Verdict, OthersOf
<1>11. AtStations(v) <=> \A e \in p.crew : Here(e)
  BY <1>1 DEF AtStations
<1> DEFINE persons == UNION {PersonConflicts(p, terms, db.staff[e], EmployeeBusy(e, terms, booked)) : e \in p.crew}
<1> HIDE DEF p, terms, visit, booked, date, Here
<1>12. persons = IF \A e \in p.crew : Here(e) THEN {} ELSE {"EMPLOYEE_PERMANENTLY_STATIONED"}
  BY <1>8
<1>13. UNION {VehicleConflicts(p, terms, db.staff, x, db.fleet[x.id], VehicleBusy(x.id, terms, booked)) : x \in p.vehicles} = {}
  BY <1>9
<1>14. QED
  BY <1>6, <1>7, <1>10, <1>11, <1>12, <1>13 DEF Conflicts, persons

(***************************************************************************)
(* The date, the time and the window of an entry are legal, and the pins   *)
(* that can be honoured are kept.                                          *)
(***************************************************************************)
LEMMA SlotOfEntry ==
  ASSUME db \in Snapshots, PlanIsSound(plan), NEW v \in DOMAIN plan, ~TimePinned(v)
  PROVE  /\ <<DayOf(plan[v].start), MinuteOf(plan[v].start)>> \notin Occupied(v)
         /\ Protected(v) => ~Moved(v)
         /\ \E s \in IF Protected(v)
                       THEN ProtectedSlots(db.visits[v], Terms(v), db.visits[v].minutes)
                       ELSE CandidateSlots(db.visits[v], Terms(v), db.visits[v].minutes) :
              s.date = DayOf(plan[v].start) /\ MinuteOf(plan[v].start) \in s.earliest .. s.latest
<1>1. v \in Visit /\ plan[v] \in Options(Ask(v))
  BY EntryIs
<1>2. PICK s \in SlotsOf(v) : DayOf(plan[v].start) = s.date /\ MinuteOf(plan[v].start) \in s.earliest .. s.latest
  BY <1>1, OpenTime
<1>3. IF Protected(v) THEN /\ s.date = db.visits[v].date
                           /\ s \in ProtectedSlots(db.visits[v], Terms(v), db.visits[v].minutes)
      ELSE s \in CandidateSlots(db.visits[v], Terms(v), db.visits[v].minutes)
  BY <1>1, SlotsAre
<1>4. <<DayOf(plan[v].start), MinuteOf(plan[v].start)>> \notin Occupied(v)
  BY <1>1, OpenTime
<1>5. Protected(v) => ~Moved(v)
  BY <1>2, <1>3 DEF Moved
<1>6. QED
  BY <1>2, <1>3, <1>4, <1>5

LEMMA EntryIsLegal ==
  ASSUME db \in Snapshots, PlanIsSound(plan), NEW v \in DOMAIN plan, Honourable(v)
  PROVE  /\ Legal(v)
         /\ Moved(v) => <<DayOf(plan[v].start), MinuteOf(plan[v].start)>> \notin Occupied(v)
<1> DEFINE visit == db.visits[v]
           p == plan[v]
           slots == IF ~Moved(v) /\ Protected(v)
                      THEN ProtectedSlots(visit, Terms(v), p.end - p.start)
                      ELSE CandidateSlots(visit, Terms(v), visit.minutes)
<1>1. /\ v \in Visit /\ p \in Options(Ask(v)) /\ InOrder(p) /\ Proposal(v) = p
      /\ TimePinned(v) => ~Moved(v)
      /\ ~Moved(v) => MinuteOf(p.start) >= visit.opens /\ p.end - visit.date * DayMinutes <= visit.closes
      /\ ~TimePinned(v) => p.end = p.start + visit.minutes
  BY EntryIs
<1>2. Moved(v) => ~visit.booked /\ ~visit.held
  BY <1>1, SlotOfEntry DEF Protected
<1>3. \E s \in slots : s.date = DayOf(p.start) /\ MinuteOf(p.start) \in s.earliest .. s.latest
  <2>1. CASE TimePinned(v)
    <3>1. /\ p.start = visit.booking.start /\ p.end = visit.booking.end /\ DayOf(p.start) = visit.date
      BY <1>1, <2>1, PinnedTime
    <3>2. Pins(v) # {}
      BY <2>1 DEF TimePinned
    <3>3. PICK s \in ProtectedSlots(visit, Terms(v), visit.booking.end - visit.booking.start) :
             MinuteOf(visit.booking.start) \in s.earliest .. s.latest
      BY <2>1, <3>2 DEF Honourable
    <3>4. s.date = visit.date
      <4>1. /\ visit.date \in Day /\ InHours(Terms(v)) /\ InHours(visit)
            /\ \A d \in Day : \A w \in db.hours[Terms(v).site][d] : InHours(w)
        BY <1>1, SnapshotIs DEF InHours
      <4>2. visit.booking.end - visit.booking.start \in Int
        <5>1. p.start \in Int /\ p.end \in Int
          BY <1>1 DEF InOrder
        <5> HIDE DEF p, visit
        <5>2. QED
          BY <3>1, <5>1
      <4> DEFINE minutes == visit.booking.end - visit.booking.start
      <4>3. s \in ProtectedSlots(visit, Terms(v), minutes)
        OBVIOUS
      <4> HIDE DEF visit, minutes
      <4>4. minutes \in Int
        BY <4>2 DEF minutes
      <4>5. QED
        BY <4>1, <4>3, <4>4, ProtectedSlotsAre
    <3>5. ~Moved(v) /\ Protected(v)
      BY <1>1, <2>1 DEF Protected
    <3>6. QED
      BY <3>1, <3>3, <3>4, <3>5
  <2>2. CASE ~TimePinned(v)
    <3>1. /\ Protected(v) => ~Moved(v)
          /\ \E s \in IF Protected(v) THEN ProtectedSlots(visit, Terms(v), visit.minutes)
                      ELSE CandidateSlots(visit, Terms(v), visit.minutes) :
               s.date = DayOf(p.start) /\ MinuteOf(p.start) \in s.earliest .. s.latest
      BY <2>2, SlotOfEntry
    <3>2. p.end - p.start = visit.minutes
      <4>1. visit.minutes \in Nat /\ p.start \in Int /\ p.end = p.start + visit.minutes
        BY <1>1, <2>2, SnapshotIs DEF InOrder
      <4> HIDE DEF p, visit
      <4>2. QED
        BY <4>1
    <3> HIDE DEF p, visit
    <3>3. QED
      BY <3>1, <3>2
  <2>3. QED
    BY <2>1, <2>2
<1>4. Legal(v)
  <2> HIDE DEF p, visit, slots
  <2>1. QED
    BY <1>1, <1>2, <1>3 DEF Legal, p, visit, slots
<1>5. QED
  BY <1>1, <1>4, SlotOfEntry

LEMMA PinsAreKept ==
  ASSUME db \in Snapshots, PlanIsSound(plan), NEW v \in DOMAIN plan, Honourable(v)
  PROVE  KeepsPins(v)
<1> DEFINE lock == db.visits[v].booking
           p == plan[v]
           q == Ask(v)
           graded == {e \in p.crew : db.staff[e].pms}
<1>1. v \in Visit /\ p \in Options(q) /\ Proposal(v) = p
  BY EntryIs
<1>2. q.pins = Pins(v) /\ q.lock = lock
  BY AskIs
<1>3. HonoursPins(q, p)
  BY <1>1, OptionIs
<1>4. Pins(v) \cap {"FULL", "TIME"} # {} => p.start = lock.start /\ p.end = lock.end
  BY <1>1, PinnedTime DEF TimePinned
<1> HIDE DEF p, q, lock
<1>5. /\ Pins(v) \cap {"FULL", "CREW"} # {} => p.crew = lock.crew
      /\ Pins(v) \cap {"SUPERVISOR"} # {} => \A e \in Leads(lock) : e \in p.crew /\ db.staff[e].pms
      /\ Pins(v) \cap {"FULL", "VEHICLE"} # {} => p.vehicles = lock.vehicles
  BY <1>2, <1>3 DEF HonoursPins, Pinned
<1>6. ASSUME Pins(v) \cap {"FULL", "SUPERVISOR"} # {}
      PROVE  LeadsOf(v) = {Leads(lock)}
  <2>1. Pins(v) # {}
    BY <1>6
  <2>2. Leads(lock) # {}
    BY <1>1, <2>1, DraftIs DEF lock
  <2>3. Leads(lock) \subseteq {e \in lock.crew : db.staff[e].pms}
    BY <2>1 DEF Honourable, lock
  <2>4. Leads(lock) \subseteq graded
    <3>1. CASE "SUPERVISOR" \in Pins(v)
      BY <1>5, <3>1
    <3>2. CASE "FULL" \in Pins(v)
      BY <1>5, <2>3, <3>2
    <3>3. QED
      BY <1>6, <3>1, <3>2
  <2>5. Pinned(q, {"SUPERVISOR", "FULL"})
    BY <1>2, <1>6 DEF Pinned
  <2> HIDE DEF graded
  <2>6. LeadsOf(v) = LET kept == IF Pinned(q, {"SUPERVISOR", "FULL"}) THEN Leads(lock) \cap graded ELSE {}
                     IN IF kept # {} THEN {kept} ELSE {{e} : e \in graded}
    BY DEF LeadsOf, graded, p, q, lock
  <2>7. Leads(lock) \cap graded = Leads(lock)
    BY <2>4
  <2>8. QED
    BY <2>2, <2>5, <2>6, <2>7
<1>7. QED
  BY <1>1, <1>4, <1>5, <1>6 DEF KeepsPins, lock, p

(***************************************************************************)
(* A reason that is not advice leaves no option.                           *)
(***************************************************************************)
LEMMA ReasonsHold ==
  ASSUME db \in Snapshots, NEW v \in Visit, Reasons(Ask(v)) \ Advisory # {}
  PROVE  Options(Ask(v)) = {}
<1> DEFINE q == Ask(v)
<1> SUFFICES ASSUME NEW c \in Options(q) PROVE FALSE
  OBVIOUS
<1>1. /\ c.start \in Starts(q) /\ c.crew \in Crews(q) /\ c.vehicles \in Rides(q, c.crew)
      /\ q.closes - q.opens >= q.minutes
  BY OptionIs
<1>2. /\ c.crew \subseteq Able(q) /\ Cardinality(c.crew) = q.crew
      /\ \E e \in c.crew : db.staff[e].pms
      /\ \A s \in q.skills : \E e \in c.crew : s \in db.staff[e].skills
      /\ \A e \in c.crew : e \in DOMAIN db.staff /\ db.staff[e].active /\ db.staff[e].branch = q.branch
  BY <1>1, CrewsAre
<1>3. Timed(q) => q.slots = {}
  <2>1. Timed(q) <=> TimePinned(v)
    BY AskIs
  <2>2. q.slots = SlotsOf(v)
    BY AskIs
  <2>3. QED
    BY <2>1, <2>2 DEF SlotsOf
<1>4. q.crew \in Nat /\ q.opens \in Nat /\ q.closes \in Nat /\ q.minutes \in Nat
  BY AskIs, SnapshotIs
<1>5. IsFiniteSet(Able(q))
  <2>1. IsFiniteSet(DOMAIN db.staff)
    BY SnapshotsAreSound DEF IsSnapshot
  <2>2. Able(q) \subseteq DOMAIN db.staff
    BY DEF Able, Staff
  <2>3. QED
    BY <2>1, <2>2, FS_Subset
<1>6. ~Timed(q) => \E s \in q.slots : s.earliest <= s.latest
  <2> SUFFICES ASSUME ~Timed(q) PROVE \E s \in q.slots : s.earliest <= s.latest
    OBVIOUS
  <2> HIDE DEF q
  <2>0. c.start \in Starts(q)
    BY <1>1
  <2>1. PICK s \in q.slots : \E m : StartAt(q, c.start, s, m)
    BY <2>0, StartsAre, Zenon
  <2>2. s \in SlotsOf(v)
    BY <2>1, AskIs DEF q
  <2>3. s.earliest <= s.latest
    BY <2>2, SlotsAre
  <2>4. QED
    BY <2>3
<1> DEFINE branch == {e \in Staff : db.staff[e].branch = q.branch}
           vans == {k \in Fleet : db.fleet[k].branch \in {Unknown, q.branch}}
<1>7. c.crew \subseteq branch
  BY <1>2 DEF Staff
<1>8. ~CannotTravel(q)
  <2> SUFFICES ASSUME CannotTravel(q) PROVE FALSE
    OBVIOUS
  <2> DEFINE walkers == {e \in Able(q) : db.staff[e].transit}
  <2> HIDE DEF q
  <2>1. /\ ~\E k \in Vans(q), e \in Able(q) : k \in db.staff[e].drives
        /\ Cardinality(walkers) < q.crew
    BY DEF CannotTravel
  <2>2. c.crew \subseteq walkers
    BY <1>1, <1>2, <2>1, RidesAre
  <2>3. IsFiniteSet(walkers)
    BY <1>5, FS_Subset
  <2> HIDE DEF walkers
  <2>4. Cardinality(c.crew) <= Cardinality(walkers) /\ Cardinality(walkers) \in Nat
    BY <2>2, <2>3, FS_Subset, FS_CardinalityType
  <2>5. QED
    BY <1>2, <1>4, <2>1, <2>4
<1>9. ~(Cardinality(Able(q)) < q.crew)
  <2> HIDE DEF q
  <2>1. Cardinality(c.crew) <= Cardinality(Able(q)) /\ Cardinality(Able(q)) \in Nat
    BY <1>2, <1>5, FS_Subset, FS_CardinalityType
  <2>2. QED
    BY <1>2, <1>4, <2>1
<1>10. ~(q.slots = {} /\ ~Timed(q))
  BY <1>6
<1>11. ~(IF q.slots # {} THEN \A s \in q.slots : s.earliest > s.latest ELSE q.closes - q.opens < q.minutes)
  <2>1. ASSUME q.slots # {} PROVE ~ \A s \in q.slots : s.earliest > s.latest
    <3>1. PICK s \in q.slots : s.earliest <= s.latest
      BY <1>3, <1>6, <2>1
    <3>2. s \in SlotsOf(v)
      BY <3>1, AskIs
    <3>3. s.earliest \in Int /\ s.latest \in Int
      BY <3>2, SlotsAre
    <3> HIDE DEF q
    <3>4. QED
      BY <3>1, <3>3
  <2> HIDE DEF q
  <2>2. ~(q.closes - q.opens < q.minutes)
    BY <1>1, <1>4
  <2>3. QED
    BY <2>1, <2>2
<1>12. PICK code \in Reasons(q) : code # "NO_AUTHORIZED_DRIVER"
  BY DEF Advisory
<1> HIDE DEF q, branch, vans
<1>13. QED
  BY <1>2, <1>7, <1>8, <1>9, <1>10, <1>11, <1>12 DEF Reasons, branch

(***************************************************************************)
(* The crew picker asks what the engine asks of one person.                *)
(***************************************************************************)
LEMMA PickerIs ==
  ASSUME NEW p, NEW visit, NEW person, NEW booked, person.active, person.branch = visit.branch
  PROVE  PickerReason(p, visit, person, booked) = ""
           <=> PersonConflicts(p, visit, person, AroundDay(visit.date, booked)) = {}
<1> DEFINE around == AroundDay(visit.date, booked)
           clear == /\ visit.date \notin person.away
                    /\ ~(person.stationed /\ p.site \notin SitesOn(person, visit.date))
                    /\ ~\E b \in around : Overlap(p, b)
                    /\ ~\E b \in around : TooFarApart(p, b)
<1> HIDE DEF around
<1>1. PersonConflicts(p, visit, person, around) = {} <=> clear
  BY DEF PersonConflicts
<1>2. PickerReason(p, visit, person, booked) = "" <=> clear
  BY DEF PickerReason, StationedElsewhere, around
<1>3. QED
  BY <1>1, <1>2 DEF around

(***************************************************************************)
(* What a window allows: the fold over its visits builds every plan that   *)
(* gives some of them an option, free of what is reserved and compatible   *)
(* with each other.                                                        *)
(***************************************************************************)
Fits(asks, reserved, s, p) ==
  /\ p = [v \in DOMAIN p |-> p[v]]
  /\ DOMAIN p \subseteq s
  /\ \A v \in DOMAIN p : p[v] \in Options(asks[v]) /\ FreeOf(p[v], reserved)
  /\ \A v, w \in DOMAIN p : v # w => Compatible(p[v], p[w])

Grown(asks, reserved, v, plans) ==
  plans \cup {Staffs(pc[1], v, pc[2]) :
    pc \in {x \in plans \X {c \in Options(asks[v]) : FreeOf(c, reserved)} :
              \A w \in DOMAIN x[1] : Compatible(x[1][w], x[2])}}

LEMMA CompatibleBothWays ==
  ASSUME NEW c, NEW d, Compatible(c, d)
  PROVE  Compatible(d, c)
<1>1. Apart(c, d) => Apart(d, c)
  BY Zenon DEF Apart
<1>2. c.crew \cap d.crew = d.crew \cap c.crew /\ VansOf(c) \cap VansOf(d) = VansOf(d) \cap VansOf(c)
  OBVIOUS
<1>3. (d.crew \cap c.crew # {} \/ VansOf(d) \cap VansOf(c) # {}) => Apart(d, c)
  BY <1>1, <1>2 DEF Compatible
<1>4. d.agreement = c.agreement => DayOf(d.start) # DayOf(c.start)
  BY DEF Compatible
<1>5. QED
  BY <1>3, <1>4 DEF Compatible

LEMMA GrownIs ==
  ASSUME NEW asks, NEW reserved, NEW v, NEW plans, NEW p
  PROVE  p \in Grown(asks, reserved, v, plans) <=>
           \/ p \in plans
           \/ \E q \in plans, c \in Options(asks[v]) :
                /\ FreeOf(c, reserved) /\ \A w \in DOMAIN q : Compatible(q[w], c)
                /\ p = Staffs(q, v, c)
<1> DEFINE free == {c \in Options(asks[v]) : FreeOf(c, reserved)}
           pairs == {x \in plans \X free : \A w \in DOMAIN x[1] : Compatible(x[1][w], x[2])}
<1>1. p \in Grown(asks, reserved, v, plans) <=> p \in plans \/ \E pc \in pairs : p = Staffs(pc[1], v, pc[2])
  BY DEF Grown
<1>2. ASSUME NEW pc \in pairs, p = Staffs(pc[1], v, pc[2])
      PROVE  \E q \in plans, c \in Options(asks[v]) :
                /\ FreeOf(c, reserved) /\ \A w \in DOMAIN q : Compatible(q[w], c)
                /\ p = Staffs(q, v, c)
  <2>1. pc[1] \in plans /\ pc[2] \in free /\ \A w \in DOMAIN pc[1] : Compatible(pc[1][w], pc[2])
    OBVIOUS
  <2>2. QED
    BY <1>2, <2>1
<1>3. ASSUME NEW q \in plans, NEW c \in Options(asks[v]), FreeOf(c, reserved),
             \A w \in DOMAIN q : Compatible(q[w], c), p = Staffs(q, v, c)
      PROVE  \E pc \in pairs : p = Staffs(pc[1], v, pc[2])
  <2> DEFINE pc == <<q, c>>
  <2>1. pc[1] = q /\ pc[2] = c /\ pc \in plans \X free
    BY <1>3
  <2>2. pc \in pairs
    BY <1>3, <2>1
  <2>3. p = Staffs(pc[1], v, pc[2])
    BY <1>3, <2>1
  <2> HIDE DEF pc, pairs
  <2>4. QED
    BY <2>2, <2>3
<1> HIDE DEF pairs
<1>4. QED
  BY <1>1, <1>2, <1>3

LEMMA JoiningFits ==
  ASSUME NEW asks, NEW reserved, NEW s, NEW q, Fits(asks, reserved, s, q), NEW v, v \notin DOMAIN q,
         NEW c \in Options(asks[v]), FreeOf(c, reserved), \A w \in DOMAIN q : Compatible(q[w], c)
  PROVE  Fits(asks, reserved, s \cup {v}, Staffs(q, v, c))
<1> DEFINE p == Staffs(q, v, c)
<1>1. DOMAIN q \subseteq s
  BY DEF Fits
<1>2. /\ p = [w \in DOMAIN p |-> p[w]] /\ DOMAIN p = DOMAIN q \cup {v} /\ p[v] = c
      /\ \A w \in DOMAIN q : w # v /\ p[w] = q[w]
  BY DEF Staffs
<1> HIDE DEF p
<1>3. \A w \in DOMAIN p : p[w] \in Options(asks[w]) /\ FreeOf(p[w], reserved)
  BY <1>2 DEF Fits
<1>4. ASSUME NEW w \in DOMAIN p, NEW x \in DOMAIN p, w # x
      PROVE  Compatible(p[w], p[x])
  <2>1. CASE w \in DOMAIN q /\ x \in DOMAIN q
    BY <1>2, <1>4, <2>1 DEF Fits
  <2>2. CASE w \in DOMAIN q /\ x = v
    BY <1>2, <2>2
  <2>3. CASE w = v /\ x \in DOMAIN q
    <3>1. Compatible(q[x], c)
      BY <2>3
    <3>2. QED
      BY <1>2, <2>3, <3>1, CompatibleBothWays
  <2>4. QED
    BY <1>2, <1>4, <2>1, <2>2, <2>3
<1>5. DOMAIN p \subseteq s \cup {v}
  BY <1>1, <1>2
<1>6. Fits(asks, reserved, s \cup {v}, p)
  BY <1>2, <1>3, <1>4, <1>5 DEF Fits
<1>7. QED
  BY <1>6 DEF p

\* One more visit: what fits with it is what fits without it, or that with an
\* option for the visit.
LEMMA GrowingFits ==
  ASSUME NEW asks, NEW reserved, NEW s, NEW v \in s, NEW plans,
         \A p : p \in plans <=> Fits(asks, reserved, s \ {v}, p), NEW p
  PROVE  p \in Grown(asks, reserved, v, plans) <=> Fits(asks, reserved, s, p)
<1>1. ASSUME Fits(asks, reserved, s \ {v}, p) PROVE Fits(asks, reserved, s, p)
  BY <1>1 DEF Fits
<1>2. ASSUME NEW q \in plans, NEW c \in Options(asks[v]), FreeOf(c, reserved),
             \A w \in DOMAIN q : Compatible(q[w], c), p = Staffs(q, v, c)
      PROVE  Fits(asks, reserved, s, p)
  <2>1. Fits(asks, reserved, s \ {v}, q)
    OBVIOUS
  <2>2. v \notin DOMAIN q
    BY <2>1 DEF Fits
  <2>3. Fits(asks, reserved, (s \ {v}) \cup {v}, Staffs(q, v, c))
    BY <1>2, <2>1, <2>2, JoiningFits
  <2>4. (s \ {v}) \cup {v} = s
    OBVIOUS
  <2>5. QED
    BY <1>2, <2>3, <2>4
<1>3. ASSUME Fits(asks, reserved, s, p), v \notin DOMAIN p
      PROVE  Fits(asks, reserved, s \ {v}, p)
  BY <1>3 DEF Fits
<1>4. ASSUME Fits(asks, reserved, s, p), v \in DOMAIN p
      PROVE  \E q \in plans, c \in Options(asks[v]) :
                /\ FreeOf(c, reserved) /\ \A w \in DOMAIN q : Compatible(q[w], c)
                /\ p = Staffs(q, v, c)
  <2> DEFINE q == [w \in DOMAIN p \ {v} |-> p[w]]
  <2>1. DOMAIN q = DOMAIN p \ {v} /\ (\A w \in DOMAIN q : q[w] = p[w]) /\ q = [w \in DOMAIN q |-> q[w]]
    OBVIOUS
  <2>2. p = Staffs(q, v, p[v])
    <3>1. p = [w \in DOMAIN p |-> p[w]]
      BY <1>4 DEF Fits
    <3>2. DOMAIN q \cup {v} = DOMAIN p
      BY <1>4, <2>1
    <3>3. \A w \in DOMAIN p : (IF w = v THEN p[v] ELSE q[w]) = p[w]
      BY <2>1
    <3> HIDE DEF q
    <3>4. Staffs(q, v, p[v]) = [w \in DOMAIN p |-> p[w]]
      BY <3>2, <3>3 DEF Staffs
    <3>5. QED
      BY <3>1, <3>4
  <2> HIDE DEF q
  <2>3. Fits(asks, reserved, s \ {v}, q)
    BY <1>4, <2>1 DEF Fits
  <2>4. q \in plans
    BY <2>3
  <2>5. p[v] \in Options(asks[v]) /\ FreeOf(p[v], reserved)
    BY <1>4 DEF Fits
  <2>6. \A w \in DOMAIN q : Compatible(q[w], p[v])
    BY <1>4, <2>1 DEF Fits
  <2>7. QED
    BY <2>2, <2>4, <2>5, <2>6
<1>5. QED
  BY <1>1, <1>2, <1>3, <1>4, GrownIs

PlansRecur(g, asks, reserved) ==
  g = [s \in SUBSET DOMAIN asks |->
         IF s = {} THEN {<<>>}
         ELSE LET x == CHOOSE x \in s : TRUE IN Grown(asks, reserved, x, g[s \ {x}])]

LEMMA PlansExist ==
  ASSUME NEW asks, IsFiniteSet(DOMAIN asks), NEW reserved
  PROVE  \E g : PlansRecur(g, asks, reserved) /\ Plans(asks, reserved) = g[DOMAIN asks]
<1> DEFINE D == DOMAIN asks
           All == UNION {Options(asks[v]) : v \in D}
           Some == UNION {[t -> All] : t \in SUBSET D}
           X == SUBSET Some
           pick == [s \in SUBSET D |-> CHOOSE x \in s : TRUE]
           turn == [x \in (SUBSET D) \X X |->
                      IF x[1] = {} THEN {<<>>} ELSE Grown(asks, reserved, CHOOSE y \in x[1] : TRUE, x[2])]
           fold == CHOOSE g : PlansRecur(g, asks, reserved)
<1>1. \A s \in SUBSET D : s # {} => pick[s] \in s /\ pick[s] = CHOOSE x \in s : TRUE
  OBVIOUS
<1>2. {<<>>} \in X
  <2>1. <<>> \in [{} -> All]
    OBVIOUS
  <2>2. {} \in SUBSET D
    OBVIOUS
  <2>3. <<>> \in Some
    BY <2>1, <2>2
  <2> HIDE DEF Some
  <2>4. QED
    BY <2>3
<1>3. ASSUME NEW v \in D, NEW plans \in X PROVE Grown(asks, reserved, v, plans) \in X
  <2> SUFFICES ASSUME NEW p \in Grown(asks, reserved, v, plans) PROVE p \in Some
    OBVIOUS
  <2>1. CASE p \in plans
    BY <2>1
  <2>2. ASSUME NEW q \in plans, NEW c \in Options(asks[v]), p = Staffs(q, v, c)
        PROVE  p \in Some
    <3>1. PICK t \in SUBSET D : q \in [t -> All]
      OBVIOUS
    <3>2. c \in All
      OBVIOUS
    <3> HIDE DEF All
    <3>3. DOMAIN q = t /\ \A w \in t : q[w] \in All
      BY <3>1
    <3>4. Staffs(q, v, c) \in [t \cup {v} -> All]
      BY <3>2, <3>3 DEF Staffs
    <3>5. t \cup {v} \in SUBSET D
      OBVIOUS
    <3>6. QED
      BY <2>2, <3>4, <3>5
  <2> HIDE DEF Some, X
  <2>3. QED
    BY <2>1, <2>2, GrownIs
<1>4. turn \in [(SUBSET D) \X X -> X]
  <2> HIDE DEF X
  <2>1. \A x \in (SUBSET D) \X X : turn[x] \in X
    <3> SUFFICES ASSUME NEW x \in (SUBSET D) \X X PROVE turn[x] \in X
      OBVIOUS
    <3>1. x[1] \in SUBSET D /\ x[2] \in X
      OBVIOUS
    <3>2. CASE x[1] = {}
      BY <1>2, <3>2
    <3>3. CASE x[1] # {}
      <4>1. (CHOOSE y \in x[1] : TRUE) \in D
        BY <3>1, <3>3
      <4>2. Grown(asks, reserved, CHOOSE y \in x[1] : TRUE, x[2]) \in X
        BY <1>3, <3>1, <4>1, Zenon
      <4>3. QED
        BY <3>3, <4>2
    <3>4. QED
      BY <3>2, <3>3
  <2>2. turn = [x \in (SUBSET D) \X X |-> turn[x]]
    OBVIOUS
  <2> HIDE DEF turn
  <2>3. QED
    BY <2>1, <2>2
<1>5. PICK g \in [SUBSET D -> X] : Recurses(g, SUBSET D, {<<>>}, turn, pick)
  <2> HIDE DEF pick, turn, X, D
  <2>1. IsFiniteSet(D)
    BY DEF D
  <2> QED
    BY <1>1, <1>2, <1>4, <2>1, RecursionExists
<1>6. ASSUME NEW s \in SUBSET D, s # {}
      PROVE  g[s] = Grown(asks, reserved, CHOOSE x \in s : TRUE, g[s \ {CHOOSE x \in s : TRUE}])
  <2> DEFINE x == CHOOSE x \in s : TRUE
  <2>1. g[s] = turn[<<s, g[s \ {x}]>>]
    BY <1>1, <1>5, <1>6 DEF Recurses
  <2>2. <<s, g[s \ {x}]>> \in (SUBSET D) \X X
    <3> HIDE DEF X, x
    <3>1. g[s \ {x}] \in X
      BY <1>5
    <3>2. QED
      BY <3>1
  <2> HIDE DEF X
  <2>3. QED
    BY <1>6, <2>1, <2>2
<1>7. g[{}] = {<<>>}
  BY <1>5 DEF Recurses
<1>8. PlansRecur(g, asks, reserved)
  <2> HIDE DEF X, turn, pick
  <2>1. g = [s \in SUBSET DOMAIN asks |-> g[s]]
    BY <1>5
  <2>2. \A s \in SUBSET DOMAIN asks :
           g[s] = IF s = {} THEN {<<>>}
                  ELSE LET x == CHOOSE x \in s : TRUE IN Grown(asks, reserved, x, g[s \ {x}])
    BY <1>6, <1>7
  <2>3. QED
    BY <2>1, <2>2 DEF PlansRecur
<1>9. PlansRecur(fold, asks, reserved)
  BY <1>8
<1>10. Plans(asks, reserved) = fold[D]
  BY DEF Plans, FoldSet, MapThenFoldSet, PlansRecur, Grown
<1>11. QED
  BY <1>9, <1>10

LEMMA PlansAre ==
  ASSUME NEW asks, IsFiniteSet(DOMAIN asks), NEW reserved
  PROVE  \A p : p \in Plans(asks, reserved) <=> Fits(asks, reserved, DOMAIN asks, p)
<1> DEFINE D == DOMAIN asks
<1>1. PICK g : PlansRecur(g, asks, reserved) /\ Plans(asks, reserved) = g[D]
  BY PlansExist
<1> DEFINE Kept == {x \in {<<s, g[s]>> : s \in SUBSET D} :
                      \A p : p \in x[2] <=> Fits(asks, reserved, x[1], p)}
<1>2. ASSUME NEW s \in SUBSET D
      PROVE  <<s, g[s]>> \in Kept <=> \A p : p \in g[s] <=> Fits(asks, reserved, s, p)
  OBVIOUS
<1> HIDE DEF Kept
<1>3. <<{}, g[{}]>> \in Kept
  <2>1. g[{}] = {<<>>}
    BY <1>1 DEF PlansRecur
  <2>2. ASSUME NEW p PROVE p = <<>> <=> Fits(asks, reserved, {}, p)
    <3>1. ASSUME p = <<>> PROVE Fits(asks, reserved, {}, p)
      <4>1. DOMAIN p = {} /\ p = [v \in DOMAIN p |-> p[v]]
        BY <3>1
      <4>2. QED
        BY <4>1 DEF Fits
    <3>2. ASSUME Fits(asks, reserved, {}, p) PROVE p = <<>>
      <4>1. DOMAIN p = {} /\ p = [v \in DOMAIN p |-> p[v]]
        BY <3>2 DEF Fits
      <4>2. p = [v \in {} |-> p[v]]
        BY <4>1
      <4>3. QED
        BY <4>2
    <3>3. QED
      BY <3>1, <3>2
  <2>3. {} \in SUBSET D
    OBVIOUS
  <2>4. QED
    BY <1>2, <2>1, <2>2, <2>3
<1>4. ASSUME NEW s \in SUBSET D, s # {}
      PROVE  \E x \in s : <<s \ {x}, g[s \ {x}]>> \in Kept => <<s, g[s]>> \in Kept
  <2> DEFINE x == CHOOSE x \in s : TRUE
  <2>1. x \in s
    BY <1>4
  <2>2. g[s] = Grown(asks, reserved, x, g[s \ {x}])
    BY <1>1, <1>4 DEF PlansRecur
  <2> HIDE DEF x
  <2>3. ASSUME <<s \ {x}, g[s \ {x}]>> \in Kept PROVE <<s, g[s]>> \in Kept
    <3>1. \A p : p \in g[s \ {x}] <=> Fits(asks, reserved, s \ {x}, p)
      <4>1. s \ {x} \in SUBSET D
        OBVIOUS
      <4>2. QED
        BY <1>2, <2>3, <4>1
    <3>2. ASSUME NEW p PROVE p \in g[s] <=> Fits(asks, reserved, s, p)
      <4>1. p \in Grown(asks, reserved, x, g[s \ {x}]) <=> Fits(asks, reserved, s, p)
        BY <2>1, <3>1, GrowingFits
      <4>2. QED
        BY <2>2, <4>1
    <3>3. QED
      BY <1>2, <3>2
  <2>4. QED
    BY <2>1, <2>3
<1>5. \A s \in SUBSET D : <<s, g[s]>> \in Kept
  BY <1>3, <1>4, RecursionKeeps
<1>6. D \in SUBSET D
  OBVIOUS
<1>7. QED
  BY <1>1, <1>2, <1>5, <1>6

LEMMA AsksAre ==
  ASSUME db \in Snapshots, NEW visits \in SUBSET Solvable
  PROVE  /\ IsFiniteSet(visits) /\ DOMAIN Asks(visits) = visits
         /\ \A v \in visits : Asks(visits)[v] = Ask(v)
<1>1. visits \subseteq Visit
  BY DEF Solvable
<1>2. IsFiniteSet(visits)
  BY <1>1, SnapshotsAreSound, FS_Subset
<1>3. QED
  BY <1>2 DEF Asks

\* Plans over some of the visits, and the sound plans.
LEMMA SoundPlans ==
  ASSUME db \in Snapshots, NEW visits \in SUBSET Solvable, NEW p
  PROVE  p \in Plans(Asks(visits), Reservations) <=> PlanIsSound(p) /\ DOMAIN p \subseteq visits
<1>1. /\ IsFiniteSet(visits) /\ DOMAIN Asks(visits) = visits
      /\ \A v \in visits : Asks(visits)[v] = Ask(v)
  BY AsksAre
<1>2. p \in Plans(Asks(visits), Reservations) <=> Fits(Asks(visits), Reservations, visits, p)
  BY <1>1, PlansAre
<1>3. Fits(Asks(visits), Reservations, visits, p) <=> PlanIsSound(p) /\ DOMAIN p \subseteq visits
  <2>1. ASSUME Fits(Asks(visits), Reservations, visits, p) PROVE PlanIsSound(p) /\ DOMAIN p \subseteq visits
    BY <1>1, <2>1 DEF Fits, PlanIsSound
  <2>2. ASSUME PlanIsSound(p), DOMAIN p \subseteq visits PROVE Fits(Asks(visits), Reservations, visits, p)
    BY <1>1, <2>2 DEF Fits, PlanIsSound
  <2>3. QED
    BY <2>1, <2>2
<1>4. QED
  BY <1>2, <1>3

(***************************************************************************)
(* What an ordinary visit may choose from on one day is what it may choose *)
(* from at all, that day.                                                  *)
(***************************************************************************)
LEMMA OptionOf ==
  ASSUME NEW q, NEW c,
         c.start \in Starts(q), c.end = c.start + Length(q), c.crew \in Crews(q),
         c.vehicles \in Rides(q, c.crew), c.site = q.site, c.agreement = q.agreement,
         c = [start |-> c.start, end |-> c.end, crew |-> c.crew, vehicles |-> c.vehicles,
              site |-> c.site, agreement |-> c.agreement],
         q.closes - q.opens >= q.minutes,
         \A e \in c.crew : DayOf(c.start) \notin db.staff[e].away,
         HonoursPins(q, c)
  PROVE  c \in Options(q)
<1>1. c.vehicles \in UNION {Rides(q, x) : x \in Crews(q)}
  OBVIOUS
<1>2. \E s \in Starts(q), crew \in Crews(q), ride \in UNION {Rides(q, x) : x \in Crews(q)} :
        c = [start |-> s, end |-> s + Length(q), crew |-> crew, vehicles |-> ride,
             site |-> q.site, agreement |-> q.agreement]
  <2> DEFINE s == c.start  crew == c.crew  ride == c.vehicles
  <2>1. c = [start |-> s, end |-> s + Length(q), crew |-> crew, vehicles |-> ride,
             site |-> q.site, agreement |-> q.agreement]
    OBVIOUS
  <2>2. s \in Starts(q) /\ crew \in Crews(q) /\ ride \in UNION {Rides(q, x) : x \in Crews(q)}
    BY <1>1
  <2> HIDE DEF s, crew, ride
  <2>3. QED
    BY <2>1, <2>2
<1>3. QED
  BY <1>2, OptionsAre

LEMMA NarrowedIs ==
  ASSUME NEW v, NEW d
  PROVE  LET q == Ask(v)  n == NarrowedTo(q, d) IN
         /\ n.agreement = q.agreement /\ n.branch = q.branch /\ n.site = q.site /\ n.skills = q.skills
         /\ n.opens = q.opens /\ n.closes = q.closes /\ n.minutes = q.minutes /\ n.crew = q.crew
         /\ n.occupied = q.occupied /\ n.pins = q.pins /\ n.lock = q.lock
         /\ n.slots = {s \in q.slots : s.date = d}
BY DEF NarrowedTo, Ask

LEMMA OrdinaryIs ==
  ASSUME NEW v \in Solvable \ Locked
  PROVE  v \in Visit /\ Pins(v) = {} /\ ~TimePinned(v) /\ ~Timed(Ask(v))
<1>1. v \in Visit /\ Pins(v) = {}
  BY DEF Solvable, Locked
<1>2. ~TimePinned(v)
  BY <1>1 DEF TimePinned
<1>3. QED
  BY <1>1, <1>2, AskIs

LEMMA NarrowedStarts ==
  ASSUME db \in Snapshots, NEW v \in Solvable \ Locked, NEW d, NEW t
  PROVE  t \in Starts(NarrowedTo(Ask(v), d)) <=>
           /\ t \in Starts(Ask(v)) /\ DayOf(t) = d
           /\ \E s \in Ask(v).slots : s.date = d
<1> DEFINE q == Ask(v)
           n == NarrowedTo(q, d)
           At(s, m) == StartAt(q, t, s, m)
<1>1. v \in Visit /\ ~Timed(q) /\ ~TimePinned(v) /\ Pins(v) = {}
  BY OrdinaryIs
<1>2. /\ n.minutes = q.minutes /\ n.occupied = q.occupied /\ n.pins = q.pins
      /\ n.slots = {s \in q.slots : s.date = d}
  BY NarrowedIs
<1> HIDE DEF q, n
<1>3. ~Timed(n)
  BY <1>1, <1>2 DEF Timed, Pinned
<1>4. t \in Starts(q) <=> \E s \in q.slots : \E m : At(s, m)
  <2>1. ~Timed(q)
    BY <1>1
  <2>2. QED
    BY <2>1, StartsAre, Zenon
<1>5. t \in Starts(n) <=> \E s \in n.slots : \E m : At(s, m)
  <2>1. t \in Starts(n) <=> \E s \in n.slots : \E m : StartAt(n, t, s, m)
    BY <1>3, StartsAre, Zenon
  <2>2. n.minutes = q.minutes /\ n.occupied = q.occupied
    BY <1>2
  <2>3. \A s, m : StartAt(n, t, s, m) <=> At(s, m)
    BY <2>2, Zenon DEF StartAt
  <2> HIDE DEF At
  <2>4. QED
    BY <2>1, <2>3, Zenon
<1>6. ASSUME NEW s \in q.slots, NEW m, At(s, m) PROVE DayOf(t) = s.date
  <2>1. s \in SlotsOf(v) /\ q.minutes = db.visits[v].minutes
    BY AskIs DEF q
  <2>2. s.date \in Day /\ s.earliest \in Nat /\ s.latest \in Int
    BY <1>1, <2>1, SlotsAre
  <2>3. q.minutes \in Nat /\ q.minutes # 0 /\ s.date \in Nat
    <3>1. LastDay \in Nat
      BY SnapshotsAreSound
    <3>2. QED
      BY <1>1, <2>1, <2>2, <3>1, SnapshotIs DEF Day
  <2>4. DayMinutes - q.minutes \in Int
    BY <2>3 DEF DayMinutes
  <2>5. Min({s.latest, DayMinutes - q.minutes}) \in Int /\ Min({s.latest, DayMinutes - q.minutes}) <= DayMinutes - q.minutes
    BY <2>2, <2>4, MinOfTwo, Zenon
  <2> DEFINE top == Min({s.latest, DayMinutes - q.minutes})
  <2>6. m \in s.earliest .. top /\ t = s.date * DayMinutes + m
    BY <1>6 DEF StartAt
  <2> HIDE DEF top, At
  <2>7. m \in Nat /\ m < DayMinutes
    BY <2>2, <2>3, <2>5, <2>6 DEF top, DayMinutes
  <2>8. QED
    BY <2>3, <2>6, <2>7, DayAndMinute
<1> HIDE DEF At
<1>7. ASSUME t \in Starts(n) PROVE t \in Starts(q) /\ DayOf(t) = d /\ \E s \in q.slots : s.date = d
  <2>1. PICK s \in n.slots : \E m : At(s, m)
    BY <1>5, <1>7
  <2>2. PICK m : At(s, m)
    BY <2>1
  <2>3. s \in q.slots /\ s.date = d
    BY <1>2
  <2>4. DayOf(t) = s.date
    BY <1>6, <2>2, <2>3
  <2>5. t \in Starts(q)
    BY <1>4, <2>2, <2>3
  <2>6. QED
    BY <2>3, <2>4, <2>5
<1>8. ASSUME t \in Starts(q), DayOf(t) = d PROVE t \in Starts(n)
  <2>1. PICK s \in q.slots : \E m : At(s, m)
    BY <1>4, <1>8
  <2>2. PICK m : At(s, m)
    BY <2>1
  <2>3. s.date = d
    BY <1>6, <1>8, <2>2
  <2>4. s \in n.slots
    BY <1>2, <2>3
  <2>5. QED
    BY <1>5, <2>2, <2>4
<1>9. QED
  BY <1>7, <1>8 DEF q, n

LEMMA NarrowedCrews ==
  ASSUME NEW v, NEW d, \E s \in Ask(v).slots : s.date = d, NEW crew
  PROVE  /\ crew \in Crews(NarrowedTo(Ask(v), d)) => crew \in Crews(Ask(v))
         /\ crew \in Crews(Ask(v)) /\ (\A e \in crew : d \notin db.staff[e].away)
              => crew \in Crews(NarrowedTo(Ask(v), d))
<1> DEFINE q == Ask(v)
           n == NarrowedTo(q, d)
<1>1. /\ n.branch = q.branch /\ n.site = q.site /\ n.skills = q.skills /\ n.crew = q.crew
      /\ n.slots = {s \in q.slots : s.date = d}
  BY NarrowedIs
<1>2. d \in Dates(q) /\ Dates(n) = {d}
  <2> HIDE DEF q, n
  <2>1. (\E s \in q.slots : s.date = d)
    BY DEF q
  <2>2. QED
    BY <1>1, <2>1 DEF Dates
<1> HIDE DEF q, n
<1>3. \A e \in Staff : CanServe(e, n) => CanServe(e, q)
  BY <1>1, <1>2 DEF CanServe
<1>4. \A e \in Staff : CanServe(e, q) /\ d \notin db.staff[e].away => CanServe(e, n)
  BY <1>1, <1>2 DEF CanServe
<1>5. QED
  BY <1>1, <1>3, <1>4 DEF Crews, Able, q, n

LEMMA NarrowedRest ==
  ASSUME NEW v \in Solvable \ Locked, NEW d
  PROVE  LET q == Ask(v)  n == NarrowedTo(q, d) IN
         /\ Length(n) = Length(q) /\ \A crew : Rides(n, crew) = Rides(q, crew)
         /\ \A c : HonoursPins(n, c) /\ HonoursPins(q, c)
<1> DEFINE q == Ask(v)
           n == NarrowedTo(q, d)
<1>1. q.pins = {} /\ ~Timed(q)
  BY OrdinaryIs, AskIs
<1>2. /\ n.minutes = q.minutes /\ n.pins = q.pins /\ n.branch = q.branch /\ n.crew = q.crew
  BY NarrowedIs
<1> HIDE DEF q, n
<1>3. ~Timed(n)
  BY <1>1, <1>2 DEF Timed, Pinned
<1>4. Length(n) = Length(q)
  BY <1>1, <1>2, <1>3 DEF Length
<1>5. Vans(n) = Vans(q)
  BY <1>2 DEF Vans
<1>6. ASSUME NEW crew PROVE Rides(n, crew) = Rides(q, crew)
  BY <1>5 DEF Rides
<1>7. ASSUME NEW c PROVE HonoursPins(n, c) /\ HonoursPins(q, c)
  BY <1>1, <1>2, <1>3 DEF HonoursPins, Pinned
<1>8. QED
  BY <1>4, <1>6, <1>7 DEF q, n

LEMMA NarrowedOptions ==
  ASSUME db \in Snapshots, NEW v \in Solvable \ Locked, NEW d, NEW c
  PROVE  c \in Options(NarrowedTo(Ask(v), d)) <=> c \in Options(Ask(v)) /\ DayOf(c.start) = d
<1> DEFINE q == Ask(v)
           n == NarrowedTo(q, d)
<1>1. /\ n.site = q.site /\ n.agreement = q.agreement /\ n.minutes = q.minutes
      /\ n.opens = q.opens /\ n.closes = q.closes
  BY NarrowedIs
<1>2. /\ Length(n) = Length(q) /\ \A crew : Rides(n, crew) = Rides(q, crew)
      /\ HonoursPins(n, c) /\ HonoursPins(q, c)
  BY NarrowedRest
<1>3. c.start \in Starts(n) <=> c.start \in Starts(q) /\ DayOf(c.start) = d /\ \E s \in q.slots : s.date = d
  BY NarrowedStarts
<1>4. (\E s \in q.slots : s.date = d) =>
        /\ c.crew \in Crews(n) => c.crew \in Crews(q)
        /\ c.crew \in Crews(q) /\ (\A e \in c.crew : d \notin db.staff[e].away) => c.crew \in Crews(n)
  BY NarrowedCrews
<1> HIDE DEF q, n
<1>5. ASSUME c \in Options(n) PROVE c \in Options(q) /\ DayOf(c.start) = d
  <2>1. /\ c.start \in Starts(n) /\ c.end = c.start + Length(n)
        /\ c.crew \in Crews(n) /\ c.vehicles \in Rides(n, c.crew)
        /\ c.site = n.site /\ c.agreement = n.agreement
        /\ c = [start |-> c.start, end |-> c.end, crew |-> c.crew, vehicles |-> c.vehicles,
                site |-> c.site, agreement |-> c.agreement]
        /\ n.closes - n.opens >= n.minutes
        /\ \A e \in c.crew : DayOf(c.start) \notin db.staff[e].away
    BY <1>5, OptionIs, Zenon
  <2>2. /\ c.start \in Starts(q) /\ DayOf(c.start) = d /\ c.end = c.start + Length(q)
        /\ c.crew \in Crews(q) /\ c.vehicles \in Rides(q, c.crew)
        /\ c.site = q.site /\ c.agreement = q.agreement
        /\ q.closes - q.opens >= q.minutes
    BY <1>1, <1>2, <1>3, <1>4, <2>1
  <2>3. QED
    BY <1>2, <2>1, <2>2, OptionOf, Zenon
<1>6. ASSUME c \in Options(q), DayOf(c.start) = d PROVE c \in Options(n)
  <2>1. /\ c.start \in Starts(q) /\ c.end = c.start + Length(q)
        /\ c.crew \in Crews(q) /\ c.vehicles \in Rides(q, c.crew)
        /\ c.site = q.site /\ c.agreement = q.agreement
        /\ c = [start |-> c.start, end |-> c.end, crew |-> c.crew, vehicles |-> c.vehicles,
                site |-> c.site, agreement |-> c.agreement]
        /\ q.closes - q.opens >= q.minutes
        /\ \A e \in c.crew : DayOf(c.start) \notin db.staff[e].away
    BY <1>6, OptionIs, Zenon
  <2>2. \E s \in q.slots : s.date = d
    <3>1. v \in Visit /\ ~TimePinned(v)
      BY OrdinaryIs
    <3>2. PICK s \in SlotsOf(v) : DayOf(c.start) = s.date
      <4>1. c \in Options(Ask(v))
        BY <1>6 DEF q
      <4>2. QED
        BY <3>1, <4>1, OpenTime
    <3>3. s \in q.slots
      BY AskIs DEF q
    <3>4. QED
      BY <1>6, <3>2, <3>3
  <2>3. c.start \in Starts(n) /\ c.crew \in Crews(n)
    BY <1>3, <1>4, <1>6, <2>1, <2>2
  <2>4. /\ c.end = c.start + Length(n) /\ c.vehicles \in Rides(n, c.crew)
        /\ c.site = n.site /\ c.agreement = n.agreement /\ n.closes - n.opens >= n.minutes
    BY <1>1, <1>2, <2>1
  <2>5. QED
    BY <1>2, <2>1, <2>3, <2>4, OptionOf, Zenon
<1>7. QED
  BY <1>5, <1>6 DEF q, n

(***************************************************************************)
(* The best plans: none keeps more pinned visits, and none that keeps as   *)
(* many staffs more.                                                       *)
(***************************************************************************)
LEMMA FirstThenSecond ==
  ASSUME NEW N \in Nat, NEW a \in Nat, NEW b \in Nat, NEW c \in 0 .. N, NEW d \in 0 .. N,
         a * (N + 1) + c <= b * (N + 1) + d
  PROVE  a <= b /\ (a = b => c <= d)
<1>1. ASSUME a > b PROVE FALSE
  <2> DEFINE k == a - b - 1
  <2>1. k \in Nat /\ a = b + 1 + k
    BY <1>1
  <2> HIDE DEF k
  <2>2. a * (N + 1) = b * (N + 1) + (N + 1) + k * (N + 1)
    BY <2>1
  <2>3. k * (N + 1) \in Nat /\ a * (N + 1) \in Nat /\ b * (N + 1) \in Nat
    BY <2>1
  <2>4. QED
    BY <2>2, <2>3
<1>2. ASSUME a = b PROVE c <= d
  <2>1. b * (N + 1) \in Nat
    OBVIOUS
  <2>2. QED
    BY <1>2, <2>1
<1>3. QED
  BY <1>1, <1>2

Worth(p, pinned) ==
  Cardinality(DOMAIN p \cap pinned) * (Cardinality(Visit) + 1) + Cardinality(DOMAIN p)

LEMMA SizesAre ==
  ASSUME NEW s \in SUBSET Visit
  PROVE  /\ IsFiniteSet(s) /\ Cardinality(Visit) \in Nat /\ Cardinality(s) \in 0 .. Cardinality(Visit)
         /\ \A t \in SUBSET s : Cardinality(t) \in Nat /\ Cardinality(t) <= Cardinality(s)
<1>1. IsFiniteSet(Visit)
  BY SnapshotsAreSound
<1>2. Cardinality(Visit) \in Nat
  BY <1>1, FS_CardinalityType
<1>3. IsFiniteSet(s) /\ Cardinality(s) \in Nat /\ Cardinality(s) <= Cardinality(Visit)
  BY <1>1, FS_Subset, FS_CardinalityType
<1>4. ASSUME NEW t \in SUBSET s PROVE Cardinality(t) \in Nat /\ Cardinality(t) <= Cardinality(s)
  BY <1>3, FS_Subset, FS_CardinalityType
<1>5. QED
  BY <1>2, <1>3, <1>4

LEMMA WorthIs ==
  ASSUME NEW p, DOMAIN p \in SUBSET Visit, NEW pinned
  PROVE  /\ Cardinality(DOMAIN p \cap pinned) \in 0 .. Cardinality(Visit)
         /\ Cardinality(DOMAIN p) \in 0 .. Cardinality(Visit)
         /\ Worth(p, pinned) \in 0 .. (Cardinality(Visit) * (Cardinality(Visit) + 1) + Cardinality(Visit))
<1> DEFINE N == Cardinality(Visit)
           a == Cardinality(DOMAIN p \cap pinned)
           c == Cardinality(DOMAIN p)
<1>1. DOMAIN p \cap pinned \in SUBSET Visit
  OBVIOUS
<1>2. N \in Nat /\ a \in 0 .. N /\ c \in 0 .. N
  BY <1>1, SizesAre
<1>3. Worth(p, pinned) = a * (N + 1) + c
  BY DEF Worth
<1> HIDE DEF N, a, c
<1>4. a * (N + 1) \in Nat /\ a * (N + 1) <= N * (N + 1)
  <2> DEFINE k == N - a
  <2>1. k \in Nat /\ N = a + k
    BY <1>2
  <2>2. a * (N + 1) \in Nat /\ k * (N + 1) \in Nat
    BY <1>2, <2>1
  <2> HIDE DEF k
  <2>3. N * (N + 1) = a * (N + 1) + k * (N + 1)
    <3> DEFINE K == N + 1
    <3>1. K \in Nat
      BY <1>2
    <3> HIDE DEF K
    <3>2. (a + k) * K = a * K + k * K
      BY <1>2, <2>1, <3>1
    <3>3. QED
      BY <2>1, <3>2 DEF K
  <2>4. QED
    BY <1>2, <2>1, <2>2, <2>3
<1>5. N * (N + 1) \in Nat
  BY <1>2
<1>6. Worth(p, pinned) \in 0 .. (N * (N + 1) + N)
  BY <1>2, <1>3, <1>4, <1>5
<1>7. QED
  BY <1>2, <1>6 DEF N, a, c

LEMMA BestIs ==
  ASSUME NEW plans, \A p \in plans : DOMAIN p \in SUBSET Visit, NEW pinned,
         NEW b \in Best(plans, pinned), NEW x \in plans
  PROVE  LET kept(p) == Cardinality(DOMAIN p \cap pinned) IN
         /\ b \in plans /\ kept(x) <= kept(b)
         /\ kept(x) = kept(b) => Cardinality(DOMAIN x) <= Cardinality(DOMAIN b)
<1> DEFINE N == Cardinality(Visit)
           top == N * (N + 1) + N
           S == {Worth(p, pinned) : p \in plans}
<1>1. N \in Nat /\ top \in Nat
  <2>1. N \in Nat
    BY SizesAre
  <2> HIDE DEF N
  <2>2. N * (N + 1) \in Nat
    BY <2>1
  <2>3. QED
    BY <2>1, <2>2
<1>2. S \in SUBSET (0 .. top) /\ S # {}
  <2>1. \A p \in plans : Worth(p, pinned) \in 0 .. top
    BY WorthIs
  <2> HIDE DEF top
  <2>2. QED
    BY <2>1
<1>3. Max(S) \in S /\ \A y \in S : Max(S) >= y
  <2> HIDE DEF top, S
  <2>1. QED
    BY <1>1, <1>2, GreatestOf
<1>4. b \in plans /\ Worth(b, pinned) = Max(S)
  <2>1. Best(plans, pinned) = {p \in plans : Worth(p, pinned) = Max(S)}
    BY DEF Best, Worth
  <2> HIDE DEF S
  <2>2. QED
    BY <2>1
<1>5. Worth(x, pinned) <= Worth(b, pinned)
  <2>1. Worth(x, pinned) \in S
    OBVIOUS
  <2>2. Worth(x, pinned) \in 0 .. top /\ Worth(b, pinned) \in 0 .. top
    BY <1>4, WorthIs
  <2> HIDE DEF S, top
  <2>3. QED
    BY <1>1, <1>3, <1>4, <2>1, <2>2
<1>6. /\ Cardinality(DOMAIN x \cap pinned) \in 0 .. N /\ Cardinality(DOMAIN x) \in 0 .. N
      /\ Cardinality(DOMAIN b \cap pinned) \in 0 .. N /\ Cardinality(DOMAIN b) \in 0 .. N
  BY <1>4, WorthIs
<1> DEFINE kx == Cardinality(DOMAIN x \cap pinned)
           kb == Cardinality(DOMAIN b \cap pinned)
           cx == Cardinality(DOMAIN x)
           cb == Cardinality(DOMAIN b)
<1>7. kx * (N + 1) + cx <= kb * (N + 1) + cb
  BY <1>5 DEF Worth
<1> HIDE DEF kx, kb, cx, cb, N
<1>8. kx \in Nat /\ kb \in Nat /\ cx \in 0 .. N /\ cb \in 0 .. N
  BY <1>1, <1>6 DEF kx, kb, cx, cb
<1>9. kx <= kb /\ (kx = kb => cx <= cb)
  BY <1>1, <1>7, <1>8, FirstThenSecond
<1>10. QED
  BY <1>4, <1>9 DEF kx, kb, cx, cb

\* To a plan that is as good as the best no visit can be added.
LEMMA NoneCanJoin ==
  ASSUME NEW plans, \A p \in plans : DOMAIN p \in SUBSET Visit, NEW pinned,
         NEW b \in Best(plans, pinned), NEW p \in plans,
         Cardinality(DOMAIN b) = Cardinality(DOMAIN p),
         Cardinality(DOMAIN b \cap pinned) = Cardinality(DOMAIN p \cap pinned),
         NEW v, v \notin DOMAIN p, NEW c
  PROVE  Staffs(p, v, c) \notin plans
<1> SUFFICES ASSUME Staffs(p, v, c) \in plans PROVE FALSE
  OBVIOUS
<1> DEFINE x == Staffs(p, v, c)
<1>1. DOMAIN x = DOMAIN p \cup {v} /\ DOMAIN x \in SUBSET Visit
  BY DEF Staffs
<1> HIDE DEF x
<1>2. Cardinality(DOMAIN x) = Cardinality(DOMAIN p) + 1
  <2>1. IsFiniteSet(DOMAIN p)
    BY SizesAre
  <2>2. QED
    BY <1>1, <2>1, FS_AddElement
<1>3. Cardinality(DOMAIN p \cap pinned) <= Cardinality(DOMAIN x \cap pinned)
  <2>1. DOMAIN p \cap pinned \in SUBSET (DOMAIN x \cap pinned) /\ DOMAIN x \cap pinned \in SUBSET Visit
    BY <1>1
  <2>2. QED
    BY <2>1, SizesAre
<1>4. /\ Cardinality(DOMAIN x \cap pinned) <= Cardinality(DOMAIN b \cap pinned)
      /\ Cardinality(DOMAIN x \cap pinned) = Cardinality(DOMAIN b \cap pinned)
           => Cardinality(DOMAIN x) <= Cardinality(DOMAIN b)
  BY BestIs DEF x
<1>5. /\ Cardinality(DOMAIN x \cap pinned) \in Nat /\ Cardinality(DOMAIN p \cap pinned) \in Nat
      /\ Cardinality(DOMAIN p) \in Nat
  <2>1. DOMAIN x \cap pinned \in SUBSET DOMAIN x /\ DOMAIN p \cap pinned \in SUBSET DOMAIN x
        /\ DOMAIN p \in SUBSET DOMAIN x
    BY <1>1
  <2>2. QED
    BY <1>1, <2>1, SizesAre
<1>6. QED
  BY <1>2, <1>3, <1>4, <1>5

(***************************************************************************)
(* A day is added to the plan.  Each of its visits is on that day; what    *)
(* was staffed before is on an earlier one, or holds the day against its   *)
(* agreement.                                                              *)
(***************************************************************************)
Settled(p) ==
  \A v \in DOMAIN p : \/ DayOf(p[v].start) \in Int /\ DayOf(p[v].start) < day
                      \/ <<p[v].agreement, DayOf(p[v].start)>> \in closed

Merged(p, q) == [v \in DOMAIN p \cup DOMAIN q |-> IF v \in DOMAIN q THEN q[v] ELSE p[v]]

TodaysAsks == [v \in Todays(day) |-> NarrowedTo(Ask(v), day)]
DayPlans == Plans(TodaysAsks, Reservations \cup Taken(plan))

LEMMA TodaysAre ==
  ASSUME db \in Snapshots
  PROVE  /\ Todays(day) \in SUBSET (Solvable \ (DOMAIN plan \cup Locked))
         /\ DOMAIN TodaysAsks = Todays(day) /\ IsFiniteSet(Todays(day))
         /\ \A v \in Todays(day) : TodaysAsks[v] = NarrowedTo(Ask(v), day)
<1>1. Todays(day) \in SUBSET (Solvable \ (DOMAIN plan \cup Locked))
  BY DEF Todays
<1>2. IsFiniteSet(Visit) /\ Todays(day) \subseteq Visit
  BY <1>1, SnapshotsAreSound DEF Solvable
<1>3. IsFiniteSet(Todays(day))
  BY <1>2, FS_Subset
<1>4. QED
  BY <1>1, <1>3 DEF TodaysAsks

\* Beside the plan is beside what it takes.
LEMMA BesideThePlan ==
  ASSUME NEW c, NEW p
  PROVE  FreeOf(c, Taken(p)) <=>
           \A w \in DOMAIN p : c.crew \cap p[w].crew # {} \/ VansOf(c) \cap VansOf(p[w]) # {} => Apart(c, p[w])
<1> DEFINE T(w) == [start |-> p[w].start, end |-> p[w].end, site |-> p[w].site,
                    crew |-> p[w].crew, vehicles |-> VansOf(p[w])]
<1>1. \A w : Apart(c, T(w)) <=> Apart(c, p[w])
  BY DEF Apart
<1>2. \A w : T(w).crew = p[w].crew /\ T(w).vehicles = VansOf(p[w])
  OBVIOUS
<1>3. Taken(p) = {T(w) : w \in DOMAIN p}
  BY DEF Taken
<1> HIDE DEF T
<1>4. QED
  BY <1>1, <1>2, <1>3 DEF FreeOf

LEMMA DayIsAdded ==
  ASSUME db \in Snapshots, PlanIsSound(plan), Settled(plan), day \in Nat, NEW p \in DayPlans
  PROVE  /\ PlanIsSound(Merged(plan, p))
         /\ \A v \in DOMAIN p : DayOf(p[v].start) = day
         /\ DOMAIN p \cap (DOMAIN plan \cup Locked) = {} /\ DOMAIN p \in SUBSET Solvable
<1> DEFINE reserved == Reservations \cup Taken(plan)
           m == Merged(plan, p)
<1>1. Fits(TodaysAsks, reserved, Todays(day), p)
  BY TodaysAre, PlansAre DEF DayPlans
<1>2. DOMAIN p \subseteq Todays(day) /\ DOMAIN p \subseteq Solvable \ (DOMAIN plan \cup Locked)
  BY <1>1, TodaysAre DEF Fits
<1>3. ASSUME NEW v \in DOMAIN p
      PROVE  p[v] \in Options(Ask(v)) /\ DayOf(p[v].start) = day /\ FreeOf(p[v], reserved)
  <2>1. p[v] \in Options(TodaysAsks[v]) /\ FreeOf(p[v], reserved)
    BY <1>1 DEF Fits
  <2>2. v \in Solvable \ Locked /\ TodaysAsks[v] = NarrowedTo(Ask(v), day)
    BY <1>2, TodaysAre
  <2>3. QED
    BY <2>1, <2>2, NarrowedOptions
<1>4. ASSUME NEW v \in DOMAIN p, NEW w \in DOMAIN plan
      PROVE  Compatible(p[v], plan[w])
  <2>1. FreeOf(p[v], Taken(plan))
    BY <1>3 DEF FreeOf
  <2>2. p[v].crew \cap plan[w].crew # {} \/ VansOf(p[v]) \cap VansOf(plan[w]) # {} => Apart(p[v], plan[w])
    BY <2>1, BesideThePlan
  <2>3. ASSUME p[v].agreement = plan[w].agreement, DayOf(plan[w].start) = day
        PROVE  FALSE
    <3>1. <<plan[w].agreement, DayOf(plan[w].start)>> \in closed
      BY <2>3 DEF Settled
    <3>2. p[v].agreement = db.visits[v].agreement
      BY <1>3, OptionIs, AskIs
    <3>3. <<db.visits[v].agreement, day>> \notin closed
      BY <1>2 DEF Todays
    <3>4. QED
      BY <2>3, <3>1, <3>2, <3>3
  <2>4. QED
    BY <1>3, <2>2, <2>3 DEF Compatible
<1>5. /\ m = [v \in DOMAIN m |-> m[v]] /\ DOMAIN m = DOMAIN plan \cup DOMAIN p
      /\ \A v \in DOMAIN p : m[v] = p[v]
      /\ \A v \in DOMAIN plan : v \notin DOMAIN p /\ m[v] = plan[v]
  BY <1>2 DEF Merged
<1> HIDE DEF m
<1>6. \A v \in DOMAIN m : m[v] \in Options(Ask(v)) /\ FreeOf(m[v], Reservations)
  <2>1. \A v \in DOMAIN p : p[v] \in Options(Ask(v)) /\ FreeOf(p[v], Reservations)
    BY <1>3 DEF FreeOf
  <2>2. \A v \in DOMAIN plan : plan[v] \in Options(Ask(v)) /\ FreeOf(plan[v], Reservations)
    BY DEF PlanIsSound
  <2>3. QED
    BY <1>5, <2>1, <2>2
<1>7. ASSUME NEW v \in DOMAIN m, NEW w \in DOMAIN m, v # w
      PROVE  Compatible(m[v], m[w])
  <2>1. CASE v \in DOMAIN p /\ w \in DOMAIN p
    BY <1>1, <1>5, <1>7, <2>1 DEF Fits
  <2>2. CASE v \in DOMAIN p /\ w \in DOMAIN plan
    BY <1>4, <1>5, <2>2
  <2>3. CASE v \in DOMAIN plan /\ w \in DOMAIN p
    BY <1>4, <1>5, <2>3, CompatibleBothWays
  <2>4. CASE v \in DOMAIN plan /\ w \in DOMAIN plan
    BY <1>5, <1>7, <2>4 DEF PlanIsSound
  <2>5. QED
    BY <1>5, <2>1, <2>2, <2>3, <2>4
<1>8. DOMAIN m \subseteq Solvable
  BY <1>2, <1>5 DEF PlanIsSound
<1>9. PlanIsSound(m)
  BY <1>5, <1>6, <1>7, <1>8 DEF PlanIsSound
<1>10. QED
  BY <1>2, <1>3, <1>9 DEF m

(***************************************************************************)
(* No visit that could still be sent that day is left out of the best.     *)
(***************************************************************************)
CanJoin(p, c) == FreeOf(c, Reservations) /\ \A w \in DOMAIN p : Compatible(c, p[w])
Plain(v) == \A s \in SlotsOf(v) : ~s.preferred
ClosedBy(p) == \A x \in closed : \E w \in DOMAIN p : x = <<p[w].agreement, DayOf(p[w].start)>>

LEMMA DayLeavesNone ==
  ASSUME db \in Snapshots, PlanIsSound(plan), Settled(plan), ClosedBy(plan), day \in Nat,
         NEW p \in DayPlans, p \in Best(DayPlans, {}),
         NEW v \in Solvable \ Locked, v \notin DOMAIN plan, v \notin DOMAIN p, Plain(v),
         NEW c \in Options(Ask(v)), DayOf(c.start) = day
  PROVE  ~CanJoin(Merged(plan, p), c)
<1> SUFFICES ASSUME CanJoin(Merged(plan, p), c) PROVE FALSE
  OBVIOUS
<1> DEFINE reserved == Reservations \cup Taken(plan)
           q == Ask(v)
<1>1. /\ DOMAIN p \cap (DOMAIN plan \cup Locked) = {} /\ DOMAIN p \in SUBSET Solvable
  BY DayIsAdded
<1>2. /\ FreeOf(c, Reservations)
      /\ \A w \in DOMAIN plan : Compatible(c, plan[w])
      /\ \A w \in DOMAIN p : Compatible(c, p[w])
  BY <1>1 DEF CanJoin, Merged
<1>3. v \in Visit /\ ~TimePinned(v) /\ ~Timed(q)
  BY OrdinaryIs
<1>4. v \in Todays(day)
  <2>1. <<db.visits[v].agreement, day>> \notin closed
    <3> SUFFICES ASSUME <<db.visits[v].agreement, day>> \in closed PROVE FALSE
      OBVIOUS
    <3>1. PICK w \in DOMAIN plan : <<db.visits[v].agreement, day>> = <<plan[w].agreement, DayOf(plan[w].start)>>
      BY DEF ClosedBy
    <3>2. c.agreement = db.visits[v].agreement
      BY OptionIs, AskIs
    <3>3. QED
      BY <1>2, <3>1, <3>2 DEF Compatible
  <2>2. q.slots = SlotsOf(v)
    BY AskIs
  <2>3. day \in DaysFor(q)
    <3>1. PICK s \in SlotsOf(v) : DayOf(c.start) = s.date
      BY <1>3, OpenTime
    <3> HIDE DEF q
    <3>2. QED
      BY <1>3, <2>2, <3>1 DEF DaysFor
  <2>4. MayTake(q, day)
    <3> HIDE DEF q
    <3>1. {s.date : s \in {s \in q.slots : s.preferred}} = {}
      BY <2>2 DEF Plain
    <3>2. QED
      BY <2>3, <3>1 DEF MayTake
  <2>5. QED
    BY <2>1, <2>4 DEF Todays
<1>5. TodaysAsks[v] = NarrowedTo(q, day) /\ c \in Options(TodaysAsks[v])
  BY <1>4, TodaysAre, NarrowedOptions
<1>6. FreeOf(c, reserved)
  <2>1. FreeOf(c, Taken(plan))
    BY <1>2, BesideThePlan DEF Compatible
  <2>2. QED
    BY <1>2, <2>1 DEF FreeOf
<1>7. \A w \in DOMAIN p : Compatible(p[w], c)
  BY <1>2, CompatibleBothWays
<1>8. Fits(TodaysAsks, reserved, Todays(day), p)
  BY TodaysAre, PlansAre DEF DayPlans
<1>9. Staffs(p, v, c) \in DayPlans
  <2>1. Fits(TodaysAsks, reserved, Todays(day) \cup {v}, Staffs(p, v, c))
    BY <1>5, <1>6, <1>7, <1>8, JoiningFits
  <2>2. Todays(day) \cup {v} = Todays(day)
    BY <1>4
  <2>3. QED
    BY <2>1, <2>2, TodaysAre, PlansAre DEF DayPlans
<1>10. \A x \in DayPlans : DOMAIN x \in SUBSET Visit
  <2> TAKE x \in DayPlans
  <2>1. DOMAIN x \in SUBSET Solvable
    BY DayIsAdded
  <2>2. QED
    BY <2>1 DEF Solvable
<1>11. QED
  BY <1>9, <1>10, NoneCanJoin


(***************************************************************************)
(* The invariant of a solve.  The plan is sound from the empty one on.     *)
(* While days are solved, what is staffed is behind the day, or closes its *)
(* day for its agreement.  And when every window was solved to the end, no *)
(* plan for the pinned visits keeps more of them, and no visit left out    *)
(* could join the plan at a time that has been considered.                 *)
(***************************************************************************)
LocksKept(p) ==
  \A x : PlanIsSound(x) /\ DOMAIN x \subseteq Locked =>
           Cardinality(DOMAIN x) <= Cardinality(DOMAIN p \cap Locked)

Considered(v, c) == v \in Locked \/ stage = "answered" \/ DayOf(c.start) < day

NoneLeft(p) ==
  \A v \in Solvable \ DOMAIN p : Plain(v) =>
    \A c \in Options(Ask(v)) : Considered(v, c) => ~CanJoin(p, c)

SolveInv ==
  /\ db \in Snapshots /\ day \in Nat
  /\ stage \in {"asked", "days", "answered"} /\ proven \in BOOLEAN
  /\ PlanIsSound(plan)
  /\ stage = "asked" => plan = <<>> /\ closed = {} /\ day = 0
  /\ stage = "days" => Settled(plan) /\ ClosedBy(plan)
  /\ proven /\ stage # "asked" => LocksKept(plan) /\ NoneLeft(plan)

\* What a step does to none of these but through the plan.
LEMMA FrameOfSnapshot ==
  ASSUME db' = db
  PROVE  /\ Solvable' = Solvable /\ Locked' = Locked /\ Reservations' = Reservations
         /\ \A v : Ask(v)' = Ask(v) /\ SlotsOf(v)' = SlotsOf(v) /\ (Plain(v)' <=> Plain(v))
         /\ \A q : Options(q)' = Options(q)
<1>1. Solvable' = Solvable
  BY DEF Solvable, Terms
<1>2. Locked' = Locked
  BY <1>1 DEF Locked, Pins
<1>3. \A v : SlotsOf(v)' = SlotsOf(v)
  BY DEF Terms, SlotsOf, Pins, TimePinned, Protected, ProtectedSlots, CandidateSlots, SlotsWithin,
         BuildSlots, DaysOfPeriod, Windows
<1>4. \A v : Plain(v)' <=> Plain(v)
  BY <1>3 DEF Plain
<1>5. QED
  BY <1>1, <1>2, <1>3, <1>4, AskStays, OptionsStay, ReservationsStay

LEMMA SoundStays ==
  ASSUME db' = db, NEW p
  PROVE  /\ PlanIsSound(p)' <=> PlanIsSound(p)
         /\ LocksKept(p)' <=> LocksKept(p)
<1>1. /\ Solvable' = Solvable /\ Locked' = Locked /\ Reservations' = Reservations
      /\ \A v : Ask(v)' = Ask(v)
      /\ \A q : Options(q)' = Options(q)
  BY FrameOfSnapshot
<1>2. \A x : PlanIsSound(x)' <=> PlanIsSound(x)
  BY <1>1 DEF PlanIsSound
<1>3. QED
  BY <1>1, <1>2 DEF LocksKept

\* The plan the invariant speaks of after a step that chooses p.
LEMMA AfterChoosing ==
  ASSUME db' = db, NEW p, plan' = p, PlanIsSound(p)
  PROVE  /\ PlanIsSound(plan)'
         /\ LocksKept(p) => LocksKept(plan)'
<1>1. PlanIsSound(p)' /\ (LocksKept(p) => LocksKept(p)')
  BY SoundStays
<1>2. QED
  BY <1>1 DEF PlanIsSound, LocksKept

LEMMA EmptyIsSound ==
  PlanIsSound(<<>>)
BY DEF PlanIsSound

LEMMA InitHolds ==
  Init => SolveInv
BY EmptyIsSound DEF Init, SolveInv

(***************************************************************************)
(* A window over any of the visits, the pinned ones among them.            *)
(***************************************************************************)
AsGoodAsBest(p, plans) ==
  \E b \in Best(plans, Locked) :
    /\ Cardinality(DOMAIN b) = Cardinality(DOMAIN p)
    /\ Cardinality(DOMAIN b \cap Locked) = Cardinality(DOMAIN p \cap Locked)

LEMMA WindowIsSound ==
  ASSUME db \in Snapshots, NEW visits \in SUBSET Solvable,
         NEW p \in Plans(Asks(visits), Reservations)
  PROVE  PlanIsSound(p) /\ DOMAIN p \in SUBSET visits /\ DOMAIN p \in SUBSET Visit
<1>1. PlanIsSound(p) /\ DOMAIN p \in SUBSET visits
  BY SoundPlans
<1>2. QED
  BY <1>1 DEF Solvable

LEMMA WindowLeavesNone ==
  ASSUME db \in Snapshots, NEW visits \in SUBSET Solvable,
         NEW p \in Plans(Asks(visits), Reservations),
         AsGoodAsBest(p, Plans(Asks(visits), Reservations)),
         NEW v \in visits, v \notin DOMAIN p, NEW c \in Options(Ask(v))
  PROVE  ~CanJoin(p, c)
<1> SUFFICES ASSUME CanJoin(p, c) PROVE FALSE
  OBVIOUS
<1> DEFINE plans == Plans(Asks(visits), Reservations)
<1>1. /\ IsFiniteSet(visits) /\ DOMAIN Asks(visits) = visits /\ Asks(visits)[v] = Ask(v)
  BY AsksAre
<1>2. Fits(Asks(visits), Reservations, visits, p)
  BY <1>1, PlansAre
<1>3. FreeOf(c, Reservations) /\ \A w \in DOMAIN p : Compatible(p[w], c)
  BY CompatibleBothWays DEF CanJoin
<1>4. Staffs(p, v, c) \in plans
  <2>1. Fits(Asks(visits), Reservations, visits \cup {v}, Staffs(p, v, c))
    BY <1>1, <1>2, <1>3, JoiningFits
  <2>2. visits \cup {v} = visits
    OBVIOUS
  <2>3. QED
    BY <1>1, <2>1, <2>2, PlansAre
<1>5. \A x \in plans : DOMAIN x \in SUBSET Visit
  BY WindowIsSound
<1>6. PICK b \in Best(plans, Locked) :
        /\ Cardinality(DOMAIN b) = Cardinality(DOMAIN p)
        /\ Cardinality(DOMAIN b \cap Locked) = Cardinality(DOMAIN p \cap Locked)
  BY DEF AsGoodAsBest
<1> HIDE DEF plans
<1>7. p \in plans
  BY DEF plans
<1>8. QED
  BY <1>4, <1>5, <1>6, <1>7, NoneCanJoin

LEMMA WindowKeepsLocks ==
  ASSUME db \in Snapshots, NEW visits \in SUBSET Solvable, Locked \subseteq visits,
         NEW p \in Plans(Asks(visits), Reservations),
         AsGoodAsBest(p, Plans(Asks(visits), Reservations))
  PROVE  LocksKept(p)
<1> DEFINE plans == Plans(Asks(visits), Reservations)
<1> SUFFICES ASSUME NEW x, PlanIsSound(x), DOMAIN x \subseteq Locked
             PROVE  Cardinality(DOMAIN x) <= Cardinality(DOMAIN p \cap Locked)
  BY DEF LocksKept
<1>1. x \in plans
  BY SoundPlans
<1>2. \A y \in plans : DOMAIN y \in SUBSET Visit
  BY WindowIsSound
<1>3. PICK b \in Best(plans, Locked) :
        Cardinality(DOMAIN b \cap Locked) = Cardinality(DOMAIN p \cap Locked)
  BY DEF AsGoodAsBest
<1> HIDE DEF plans
<1>4. Cardinality(DOMAIN x \cap Locked) <= Cardinality(DOMAIN b \cap Locked)
  BY <1>1, <1>2, <1>3, BestIs
<1>5. DOMAIN x \cap Locked = DOMAIN x
  OBVIOUS
<1>6. QED
  BY <1>3, <1>4, <1>5

LEMMA SolveAtOnceKeeps ==
  SolveInv /\ SolveAtOnce => SolveInv'
<1> SUFFICES ASSUME SolveInv, SolveAtOnce PROVE SolveInv'
  OBVIOUS
<1> DEFINE plans == Plans(Asks(Solvable), Reservations)
<1>1. db \in Snapshots /\ day \in Nat /\ proven \in BOOLEAN
  BY DEF SolveInv
<1>2. /\ db' = db /\ day' = day /\ closed' = closed /\ stage' = "answered"
      /\ \E p \in plans : Solved(p, plans)
  BY DEF SolveAtOnce
<1>3. PICK p \in plans : Solved(p, plans)
  BY <1>2
<1>4. plan' = p /\ proven' = (proven /\ AsGoodAsBest(p, plans))
  BY <1>3 DEF Solved, AsGoodAsBest
<1>5. PlanIsSound(p)
  BY <1>1, WindowIsSound
<1>6. Locked \subseteq Solvable
  BY DEF Locked
<1>7. PlanIsSound(plan)' /\ (LocksKept(p) => LocksKept(plan)')
  BY <1>2, <1>4, <1>5, AfterChoosing
<1>8. ASSUME proven' PROVE LocksKept(plan)' /\ NoneLeft(plan)'
  <2>1. AsGoodAsBest(p, plans)
    BY <1>4, <1>8
  <2>2. LocksKept(p)
    BY <1>1, <1>6, <2>1, WindowKeepsLocks
  <2>3. \A v \in Solvable \ DOMAIN p : \A c \in Options(Ask(v)) : ~CanJoin(p, c)
    BY <1>1, <2>1, WindowLeavesNone
  <2>4. /\ Solvable' = Solvable /\ Reservations' = Reservations
        /\ \A v : Ask(v)' = Ask(v)
        /\ \A q : Options(q)' = Options(q)
    BY <1>2, FrameOfSnapshot
  <2>5. NoneLeft(plan)'
    BY <1>4, <2>3, <2>4 DEF NoneLeft, CanJoin
  <2>6. QED
    BY <1>7, <2>2, <2>5
<1>9. QED
  BY <1>1, <1>2, <1>4, <1>7, <1>8 DEF SolveInv


LEMMA OrdinaryDays ==
  ASSUME db \in Snapshots, NEW v \in Solvable \ Locked, NEW c \in Options(Ask(v))
  PROVE  DayOf(c.start) \in 0 .. LastDay
<1>1. v \in Visit /\ ~TimePinned(v)
  BY OrdinaryIs
<1>2. PICK s \in SlotsOf(v) : DayOf(c.start) = s.date
  BY <1>1, OpenTime
<1>3. s.date \in Day
  BY <1>1, SlotsAre
<1>4. QED
  BY <1>2, <1>3 DEF Day

LEMMA LookaheadIsSolvable ==
  ASSUME NEW ahead \in Lookahead
  PROVE  Locked \cup ahead \in SUBSET Solvable
<1>1. Reached \subseteq Solvable
  BY DEF Reached
<1>2. ahead \subseteq Reached
  BY DEF Lookahead, kSubset
<1>3. Locked \subseteq Solvable
  BY DEF Locked
<1>4. QED
  BY <1>1, <1>2, <1>3

\* A window over the pinned visits and some others.
LEMMA LocksAreSolved ==
  ASSUME SolveInv, SolveLocks, NEW ahead \in Lookahead,
         NEW p \in Plans(Asks(Locked \cup ahead), Reservations),
         Solved(p, Plans(Asks(Locked \cup ahead), Reservations)),
         closed' = {<<p[v].agreement, DayOf(p[v].start)>> : v \in DOMAIN p}
  PROVE  SolveInv'
<1> DEFINE visits == Locked \cup ahead
           plans == Plans(Asks(visits), Reservations)
<1>1. db \in Snapshots /\ day \in Nat /\ proven \in BOOLEAN /\ day = 0
  BY DEF SolveInv, SolveLocks
<1>2. db' = db /\ day' = day /\ stage' = "days"
  BY DEF SolveLocks
<1>3. plan' = p /\ proven' = (proven /\ AsGoodAsBest(p, plans))
  BY DEF Solved, AsGoodAsBest
<1>4. visits \in SUBSET Solvable /\ Locked \subseteq visits
  BY LookaheadIsSolvable
<1> HIDE DEF visits
<1>5. PlanIsSound(p)
  BY <1>1, <1>4, WindowIsSound DEF visits
<1>6. PlanIsSound(plan)' /\ (LocksKept(p) => LocksKept(plan)')
  BY <1>2, <1>3, <1>5, AfterChoosing
<1>7. Settled(plan)' /\ ClosedBy(plan)'
  BY <1>3 DEF Settled, ClosedBy
<1>8. ASSUME proven' PROVE LocksKept(plan)' /\ NoneLeft(plan)'
  <2>1. AsGoodAsBest(p, plans)
    BY <1>3, <1>8
  <2>2. LocksKept(p)
    BY <1>1, <1>4, <2>1, WindowKeepsLocks DEF visits
  <2>3. \A v \in Locked \ DOMAIN p : \A c \in Options(Ask(v)) : ~CanJoin(p, c)
    BY <1>1, <1>4, <2>1, WindowLeavesNone DEF visits
  <2>4. \A v \in Solvable \ Locked : \A c \in Options(Ask(v)) : ~(DayOf(c.start) < day)
    <3> TAKE v \in Solvable \ Locked
    <3> TAKE c \in Options(Ask(v))
    <3>1. DayOf(c.start) \in 0 .. LastDay
      BY <1>1, OrdinaryDays
    <3>2. QED
      BY <1>1, <3>1, SnapshotsAreSound
  <2>5. /\ Solvable' = Solvable /\ Reservations' = Reservations /\ Locked' = Locked
        /\ \A v : Ask(v)' = Ask(v)
        /\ \A q : Options(q)' = Options(q)
    BY <1>2, FrameOfSnapshot
  <2>6. NoneLeft(plan)'
    BY <1>2, <1>3, <2>3, <2>4, <2>5 DEF NoneLeft, CanJoin, Considered
  <2>7. QED
    BY <1>6, <2>2, <2>6
<1>9. QED
  BY <1>1, <1>2, <1>3, <1>6, <1>7, <1>8 DEF SolveInv

\* No pins: the days start from nothing.
LEMMA NoLocksToSolve ==
  ASSUME SolveInv, SolveLocks, Locked = {}, UNCHANGED <<plan, closed, proven>>
  PROVE  SolveInv'
<1>1. db \in Snapshots /\ day \in Nat /\ proven \in BOOLEAN /\ day = 0 /\ plan = <<>> /\ closed = {}
  BY DEF SolveInv, SolveLocks
<1>2. db' = db /\ day' = day /\ stage' = "days" /\ plan' = <<>> /\ closed' = {} /\ proven' = proven
  BY <1>1 DEF SolveLocks
<1>3. LocksKept(<<>>)
  BY FS_EmptySet DEF LocksKept
<1>4. PlanIsSound(plan)' /\ LocksKept(plan)'
  BY <1>2, <1>3, EmptyIsSound, AfterChoosing
<1>5. Settled(plan)' /\ ClosedBy(plan)'
  BY <1>2 DEF Settled, ClosedBy
<1>6. \A v \in Solvable : \A c \in Options(Ask(v)) : ~(DayOf(c.start) < day)
  <2> TAKE v \in Solvable
  <2> TAKE c \in Options(Ask(v))
  <2>1. DayOf(c.start) \in 0 .. LastDay
    BY <1>1, OrdinaryDays
  <2>2. QED
    BY <1>1, <2>1, SnapshotsAreSound
<1>7. /\ Solvable' = Solvable /\ Locked' = {}
      /\ \A v : Ask(v)' = Ask(v)
      /\ \A q : Options(q)' = Options(q)
  BY <1>2, FrameOfSnapshot
<1>8. NoneLeft(plan)'
  BY <1>2, <1>6, <1>7 DEF NoneLeft, Considered
<1>9. QED
  BY <1>1, <1>2, <1>4, <1>5, <1>8 DEF SolveInv

LEMMA SolveLocksKeeps ==
  SolveInv /\ SolveLocks => SolveInv'
<1> SUFFICES ASSUME SolveInv, SolveLocks PROVE SolveInv'
  OBVIOUS
<1>1. CASE Locked = {}
  BY <1>1, NoLocksToSolve DEF SolveLocks
<1>2. CASE Locked # {}
  <2>1. PICK ahead \in Lookahead :
          \E p \in Plans(Asks(Locked \cup ahead), Reservations) :
            /\ Solved(p, Plans(Asks(Locked \cup ahead), Reservations))
            /\ closed' = {<<p[v].agreement, DayOf(p[v].start)>> : v \in DOMAIN p}
    BY <1>2 DEF SolveLocks
  <2>2. QED
    BY <2>1, LocksAreSolved
<1>3. QED
  BY <1>1, <1>2


LEMMA MergedIs ==
  ASSUME NEW p, NEW q, DOMAIN p \cap DOMAIN q = {}
  PROVE  /\ DOMAIN Merged(p, q) = DOMAIN p \cup DOMAIN q
         /\ \A v \in DOMAIN p : Merged(p, q)[v] = p[v]
         /\ \A v \in DOMAIN q : Merged(p, q)[v] = q[v]
<1>1. DOMAIN Merged(p, q) = DOMAIN p \cup DOMAIN q
  BY DEF Merged
<1>2. \A v \in DOMAIN p \cup DOMAIN q : Merged(p, q)[v] = IF v \in DOMAIN q THEN q[v] ELSE p[v]
  BY DEF Merged
<1>3. QED
  BY <1>1, <1>2

\* What cannot join a plan cannot join one that has more.
LEMMA MoreLeavesNoMore ==
  ASSUME NEW p, NEW q, DOMAIN p \cap DOMAIN q = {}, NEW c, CanJoin(Merged(p, q), c)
  PROVE  CanJoin(p, c)
<1>1. /\ DOMAIN Merged(p, q) = DOMAIN p \cup DOMAIN q
      /\ \A v \in DOMAIN p : Merged(p, q)[v] = p[v]
  BY MergedIs
<1>2. FreeOf(c, Reservations) /\ \A w \in DOMAIN Merged(p, q) : Compatible(c, Merged(p, q)[w])
  BY DEF CanJoin
<1> HIDE DEF Merged
<1>3. \A w \in DOMAIN p : Compatible(c, p[w])
  BY <1>1, <1>2
<1>4. QED
  BY <1>2, <1>3 DEF CanJoin

LEMMA SolveDayKeeps ==
  SolveInv /\ SolveDay => SolveInv'
<1> SUFFICES ASSUME SolveInv, SolveDay PROVE SolveInv'
  OBVIOUS
<1>1. /\ db \in Snapshots /\ day \in Nat /\ proven \in BOOLEAN /\ stage = "days"
      /\ PlanIsSound(plan) /\ Settled(plan) /\ ClosedBy(plan)
      /\ proven => LocksKept(plan) /\ NoneLeft(plan)
  BY DEF SolveInv, SolveDay
<1>2. db' = db /\ day' = day + 1 /\ stage' = "days" /\ closed' = closed
  BY <1>1 DEF SolveDay
<1>3. PICK p \in DayPlans : plan' = Merged(plan, p) /\ proven' = (proven /\ p \in Best(DayPlans, {}))
  BY DEF SolveDay, DayPlans, TodaysAsks, Merged
<1> DEFINE m == Merged(plan, p)
<1>4. /\ PlanIsSound(m) /\ \A v \in DOMAIN p : DayOf(p[v].start) = day
      /\ DOMAIN p \cap (DOMAIN plan \cup Locked) = {}
  BY <1>1, DayIsAdded
<1>5. /\ DOMAIN m = DOMAIN plan \cup DOMAIN p
      /\ \A v \in DOMAIN plan : m[v] = plan[v]
      /\ \A v \in DOMAIN p : m[v] = p[v]
  <2>1. DOMAIN plan \cap DOMAIN p = {}
    BY <1>4
  <2>2. QED
    BY <2>1, MergedIs
<1>6. ASSUME NEW c, CanJoin(m, c) PROVE CanJoin(plan, c)
  <2>1. DOMAIN plan \cap DOMAIN p = {}
    BY <1>4
  <2>2. QED
    BY <1>6, <2>1, MoreLeavesNoMore
<1>7. ASSUME proven' PROVE p \in Best(DayPlans, {}) /\ LocksKept(plan) /\ NoneLeft(plan)
  BY <1>1, <1>3, <1>7
<1>8. ASSUME NEW v \in Solvable \ DOMAIN m, NEW c \in Options(Ask(v)), Plain(v),
             v \in Locked \/ DayOf(c.start) < day + 1, proven'
      PROVE  ~CanJoin(m, c)
  <2>1. CASE v \in Locked \/ DayOf(c.start) < day
    BY <1>5, <1>6, <1>7, <1>8, <2>1 DEF NoneLeft, Considered
  <2>2. CASE v \notin Locked /\ ~(DayOf(c.start) < day)
    <3>1. DayOf(c.start) \in 0 .. LastDay
      BY <1>1, <2>2, OrdinaryDays
    <3>2. DayOf(c.start) = day
      BY <1>1, <1>8, <2>2, <3>1, SnapshotsAreSound
    <3>3. v \notin DOMAIN plan /\ v \notin DOMAIN p
      BY <1>5
    <3>4. p \in Best(DayPlans, {})
      BY <1>7, <1>8
    <3>5. QED
      BY <1>1, <1>8, <2>2, <3>2, <3>3, <3>4, DayLeavesNone
  <2>3. QED
    BY <2>1, <2>2
<1> HIDE DEF m
<1>9. PlanIsSound(plan)' /\ (LocksKept(m) => LocksKept(plan)')
  BY <1>2, <1>3, <1>4, AfterChoosing DEF m
<1>10. LocksKept(plan) => LocksKept(m)
  <2>1. DOMAIN m \cap Locked = DOMAIN plan \cap Locked
    BY <1>4, <1>5
  <2>2. QED
    BY <2>1 DEF LocksKept
<1>11. plan' = m
  BY <1>3 DEF m
<1>12. Settled(plan)'
  <2>1. \A v \in DOMAIN m : \/ DayOf(m[v].start) \in Int /\ DayOf(m[v].start) < day + 1
                            \/ <<m[v].agreement, DayOf(m[v].start)>> \in closed
    BY <1>1, <1>4, <1>5 DEF Settled
  <2>2. QED
    BY <1>2, <1>11, <2>1 DEF Settled
<1>13. ClosedBy(plan)'
  BY <1>1, <1>2, <1>5, <1>11 DEF ClosedBy
<1>14. ASSUME proven' PROVE NoneLeft(plan)'
  <2>1. /\ Solvable' = Solvable /\ Reservations' = Reservations /\ Locked' = Locked
        /\ \A v : Ask(v)' = Ask(v) /\ (Plain(v)' <=> Plain(v))
        /\ \A q : Options(q)' = Options(q)
    BY <1>2, FrameOfSnapshot
  <2>2. QED
    BY <1>2, <1>8, <1>11, <1>14, <2>1 DEF NoneLeft, CanJoin, Considered
<1>15. proven' \in BOOLEAN
  BY <1>1, <1>3
<1>16. QED
  BY <1>1, <1>2, <1>7, <1>9, <1>10, <1>12, <1>13, <1>14, <1>15 DEF SolveInv

LEMMA AnswerKeeps ==
  SolveInv /\ Answer => SolveInv'
<1> SUFFICES ASSUME SolveInv, Answer PROVE SolveInv'
  OBVIOUS
<1>1. /\ db \in Snapshots /\ day \in Nat /\ day > LastDay /\ proven \in BOOLEAN
      /\ PlanIsSound(plan) /\ (proven => LocksKept(plan) /\ NoneLeft(plan))
  BY DEF SolveInv, Answer
<1>2. db' = db /\ day' = day /\ closed' = closed /\ plan' = plan /\ proven' = proven /\ stage' = "answered"
  BY DEF Answer
<1>3. PlanIsSound(plan)' /\ (LocksKept(plan) => LocksKept(plan)')
  BY <1>1, <1>2, AfterChoosing
<1>4. ASSUME proven PROVE NoneLeft(plan)'
  <2>1. ASSUME NEW v \in Solvable \ DOMAIN plan, Plain(v), NEW c \in Options(Ask(v))
        PROVE  ~CanJoin(plan, c)
    <3>1. CASE v \in Locked
      BY <1>1, <1>4, <2>1, <3>1 DEF NoneLeft, Considered
    <3>2. CASE v \notin Locked
      <4>1. DayOf(c.start) \in 0 .. LastDay
        BY <1>1, <3>2, OrdinaryDays
      <4>2. DayOf(c.start) < day
        BY <1>1, <4>1, SnapshotsAreSound
      <4>3. QED
        BY <1>1, <1>4, <2>1, <4>2 DEF NoneLeft, Considered
    <3>3. QED
      BY <3>1, <3>2
  <2>2. /\ Solvable' = Solvable /\ Reservations' = Reservations
        /\ \A v : Ask(v)' = Ask(v) /\ (Plain(v)' <=> Plain(v))
        /\ \A q : Options(q)' = Options(q)
    BY <1>2, FrameOfSnapshot
  <2>3. QED
    BY <1>2, <2>1, <2>2 DEF NoneLeft, CanJoin
<1>5. QED
  BY <1>1, <1>2, <1>3, <1>4 DEF SolveInv


LEMMA StutterKeeps ==
  SolveInv /\ UNCHANGED vars => SolveInv'
<1> SUFFICES ASSUME SolveInv, UNCHANGED vars PROVE SolveInv'
  OBVIOUS
<1>1. db' = db /\ day' = day /\ closed' = closed /\ plan' = plan /\ proven' = proven /\ stage' = stage
  BY DEF vars
<1>2. PlanIsSound(plan)' /\ (LocksKept(plan) => LocksKept(plan)')
  BY <1>1, AfterChoosing DEF SolveInv
<1>3. (Settled(plan) => Settled(plan)') /\ (ClosedBy(plan) => ClosedBy(plan)')
  BY <1>1 DEF Settled, ClosedBy
<1>4. NoneLeft(plan) => NoneLeft(plan)'
  <2>1. /\ Solvable' = Solvable /\ Reservations' = Reservations /\ Locked' = Locked
        /\ \A v : Ask(v)' = Ask(v) /\ (Plain(v)' <=> Plain(v))
        /\ \A q : Options(q)' = Options(q)
    BY <1>1, FrameOfSnapshot
  <2>2. QED
    BY <1>1, <2>1 DEF NoneLeft, CanJoin, Considered
<1>5. QED
  BY <1>1, <1>2, <1>3, <1>4 DEF SolveInv

LEMMA NextKeeps ==
  SolveInv /\ [Next]_vars => SolveInv'
BY SolveAtOnceKeeps, SolveLocksKeeps, SolveDayKeeps, AnswerKeeps, StutterKeeps DEF Next

(***************************************************************************)
(* The invariant holds throughout every solve of every sound snapshot.     *)
(***************************************************************************)
THEOREM SolveHolds ==
  Spec => []SolveInv
<1>1. Init => SolveInv
  BY InitHolds
<1>2. SolveInv /\ [Next]_vars => SolveInv'
  BY NextKeeps
<1>3. QED
  BY <1>1, <1>2, PTL DEF Spec

(***************************************************************************)
(* What is answered can be saved, whatever the staff, the fleet, the       *)
(* visits, the range and the split into windows.  The engine, which states *)
(* the rules a second time, refuses only the visits that somebody is given *)
(* on the strength of a station that is not in effect on the day, which    *)
(* the request names and the engine does not know; and nothing makes       *)
(* persistResult throw the run away, as every pin that can be honoured is. *)
(***************************************************************************)
THEOREM AnswersAreSavable ==
  Spec => []AnswerIsSavable
<1>1. SolveInv => AnswerIsSavable
  <2> SUFFICES ASSUME SolveInv, NEW v \in DOMAIN plan
               PROVE  /\ Verdict(v) = IF AtStations(v) THEN {} ELSE {"EMPLOYEE_PERMANENTLY_STATIONED"}
                      /\ Honourable(v) =>
                        /\ Legal(v) /\ KeepsPins(v)
                        /\ Moved(v) => <<DayOf(plan[v].start), MinuteOf(plan[v].start)>> \notin Occupied(v)
    BY DEF AnswerIsSavable
  <2>1. db \in Snapshots /\ PlanIsSound(plan)
    BY DEF SolveInv
  <2>2. Verdict(v) = IF AtStations(v) THEN {} ELSE {"EMPLOYEE_PERMANENTLY_STATIONED"}
    BY <2>1, SoundVerdict
  <2>3. ASSUME Honourable(v)
        PROVE  /\ Legal(v) /\ KeepsPins(v)
               /\ Moved(v) => <<DayOf(plan[v].start), MinuteOf(plan[v].start)>> \notin Occupied(v)
    BY <2>1, <2>3, EntryIsLegal, PinsAreKept
  <2>4. QED
    BY <2>2, <2>3
<1>2. QED
  BY <1>1, SolveHolds, PTL

(***************************************************************************)
(* Pinned work comes first: the days that are solved after the pinned      *)
(* visits add to the plan and take nothing out of it, so that it keeps as  *)
(* many of them as any plan for them alone.                                *)
(***************************************************************************)
THEOREM LocksAlwaysComeFirst ==
  Spec => []LocksComeFirst
<1>1. SolveInv => LocksComeFirst
  <2> SUFFICES ASSUME SolveInv, stage = "answered", proven, NEW p \in Plans(Asks(Locked), Reservations)
               PROVE  Cardinality(DOMAIN p) <= Cardinality(DOMAIN plan \cap Locked)
    BY DEF LocksComeFirst
  <2>1. db \in Snapshots /\ LocksKept(plan)
    BY DEF SolveInv
  <2>2. Locked \in SUBSET Solvable
    BY DEF Locked
  <2>3. PlanIsSound(p) /\ DOMAIN p \subseteq Locked
    BY <2>1, <2>2, SoundPlans
  <2>4. QED
    BY <2>1, <2>3 DEF LocksKept
<1>2. QED
  BY <1>1, SolveHolds, PTL

(***************************************************************************)
(* The queue is honest: each reason the diagnosis gives, questions asked   *)
(* of one visit at a time, excludes everything the constraint model would  *)
(* allow the visit; and where the windows were solved to the end, a visit  *)
(* left out fits nowhere beside the plan.                                  *)
(***************************************************************************)
THEOREM GapsAreAlwaysHonest ==
  Spec => []GapsAreHonest
<1>1. SolveInv => GapsAreHonest
  <2> SUFFICES ASSUME SolveInv, stage = "answered", NEW v \in Solvable \ DOMAIN plan
               PROVE  /\ Reasons(Ask(v)) \ Advisory # {} => Options(Ask(v)) = {}
                      /\ proven /\ (\A s \in SlotsOf(v) : ~s.preferred) =>
                           \A c \in Options(Ask(v)) :
                             ~(FreeOf(c, Reservations) /\ \A w \in DOMAIN plan : Compatible(c, plan[w]))
    BY DEF GapsAreHonest
  <2>1. db \in Snapshots /\ v \in Visit
    BY DEF SolveInv, Solvable
  <2>2. Reasons(Ask(v)) \ Advisory # {} => Options(Ask(v)) = {}
    BY <2>1, ReasonsHold
  <2>3. ASSUME proven, \A s \in SlotsOf(v) : ~s.preferred, NEW c \in Options(Ask(v))
        PROVE  ~(FreeOf(c, Reservations) /\ \A w \in DOMAIN plan : Compatible(c, plan[w]))
    <3>1. NoneLeft(plan)
      BY <2>3 DEF SolveInv
    <3>2. ~CanJoin(plan, c)
      BY <2>3, <3>1 DEF NoneLeft, Considered, Plain
    <3>3. QED
      BY <3>2 DEF CanJoin
  <2>4. QED
    BY <2>2, <2>3
<1>2. QED
  BY <1>1, SolveHolds, PTL

(***************************************************************************)
(* The picker lists somebody as free exactly when the engine has nothing   *)
(* against them at that time.                                              *)
(***************************************************************************)
THEOREM PickerAlwaysAgrees ==
  Spec => []PickerAgrees
<1>1. PickerAgrees
  <2> SUFFICES ASSUME NEW v \in DOMAIN plan, NEW e \in Staff
               PROVE  LET p == Proposal(v)
                          visit == [branch |-> Terms(v).branch, date |-> DayOf(p.start)]
                          booked == {b \in Reservations \cup {Period(w, Proposal(w)) : w \in DOMAIN plan \ {v}} :
                                       e \in b.crew}
                      IN db.staff[e].branch = visit.branch =>
                           (PickerReason(p, visit, db.staff[e], booked) = ""
                              <=> PersonConflicts(p, visit, db.staff[e], AroundDay(visit.date, booked)) = {})
    BY DEF PickerAgrees
  <2>1. db.staff[e].active
    BY DEF Staff
  <2>2. QED
    BY <2>1, PickerIs
<1>2. QED
  BY <1>1, PTL
===============================================================================
