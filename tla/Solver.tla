-------------------------------- MODULE Solver --------------------------------
(* One solve: the request the API builds from its snapshot (buildSolveRequest), *)
(* the solver's work on it (solve: pinned visits jointly, then day by day), and *)
(* what the API makes of the answer before it saves it.  A plan maps the visits *)
(* that are staffed to where, when and by whom; the constraint model of a       *)
(* window is the set of plans it allows, and CP-SAT finds one of the best of    *)
(* them or, when its time runs out, any.  Preferences only break ties and are   *)
(* left open.  Days are numbered from 0 and times are minutes from day 0.       *)
EXTENDS Eligibility, FiniteSetsExt

CONSTANTS
  Visit,          \* the generated visits of the run's range
  LastDay,        \* the range is the days 0 .. LastDay
  LookaheadLimit, \* ordinary visits solved together with the pinned ones
  Snapshots       \* the databases the run may find, see Ask for their fields

VARIABLES
  db,      \* the snapshot
  plan,    \* the visits staffed so far, each with its Choice
  closed,  \* <<agreement, day>> pairs the joint solve has used
  day,     \* the next day to solve
  stage,   \* "asked", "days" or "answered"
  proven   \* every window so far was solved to optimality

vars == <<db, plan, closed, day, stage, proven>>

Day == 0 .. LastDay
Slot == 30                                        \* SLOT_GRANULARITY_MINUTES
AssumedDay == [opens |-> 8 * 60, closes |-> 17 * 60]
DayOf(minute) == minute \div DayMinutes
MinuteOf(minute) == minute % DayMinutes

\* What the schema and the writers of its rows see to: a visit lasts, hours are
\* minutes of the day, an agreement's days lie in the range, a booking does not
\* end before it starts, and a draft is on the date of its visit with somebody
\* who leads it.
InHours(w) == w.opens \in Nat /\ w.closes \in Nat
InOrder(booking) == booking.start \in Int /\ booking.end \in Int /\ booking.start <= booking.end
IsSnapshot(s) ==
  /\ \A v \in Visit :
       LET visit == s.visits[v]
           terms == s.agreements[visit.agreement]
       IN /\ visit.date \in Day /\ visit.minutes \in Nat \ {0} /\ visit.crew \in Nat
          /\ InHours(visit) /\ InHours(terms) /\ terms.allowed \subseteq Day
          /\ \A d \in Day : \A w \in s.hours[terms.site][d] : InHours(w)
          /\ visit.standing \in {"draft", "published"} => InOrder(visit.booking)
          /\ visit.standing = "draft" =>
               /\ DayOf(visit.booking.start) = visit.date
               /\ visit.booking.leads \cup visit.booking.graded # {}
  /\ IsFiniteSet(DOMAIN s.staff) /\ \A k \in DOMAIN s.fleet : s.fleet[k].seats \in Nat
  /\ \A b \in s.elsewhere : InOrder(b)

ASSUME SnapshotsAreSound ==
  /\ IsFiniteSet(Visit) /\ LastDay \in Nat
  /\ \A s \in Snapshots : IsSnapshot(s)

-------------------------------------------------------------------------------
(* The request.                                                               *)

Terms(v) == db.agreements[db.visits[v].agreement]
Pins(v) == IF db.visits[v].standing = "draft" THEN db.visits[v].booking.pins ELSE {}
TimePinned(v) == Pins(v) \cap {"FULL", "TIME"} # {}

\* Windows of the site on a day, narrowed by the agreement's own.  A site
\* without any recorded hours is taken to be open the assumed day.
Windows(terms, d) ==
  LET hours == db.hours[terms.site]
      known == IF \A x \in Day : hours[x] = {} THEN {AssumedDay} ELSE hours[d]
      narrowed == {[opens |-> Max({w.opens, terms.opens}),
                    closes |-> Min({w.closes, terms.closes})] : w \in known}
  IN {w \in narrowed : w.closes > w.opens}

\* buildCandidateSlots: the days of the visit's own period that the agreement
\* allows, or the booked date and no other, with room for the job.
BuildSlots(terms, days, minutes) ==
  {s \in {[date |-> d, earliest |-> w.opens, latest |-> w.closes - minutes,
           preferred |-> d \in terms.preferred] :
            d \in days, w \in UNION {Windows(terms, x) : x \in days}} :
     /\ s.earliest <= s.latest
     /\ [opens |-> s.earliest, closes |-> s.latest + minutes] \in Windows(terms, s.date)}

DaysOfPeriod(terms, date) ==
  {d \in terms.allowed : terms.periodOf[d] = terms.periodOf[date]}

\* The slots of some days as a visit can take them: on its own date it keeps
\* its window; elsewhere a move rewrites it.
SlotsWithin(days, date, window, terms, minutes) ==
  LET kept(s) == IF s.date # date THEN s
                 ELSE [date |-> date, preferred |-> s.preferred,
                       earliest |-> Max({s.earliest, window.opens}),
                       latest |-> Min({s.latest, window.closes - minutes})]
  IN {s \in {kept(s) : s \in BuildSlots(terms, days, minutes)} : s.earliest <= s.latest}

CandidateSlots(visit, terms, minutes) ==
  SlotsWithin(IF visit.booked THEN {visit.date} ELSE DaysOfPeriod(terms, visit.date),
              visit.date, visit, terms, minutes)

\* A date that is fixed does not move, and is held to the hours of its site
\* where that weekday has any.
ProtectedSlots(visit, terms, minutes) ==
  LET bounded == [opens |-> Max({visit.opens, terms.opens}),
                  closes |-> Min({visit.closes, terms.closes})]
  IN IF db.hours[terms.site][visit.date] # {}
       THEN SlotsWithin({visit.date}, visit.date, bounded, terms, minutes)
       ELSE {s \in {[date |-> visit.date, earliest |-> bounded.opens,
                     latest |-> bounded.closes - minutes, preferred |-> FALSE]} :
               s.earliest <= s.latest}

Protected(v) == db.visits[v].held \/ db.visits[v].booked \/ TimePinned(v)

\* What the solver may choose from.  A visit whose time is pinned has no slots:
\* its start is the pin's.
SlotsOf(v) ==
  LET visit == db.visits[v] IN
    IF TimePinned(v) THEN {}
    ELSE IF Protected(v) THEN {s \in ProtectedSlots(visit, Terms(v), visit.minutes) :
                                 s.date = visit.date}
    ELSE CandidateSlots(visit, Terms(v), visit.minutes)

\* Unfinished work of serviced clients whose crew is not published.
Solvable ==
  {v \in Visit : /\ db.visits[v].status = "OPEN" /\ Terms(v).serviced
                 /\ db.visits[v].standing # "published"}

\* Starts that would give two visits of one agreement the same key.
Occupied(v) ==
  {<<db.visits[w].date, db.visits[w].opens>> :
     w \in {w \in Visit \ {v} : db.visits[w].agreement = db.visits[v].agreement}}

\* The request for one visit.  lock is the crew, time and vehicle its draft
\* has, of which pins says what must stay.
Ask(v) ==
  LET visit == db.visits[v] IN
    [agreement |-> visit.agreement, branch |-> Terms(v).branch, site |-> Terms(v).site,
     skills |-> Terms(v).skills, date |-> visit.date, opens |-> visit.opens,
     closes |-> visit.closes, minutes |-> visit.minutes, crew |-> visit.crew,
     slots |-> SlotsOf(v), occupied |-> Occupied(v), pins |-> Pins(v), lock |-> visit.booking]

\* What is fixed: published crews of these visits, and all work of others.
Period(v, booking) == [start |-> booking.start, end |-> booking.end, site |-> Terms(v).site,
                       crew |-> booking.crew, vehicles |-> {x.id : x \in booking.vehicles}]
Reservations ==
  db.elsewhere \cup
  {Period(v, db.visits[v].booking) : v \in {v \in Visit : db.visits[v].standing = "published"}}

-------------------------------------------------------------------------------
(* The constraint model of a window.                                          *)

Staff == {e \in DOMAIN db.staff : db.staff[e].active}
Fleet == {k \in DOMAIN db.fleet : db.fleet[k].active}

Pinned(q, scopes) == q.pins \cap scopes # {}
Timed(q) == Pinned(q, {"FULL", "TIME"})
Dates(q) == IF q.slots = {} THEN {q.date} ELSE {s.date : s \in q.slots}

\* Away on some of the days a visit could take is not away for the visit.  The
\* request names every site a person was ever to be stationed at, and not when.
CanServe(e, q) ==
  /\ db.staff[e].branch = q.branch
  /\ ~(Dates(q) \subseteq db.staff[e].away)
  /\ db.staff[e].stationed => \E s \in db.staff[e].stations : s.site = q.site

Able(q) == {e \in Staff : CanServe(e, q)}

\* scheduled_duration: a pinned time is reserved as it stands.
Length(q) ==
  IF Timed(q) /\ q.lock.end - q.lock.start >= q.minutes
    THEN q.lock.end - q.lock.start ELSE q.minutes

\* slot_starts: half hours of the slots that no sibling's key occupies.
Starts(q) ==
  IF Timed(q) THEN {q.date * DayMinutes + MinuteOf(q.lock.start)}
  ELSE UNION {{s.date * DayMinutes + m :
                 m \in {m \in s.earliest .. Min({s.latest, DayMinutes - q.minutes}) :
                          (m - s.earliest) % Slot = 0 /\ <<s.date, m>> \notin q.occupied}} :
                s \in q.slots}

Vans(q) ==
  {k \in Fleet : /\ db.fleet[k].branch \in {Unknown, q.branch}
                 /\ db.fleet[k].seats = NoLimit \/ db.fleet[k].seats >= q.crew}

\* The crew alone: its size, a PMS-grade supervisor, every skill.
Crews(q) ==
  {c \in SUBSET Able(q) :
     /\ Cardinality(c) = q.crew
     /\ \E e \in c : db.staff[e].pms
     /\ \A s \in q.skills : \E e \in c : s \in db.staff[e].skills}

\* One vehicle with a driver of the crew, or everybody by public transport.
Rides(q, crew) ==
  {{x} : x \in {x \in [id : Vans(q), driver : crew] : x.id \in db.staff[x.driver].drives}}
    \cup (IF \A e \in crew : db.staff[e].transit THEN {{}} ELSE {})

\* The leads of a draft: by role or, in older drafts, by the grade they had.
Leads(lock) ==
  IF lock.leads # {} THEN lock.leads ELSE lock.graded

HonoursPins(q, c) ==
  /\ Timed(q) => /\ q.lock.end - q.lock.start >= q.minutes
                 /\ MinuteOf(q.lock.start) >= q.opens
                 /\ q.lock.end - q.date * DayMinutes <= q.closes
  /\ Pinned(q, {"FULL", "CREW"}) => c.crew = q.lock.crew
  /\ Pinned(q, {"SUPERVISOR"}) => \A e \in Leads(q.lock) : e \in c.crew /\ db.staff[e].pms
  /\ Pinned(q, {"FULL", "VEHICLE"}) => c.vehicles = q.lock.vehicles

\* Everything a visit may be given, other visits apart.
Options(q) ==
  {c \in {[start |-> s, end |-> s + Length(q), crew |-> crew, vehicles |-> ride,
           site |-> q.site, agreement |-> q.agreement] :
            s \in Starts(q), crew \in Crews(q),
            ride \in UNION {Rides(q, crew) : crew \in Crews(q)}} :
     /\ q.closes - q.opens >= q.minutes
     /\ c.vehicles \in Rides(q, c.crew)
     /\ \A e \in c.crew : DayOf(c.start) \notin db.staff[e].away
     /\ HonoursPins(q, c)}

\* Two jobs one person or one vehicle can do both of.
\* Mutant: no time to get from one site to another.
ApartUntravelled(a, b) == a.end <= b.start \/ b.end <= a.start
Apart(a, b) ==
  LET buffer == IF a.site = b.site THEN 0 ELSE TravelBuffer IN
    a.end + buffer <= b.start \/ b.end + buffer <= a.start

VansOf(c) == {x.id : x \in c.vehicles}

FreeOf(c, reserved) ==
  \A r \in reserved :
    (c.crew \cap r.crew # {} \/ VansOf(c) \cap r.vehicles # {}) => Apart(c, r)

Compatible(c, d) ==
  /\ (c.crew \cap d.crew # {} \/ VansOf(c) \cap VansOf(d) # {}) => Apart(c, d)
  /\ c.agreement = d.agreement => DayOf(c.start) # DayOf(d.start)

Staffs(p, v, c) == [w \in DOMAIN p \cup {v} |-> IF w = v THEN c ELSE p[w]]

\* Every plan for the visits asks describes, beside what is reserved.
Plans(asks, reserved) ==
  FoldSet(LAMBDA v, plans :
            plans \cup {Staffs(pc[1], v, pc[2]) :
              pc \in {x \in plans \X {c \in Options(asks[v]) : FreeOf(c, reserved)} :
                        \A w \in DOMAIN x[1] : Compatible(x[1][w], x[2])}},
          {<<>>}, DOMAIN asks)

\* Mutant: a pinned visit counts for no more than any other.
BestCoverage(plans, pinned) ==
  {p \in plans : \A x \in plans : Cardinality(DOMAIN x) <= Cardinality(DOMAIN p)}

\* Pinned visits first, then the number staffed; what is left is preference.
Best(plans, pinned) ==
  LET worth(p) == Cardinality(DOMAIN p \cap pinned) * (Cardinality(Visit) + 1)
                    + Cardinality(DOMAIN p)
      most == Max({worth(p) : p \in plans})
  IN {p \in plans : worth(p) = most}

-------------------------------------------------------------------------------
(* Why a visit was left out (_why_unstaffable).                               *)

CannotTravel(q) ==
  /\ ~\E k \in Vans(q), e \in Able(q) : k \in db.staff[e].drives
  /\ Cardinality({e \in Able(q) : db.staff[e].transit}) < q.crew

Reasons(q) ==
  LET branch == {e \in Staff : db.staff[e].branch = q.branch}
      vans == {k \in Fleet : db.fleet[k].branch \in {Unknown, q.branch}}
  IN {code \in {"BRANCH_HAS_NO_PMS_SUPERVISOR", "NO_PMS_SUPERVISOR_AVAILABLE",
                "CREW_TOO_SMALL", "SKILL_NOT_HELD", "NO_FEASIBLE_TIME", "WINDOW_TOO_SHORT",
                "NO_AUTHORIZED_DRIVER", "CREW_CANNOT_TRAVEL"} :
        CASE code = "BRANCH_HAS_NO_PMS_SUPERVISOR" -> \A e \in branch : ~db.staff[e].pms
          [] code = "NO_PMS_SUPERVISOR_AVAILABLE" ->
               /\ \A e \in Able(q) : ~db.staff[e].pms
               /\ \E e \in branch : db.staff[e].pms
          [] code = "CREW_TOO_SMALL" -> Cardinality(Able(q)) < q.crew
          [] code = "SKILL_NOT_HELD" ->
               \E s \in q.skills : \A e \in Able(q) : s \notin db.staff[e].skills
          [] code = "NO_FEASIBLE_TIME" -> q.slots = {} /\ ~Timed(q)
          [] code = "WINDOW_TOO_SHORT" ->
               IF q.slots # {} THEN \A s \in q.slots : s.earliest > s.latest
               ELSE q.closes - q.opens < q.minutes
          [] code = "NO_AUTHORIZED_DRIVER" ->
               vans # {} /\ \A k \in vans, e \in Able(q) : k \notin db.staff[e].drives
          [] OTHER -> CannotTravel(q)}

Advisory == {"NO_AUTHORIZED_DRIVER"}

-------------------------------------------------------------------------------
(* The phases of a solve.                                                     *)

DaysFor(q) == IF Timed(q) THEN {q.date} ELSE {s.date : s \in q.slots}
AllDays == UNION {DaysFor(Ask(v)) : v \in Solvable}
Locked == {v \in Solvable : Pins(v) # {}}
Asks(visits) == [v \in visits |-> Ask(v)]

\* Ordinary work that could compete with visit v: for its agreement's day, for
\* a person, or for a vehicle, on a day both may take.
Competes(v, w) ==
  LET q == Ask(v)  r == Ask(w)
      drivable(x) == {k \in Vans(x) : \E e \in Able(x) : k \in db.staff[e].drives}
  IN /\ q.agreement = r.agreement \/ Able(q) \cap Able(r) # {} \/ drivable(q) \cap drivable(r) # {}
     /\ DaysFor(q) \cap DaysFor(r) # {}

\* The visits that competition reaches from the pinned ones, at first hand or
\* over others.  Those ranked first are looked at; the ranking is left open.
Reached ==
  LET ordinary == {v \in Solvable \ Locked : Reasons(Ask(v)) \subseteq Advisory}
      closedUnder(s) == \A w \in ordinary : (\E v \in s \cup Locked : Competes(v, w)) => w \in s
  IN {w \in ordinary : \A s \in SUBSET ordinary : closedUnder(s) => w \in s}

Lookahead ==
  kSubset(Min({LookaheadLimit, Cardinality(Reached)}), Reached)

\* What the visits staffed so far take from those that are still to be solved.
Taken(p) == {[start |-> p[v].start, end |-> p[v].end, site |-> p[v].site,
              crew |-> p[v].crew, vehicles |-> VansOf(p[v])] : v \in DOMAIN p}

Solved(p, plans) ==
  /\ plan' = p
  /\ proven' = (proven /\ \E b \in Best(plans, Locked) : Cardinality(DOMAIN b) = Cardinality(DOMAIN p)
                             /\ Cardinality(DOMAIN b \cap Locked) = Cardinality(DOMAIN p \cap Locked))

\* All the work of one day, pinned or not, in one model.
SolveAtOnce ==
  /\ stage = "asked" /\ Cardinality(AllDays) <= 1
  /\ LET plans == Plans(Asks(Solvable), Reservations) IN
       \E p \in plans : Solved(p, plans)
  /\ stage' = "answered"
  /\ UNCHANGED <<db, closed, day>>

\* Pinned visits first, over all days, with some of the work they compete with.
SolveLocks ==
  /\ stage = "asked" /\ Cardinality(AllDays) > 1
  /\ IF Locked = {} THEN UNCHANGED <<plan, closed, proven>>
     ELSE \E ahead \in Lookahead :
            LET plans == Plans(Asks(Locked \cup ahead), Reservations) IN
              \E p \in plans :
                /\ Solved(p, plans)
                /\ closed' = {<<p[v].agreement, DayOf(p[v].start)>> : v \in DOMAIN p}
  /\ stage' = "days"
  /\ UNCHANGED <<db, day>>

\* _may_take: a visit is held back while one of its preferred days is ahead.
MayTake(q, d) ==
  LET preferred == {s.date : s \in {s \in q.slots : s.preferred}} IN
    /\ d \in DaysFor(q)
    /\ preferred = {} \/ d \in preferred \/ \A x \in preferred : x < d

\* Mutant: a visit is offered to the first of its days and to no other.
TodaysOnce(d) ==
  {v \in Solvable \ (DOMAIN plan \cup Locked) :
     /\ <<db.visits[v].agreement, d>> \notin closed
     /\ MayTake(Ask(v), d) /\ \A x \in DaysFor(Ask(v)) : x >= d}
Todays(d) ==
  {v \in Solvable \ (DOMAIN plan \cup Locked) :
     /\ <<db.visits[v].agreement, d>> \notin closed
     /\ MayTake(Ask(v), d)}

NarrowedTo(q, d) == [q EXCEPT !.date = d, !.slots = {s \in @ : s.date = d}]

\* The ordinary work of the next day, beside everything staffed before.
SolveDay ==
  /\ stage = "days" /\ day <= LastDay
  /\ LET asks == [v \in Todays(day) |-> NarrowedTo(Ask(v), day)]
         plans == Plans(asks, Reservations \cup Taken(plan))
     IN \E p \in plans :
          /\ plan' = [v \in DOMAIN plan \cup DOMAIN p |-> IF v \in DOMAIN p THEN p[v] ELSE plan[v]]
          /\ proven' = (proven /\ p \in Best(plans, {}))
  /\ day' = day + 1
  /\ UNCHANGED <<db, closed, stage>>

Answer ==
  /\ stage = "days" /\ day > LastDay
  /\ stage' = "answered"
  /\ UNCHANGED <<db, plan, closed, day, proven>>

Init ==
  /\ db \in Snapshots
  /\ plan = <<>> /\ closed = {} /\ day = 0 /\ stage = "asked" /\ proven = TRUE

Next == SolveAtOnce \/ SolveLocks \/ SolveDay \/ Answer

Spec == Init /\ [][Next]_vars

-------------------------------------------------------------------------------
(* What the API makes of the answer (executeLeased), and the checks it passes   *)
(* on its way into the database (persistResult).                                *)

Moved(v) == DayOf(plan[v].start) # db.visits[v].date

\* A pinned time is written as it stands, any other ends when the job does.
Proposal(v) ==
  [plan[v] EXCEPT !.end = IF TimePinned(v) THEN db.visits[v].booking.end
                          ELSE plan[v].start + db.visits[v].minutes]

\* A move carries a window that starts with the job.
Window(v) ==
  LET visit == db.visits[v]  start == MinuteOf(plan[v].start) IN
    IF Moved(v) THEN [opens |-> start, closes |-> Max({visit.closes, start + visit.minutes})]
    ELSE [opens |-> visit.opens, closes |-> visit.closes]

\* solvedCrewRoles: the leads of the draft that may lead, else any one member
\* of the grade.
LeadsOf(v) ==
  LET graded == {e \in plan[v].crew : db.staff[e].pms}
      kept == IF Pinned(Ask(v), {"SUPERVISOR", "FULL"})
                THEN Leads(db.visits[v].booking) \cap graded ELSE {}
  IN IF kept # {} THEN {kept} ELSE {{e} : e \in graded}

\* The verdict of the engine on a visit of the plan, once the drafts the
\* answer replaces are gone.
Verdict(v) ==
  LET visit == db.visits[v]
      p == Proposal(v)
      date == DayOf(p.start)
      terms == [status |-> visit.status, branch |-> Terms(v).branch, skills |-> Terms(v).skills,
                crew |-> visit.crew, minutes |-> visit.minutes, date |-> date,
                opens |-> date * DayMinutes + Window(v).opens,
                closes |-> date * DayMinutes + Window(v).closes]
      others == {Period(w, Proposal(w)) : w \in DOMAIN plan \ {v}}
  IN Conflicts(p, terms, FALSE, db.staff, db.fleet, Reservations \cup others)

\* The date, time and window that the transaction accepts.
Legal(v) ==
  LET visit == db.visits[v]
      p == Proposal(v)
      start == MinuteOf(p.start)
      slots == IF ~Moved(v) /\ Protected(v)
                 THEN ProtectedSlots(visit, Terms(v), p.end - p.start)
                 ELSE CandidateSlots(visit, Terms(v), visit.minutes)
  IN /\ Moved(v) => ~visit.booked /\ ~visit.held
     /\ ~Moved(v) => start >= visit.opens /\ p.end - visit.date * DayMinutes <= visit.closes
     /\ \E s \in slots : s.date = DayOf(p.start) /\ start \in s.earliest .. s.latest

\* What a pin on the draft keeps the answer from changing.
KeepsPins(v) ==
  LET lock == db.visits[v].booking
      p == Proposal(v)
      pins == Pins(v)
  IN /\ pins \cap {"FULL", "TIME"} # {} => p.start = lock.start /\ p.end = lock.end
     /\ pins \cap {"FULL", "CREW"} # {} => p.crew = lock.crew
     /\ pins \cap {"FULL", "SUPERVISOR"} # {} => LeadsOf(v) = {Leads(lock)}
     /\ pins \cap {"FULL", "VEHICLE"} # {} => p.vehicles = lock.vehicles

\* A pin that still can be honoured: its time is within the hours of today,
\* and whoever leads has the grade.
Honourable(v) ==
  LET visit == db.visits[v] IN
    Pins(v) # {} =>
      /\ Leads(visit.booking) \subseteq {e \in visit.booking.crew : db.staff[e].pms}
      /\ TimePinned(v) =>
           \E s \in ProtectedSlots(visit, Terms(v), visit.booking.end - visit.booking.start) :
              MinuteOf(visit.booking.start) \in s.earliest .. s.latest

-------------------------------------------------------------------------------
(* Properties.                                                                *)

\* Whoever is stationed goes to a station that is in effect on the day.
AtStations(v) ==
  \A e \in plan[v].crew :
    db.staff[e].stationed => Terms(v).site \in SitesOn(db.staff[e], DayOf(plan[v].start))

\* What is answered can be saved.  Solver and engine state the same rules twice,
\* as constraints and as questions: whatever plan the solver finds, over any
\* split of the range into windows, the engine finds no conflict in it, across
\* midnight and against published work included, with one exception.  The
\* request carries every station of a person, ended or yet to begin
\* (permanent_site_ids), while the engine knows those of the day: it refuses
\* exactly the visits that somebody is given on the strength of a station of
\* other days, and persistResult leaves them to the queue (a moved one if its own
\* day is refused too).  Nothing makes it throw the whole run away: dates, times
\* and windows are legal, pins that can be honoured are honoured to the letter,
\* and no move takes the key of another visit of its agreement.
AnswerIsSavable ==
  stage = "answered" =>
    \A v \in DOMAIN plan :
      /\ Verdict(v) = IF AtStations(v) THEN {} ELSE {"EMPLOYEE_PERMANENTLY_STATIONED"}
      /\ Honourable(v) =>
        /\ Legal(v) /\ KeepsPins(v)
        /\ Moved(v) => <<DayOf(plan[v].start), MinuteOf(plan[v].start)>> \notin Occupied(v)

\* Pinned work is placed over all days before anything else: when the windows
\* were solved to the end, no plan for the pinned visits alone keeps more.
LocksComeFirst ==
  stage = "answered" /\ proven =>
    \A p \in Plans(Asks(Locked), Reservations) :
      Cardinality(DOMAIN p) <= Cardinality(DOMAIN plan \cap Locked)

\* A visit in the queue belongs there.  A reason given, other than one that is
\* advice, means that no crew could have been sent whatever else was planned;
\* and when the windows were solved to the end, a visit without a preferred
\* day could not be added to the plan on any of its days.
GapsAreHonest ==
  stage = "answered" =>
    \A v \in Solvable \ DOMAIN plan :
      /\ Reasons(Ask(v)) \ Advisory # {} => Options(Ask(v)) = {}
      /\ proven /\ (\A s \in SlotsOf(v) : ~s.preferred) =>
           \A c \in Options(Ask(v)) :
             ~(FreeOf(c, Reservations) /\ \A w \in DOMAIN plan : Compatible(c, plan[w]))

\* The crew picker and the engine agree on everybody the picker lists, at the
\* time of any visit of the plan.
PickerAgrees ==
  stage = "answered" =>
    \A v \in DOMAIN plan, e \in Staff :
      LET p == Proposal(v)
          visit == [branch |-> Terms(v).branch, date |-> DayOf(p.start)]
          booked == {b \in Reservations \cup {Period(w, Proposal(w)) : w \in DOMAIN plan \ {v}} :
                       e \in b.crew}
      IN db.staff[e].branch = visit.branch =>
           (PickerReason(p, visit, db.staff[e], booked) = ""
              <=> PersonConflicts(p, visit, db.staff[e], AroundDay(visit.date, booked)) = {})
===============================================================================
