----------------------------- MODULE Eligibility -----------------------------
(* The eligibility engine: what is wrong with one crew, at one time, for one  *)
(* visit.  Every writer of assignments asks it (evaluateAssignment), and the   *)
(* crew picker asks a shorter version of it for one person at a time           *)
(* (candidates).  Times are minutes from the first day of a horizon, so that a *)
(* period of the day before can be compared with one of today, as the facts    *)
(* loaded for a visit are.                                                     *)
EXTENDS Integers, FiniteSets

DayMinutes == 1440
TravelBuffer == 60    \* DEFAULT_DIFFERENT_SITE_TRAVEL_BUFFER_MINUTES
Unknown == "unknown"  \* the branch of a vehicle nobody recorded one for
NoLimit == 0          \* the seats of a vehicle nobody counted

\* A period is a record with start and end, and the site where it is spent.
\* Touching is not overlapping: who finishes at noon can start at noon.
Overlap(a, b) == a.start < b.end /\ b.start < a.end

Gap(a, b) == IF b.end <= a.start THEN a.start - b.end ELSE b.start - a.end

TooFarApart(a, b) ==
  a.site # b.site /\ ~Overlap(a, b) /\ Gap(a, b) < TravelBuffer

\* The bookings that are loaded to judge a day: those that touch it, or come
\* so close to it that the way from there matters.
AroundDay(day, bookings) ==
  {b \in bookings : /\ b.start < (day + 1) * DayMinutes + TravelBuffer
                    /\ b.end > day * DayMinutes - TravelBuffer}

\* What is wrong with the job p itself: with the state of the visit, with a
\* lock on its crew, and with the time.  p has start, end, crew, vehicles and
\* the site; visit the terms of the job; held says that it is locked.
VisitConflicts(p, visit, held) ==
  {code \in {"VISIT_NOT_SCHEDULABLE", "ASSIGNMENT_LOCKED", "WINDOW_TOO_SHORT",
             "OUTSIDE_SERVICE_HOURS"} :
     CASE code = "VISIT_NOT_SCHEDULABLE" -> visit.status \in {"COMPLETED", "CANCELLED"}
       [] code = "ASSIGNMENT_LOCKED" -> held
       [] code = "WINDOW_TOO_SHORT" -> p.end - p.start < visit.minutes
       [] OTHER -> p.start < visit.opens \/ p.end > visit.closes}

\* The sites a person is stationed at on a date: a station, [site, days], holds
\* for the days it is in effect and no other.
SitesOn(person, date) == {s.site : s \in {s \in person.stations : date \in s.days}}

\* What keeps one person from the job.
PersonConflicts(p, visit, person, bookings) ==
  {code \in {"EMPLOYEE_INACTIVE", "BRANCH_MISMATCH", "EMPLOYEE_UNAVAILABLE",
             "EMPLOYEE_PERMANENTLY_STATIONED", "EMPLOYEE_DOUBLE_BOOKED",
             "EMPLOYEE_TRAVEL_GAP_TOO_SHORT"} :
     CASE code = "EMPLOYEE_INACTIVE" -> ~person.active
       [] code = "BRANCH_MISMATCH" -> person.branch # visit.branch
       [] code = "EMPLOYEE_UNAVAILABLE" -> visit.date \in person.away
       [] code = "EMPLOYEE_PERMANENTLY_STATIONED" ->
            person.stationed /\ p.site \notin SitesOn(person, visit.date)
       [] code = "EMPLOYEE_DOUBLE_BOOKED" -> \E b \in bookings : Overlap(p, b)
       [] OTHER -> \E b \in bookings : TooFarApart(p, b)}

\* What is wrong with the crew as a whole.  staff says who works for the
\* company, active or not; crews travel together, or each by public transport.
CrewConflicts(p, visit, staff) ==
  LET crew == {staff[e] : e \in p.crew}
      branchHasSupervisor ==
        \E e \in DOMAIN staff :
           staff[e].active /\ staff[e].pms /\ staff[e].branch = visit.branch
  IN {code \in {"CREW_TOO_SMALL", "NO_PMS_SUPERVISOR_AVAILABLE",
                "BRANCH_HAS_NO_PMS_SUPERVISOR", "SKILL_NOT_HELD", "CREW_CANNOT_TRAVEL",
                "TOO_MANY_VEHICLES"} :
        CASE code = "CREW_TOO_SMALL" -> Cardinality(p.crew) < visit.crew
          [] code = "NO_PMS_SUPERVISOR_AVAILABLE" ->
               branchHasSupervisor /\ \A person \in crew : ~person.pms
          [] code = "BRANCH_HAS_NO_PMS_SUPERVISOR" ->
               ~branchHasSupervisor /\ \A person \in crew : ~person.pms
          [] code = "SKILL_NOT_HELD" ->
               \E s \in visit.skills : \A person \in crew : s \notin person.skills
          [] code = "CREW_CANNOT_TRAVEL" ->
               p.vehicles = {} /\ \E person \in crew : ~person.transit
          [] OTHER -> Cardinality(p.vehicles) > 1}

\* What is wrong with one vehicle of the proposal, v = [id, driver].
VehicleConflicts(p, visit, staff, v, van, bookings) ==
  {code \in {"VEHICLE_INACTIVE", "VEHICLE_BRANCH_MISMATCH", "VEHICLE_DOUBLE_BOOKED",
             "VEHICLE_TRAVEL_GAP_TOO_SHORT", "VEHICLE_CAPACITY_EXCEEDED",
             "NO_AUTHORIZED_DRIVER"} :
     CASE code = "VEHICLE_INACTIVE" -> ~van.active
       [] code = "VEHICLE_BRANCH_MISMATCH" -> van.branch \notin {Unknown, visit.branch}
       [] code = "VEHICLE_DOUBLE_BOOKED" -> \E b \in bookings : Overlap(p, b)
       [] code = "VEHICLE_TRAVEL_GAP_TOO_SHORT" -> \E b \in bookings : TooFarApart(p, b)
       [] code = "VEHICLE_CAPACITY_EXCEEDED" ->
            van.seats # NoLimit /\ Cardinality(p.crew) > van.seats
       [] OTHER -> ~(v.driver \in p.crew /\ v.id \in staff[v.driver].drives)}

\* loadEmployees and loadVehicles: the facts of whoever is proposed, with the
\* bookings of the days around.
EmployeeBusy(e, visit, booked) == {b \in AroundDay(visit.date, booked) : e \in b.crew}
VehicleBusy(v, visit, booked) == {b \in AroundDay(visit.date, booked) : v \in b.vehicles}

\* evaluateAssignment over the facts that buildContext loads: every conflict,
\* never just the first.  booked is the set of all assignments in force except
\* the one that is replaced, each a period with its crew and vehicles.
Conflicts(p, visit, held, staff, fleet, booked) ==
  VisitConflicts(p, visit, held) \cup CrewConflicts(p, visit, staff)
    \cup UNION {PersonConflicts(p, visit, staff[e], EmployeeBusy(e, visit, booked)) : e \in p.crew}
    \cup UNION {VehicleConflicts(p, visit, staff, v, fleet[v.id], VehicleBusy(v.id, visit, booked)) :
                  v \in p.vehicles}

\* Mutant: the picker forgets that somebody may be stationed at this very site.
StationedElsewhereAlways(person, site, date) == person.stationed
StationedElsewhere(person, site, date) ==
  person.stationed /\ site \notin SitesOn(person, date)

\* The crew picker: the first thing that keeps a person from the times asked
\* for, "" when nothing does.  Only active people of the branch are listed.
PickerReason(p, visit, person, booked) ==
  LET around == AroundDay(visit.date, booked) IN
    IF visit.date \in person.away THEN "EMPLOYEE_UNAVAILABLE"
    ELSE IF StationedElsewhere(person, p.site, visit.date) THEN "EMPLOYEE_PERMANENTLY_STATIONED"
    ELSE IF \E b \in around : Overlap(p, b) THEN "EMPLOYEE_DOUBLE_BOOKED"
    ELSE IF \E b \in around : TooFarApart(p, b) THEN "EMPLOYEE_TRAVEL_GAP_TOO_SHORT"
    ELSE ""
=============================================================================
