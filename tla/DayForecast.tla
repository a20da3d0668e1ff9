---------------------------- MODULE DayForecast ----------------------------
(* What generation asks of a day of a branch before it plans work on it: how  *)
(* many crew-minutes the branch can carry, and whether the very visits of     *)
(* that day can be staffed and driven at all.  The second answer is meant to  *)
(* be one-sided: a day it refuses is impossible.  A demand is a record with   *)
(* opens, closes, minutes, crew and skills; the demands of a day are a        *)
(* function from visits to demands.                                           *)
EXTENDS Eligibility, FiniteSetsExt
LOCAL INSTANCE Functions

EmployeeWorkday == 480   \* DEFAULT_EMPLOYEE_WORKDAY_MINUTES
FallbackCapacity == 720  \* DEFAULT_DAILY_CAPACITY_MINUTES

-----------------------------------------------------------------------------
(* The people and vehicles of a branch.                                      *)

\* loadPool: active people and vehicles of the branch itself; one whose branch
\* nobody recorded is in no pool.
Pool(staff, fleet, branch) ==
  [people |-> {e \in DOMAIN staff : staff[e].active /\ staff[e].branch = branch},
   vans |-> {k \in DOMAIN fleet : fleet[k].active /\ fleet[k].branch = branch}]

\* The pool on one date.  Whoever is away, inactive or of another branch drives
\* nothing, whatever they are authorized for.
Workforce(pool, staff, fleet, date) ==
  LET present == {e \in pool.people : date \notin staff[e].away} IN
    [total |-> Cardinality(pool.people),
     present |-> present,
     pms |-> {e \in present : staff[e].pms},
     skills |-> [e \in present |-> staff[e].skills],
     vans |-> [k \in pool.vans |-> [seats |-> fleet[k].seats,
                                    drivers |-> {e \in present : k \in staff[e].drives}]],
     walkers |-> {e \in present : staff[e].transit}]

-----------------------------------------------------------------------------
(* How many resources can be staffed at once, each by a person of its own.    *)

\* augmentFrom: a person for resource r, who may have to be taken from another
\* resource that finds somebody else.  seen is shared by the whole search.
RECURSIVE Augment(_, _, _, _)
Augment(eligible, r, heldBy, seen) ==
  FoldSet(LAMBDA e, acc :
            IF acc.found \/ e \in acc.seen THEN acc
            ELSE LET now == acc.seen \cup {e}
                     take(h) == [x \in DOMAIN h \cup {e} |-> IF x = e THEN r ELSE h[x]]
                     other == Augment(eligible, heldBy[e], heldBy, now)
                 IN IF e \notin DOMAIN heldBy
                      THEN [found |-> TRUE, seen |-> now, heldBy |-> take(heldBy)]
                    ELSE IF other.found
                      THEN [other EXCEPT !.heldBy = take(@)]
                    ELSE [acc EXCEPT !.seen = other.seen],
          [found |-> FALSE, seen |-> seen, heldBy |-> heldBy], eligible[r])

\* maxBipartiteMatching
MaxMatching(eligible) ==
  FoldSet(LAMBDA r, acc :
            LET tried == Augment(eligible, r, acc.heldBy, {}) IN
              IF tried.found THEN [heldBy |-> tried.heldBy, matched |-> acc.matched + 1] ELSE acc,
          [heldBy |-> <<>>, matched |-> 0], DOMAIN eligible).matched

\* factsForDate: vans with a driver beside people who travel by themselves.
\* The resources of the second kind are named by their person.
TransportUnits(w) ==
  MaxMatching([r \in DOMAIN w.vans \cup w.walkers |->
                 IF r \in DOMAIN w.vans THEN w.vans[r].drivers ELSE {r}])

\* computeBranchDayCapacity
CapacityMinutes(w) ==
  LET crewMinutes == Cardinality(w.present) * EmployeeWorkday
      vehicleMinutes == TransportUnits(w) * EmployeeWorkday
  IN IF w.total = 0 THEN FallbackCapacity
     ELSE IF w.pms = {} THEN 0
     ELSE IF DOMAIN w.vans = {} THEN crewMinutes
     ELSE Min({crewMinutes, vehicleMinutes})

-----------------------------------------------------------------------------
(* Can these crews all be on their way at once?  A crew is driven, by one     *)
(* vehicle and one driver, or walks, which takes a walker for every member;   *)
(* a driver cannot walk too.  The code answers with a minimum-cost flow.      *)

Source == <<"source">>
Sink == <<"sink">>
Arc(from, to, cost) == [from |-> from, to |-> to, cost |-> cost]

SeatsFit(van, crew) == van.seats = NoLimit \/ van.seats >= crew

\* One unit of flow is a crew, its vehicle and the driver.  It saves the crew
\* from walking and may cost a walker.  Every arc carries one unit.
Network(crews, vans, walkers) ==
  {Arc(Source, <<"visit", i>>, -crews[i]) : i \in DOMAIN crews}
    \cup {Arc(<<"visit", x[1]>>, <<"in", x[2]>>, 0) :
            x \in {x \in (DOMAIN crews) \X (DOMAIN vans) : SeatsFit(vans[x[2]], crews[x[1]])}}
    \cup {Arc(<<"in", k>>, <<"out", k>>, 0) : k \in DOMAIN vans}
    \cup UNION {{Arc(<<"out", k>>, <<"driver", e>>, 0) : e \in vans[k].drivers} : k \in DOMAIN vans}
    \cup {Arc(<<"driver", e>>, Sink, IF e \in walkers THEN 1 ELSE 0) :
            e \in UNION {vans[k].drivers : k \in DOMAIN vans}}

Reversed(a) == Arc(a.to, a.from, -a.cost)

\* What is left of the network: unused arcs, and used ones to be taken back.
\* Mutant: a choice once made is never taken back.
ResidualOneWay(network, flow) == network \ flow
Residual(network, flow) == (network \ flow) \cup {Reversed(a) : a \in flow}

\* Bellman-Ford: arcs are relaxed until none improves a label.  A label is the
\* cost of the best way found to a node, and the arcs it takes.
RECURSIVE Relaxed(_, _)
Relaxed(arcs, labels) ==
  LET better == {a \in arcs : /\ a.from \in DOMAIN labels
                              /\ a.to \in DOMAIN labels =>
                                   labels[a.from].cost + a.cost < labels[a.to].cost}
  IN IF better = {} THEN labels
     ELSE LET a == CHOOSE a \in better : TRUE
              label == [cost |-> labels[a.from].cost + a.cost, arcs |-> labels[a.from].arcs \cup {a}]
          IN Relaxed(arcs, [n \in DOMAIN labels \cup {a.to} |-> IF n = a.to THEN label ELSE labels[n]])

\* Successive cheapest paths, until none adds to the profit.
RECURSIVE MostProfit(_, _)
MostProfit(network, flow) ==
  LET labels == Relaxed(Residual(network, flow), [n \in {Source} |-> [cost |-> 0, arcs |-> {}]]) IN
    IF Sink \notin DOMAIN labels THEN 0
    ELSE IF labels[Sink].cost >= 0 THEN 0
    ELSE LET path == labels[Sink].arcs
             kept == {a \in flow : Reversed(a) \notin path}
         IN MostProfit(network, kept \cup (path \cap network)) - labels[Sink].cost

\* allocateTransport
AllocateTransport(crews, vans, walkers) ==
  LET total == SumFunction(crews)
      useful == {k \in DOMAIN vans : vans[k].drivers # {} /\ \E i \in DOMAIN crews : SeatsFit(vans[k], crews[i])}
  IN \/ Cardinality(walkers) >= total
     \/ /\ useful # {}
        /\ MostProfit(Network(crews, [k \in useful |-> vans[k]], walkers), {})
             >= total - Cardinality(walkers)

-----------------------------------------------------------------------------
(* Is there any way to perform the day?                                      *)

\* The minutes a visit runs for wherever in its window it starts.
\* Mutant: a visit runs through the whole of its window.
WholeWindow(v) == [start |-> v.opens, end |-> v.closes]
ForcedSpan(v) == [start |-> v.closes - v.minutes, end |-> v.opens + v.minutes]

\* Visits that all run at one instant, whatever the schedule: more of them can
\* only begin to where one of the spans does.
ForcedSets(demands) ==
  LET span == [v \in DOMAIN demands |-> ForcedSpan(demands[v])]
      forced == {v \in DOMAIN demands : span[v].start < span[v].end}
  IN {{u \in forced : span[u].start <= span[v].start /\ span[v].start < span[u].end} : v \in forced}

Peak(demands, weight) ==
  Max({0} \cup {SumFunction([v \in s |-> weight[v]]) : s \in ForcedSets(demands)})

Part(demands, visits) == [v \in visits |-> demands[v]]
CrewsOf(demands) == [v \in DOMAIN demands |-> demands[v].crew]
Once(demands) == [v \in DOMAIN demands |-> 1]

\* Every visit by itself, and all that are forced together.
TransportSets(demands) == {{v} : v \in DOMAIN demands} \cup ForcedSets(demands)

SkillShort(demands, w, s) ==
  LET holders == {e \in w.present : s \in w.skills[e]}
      needing == Part(demands, {v \in DOMAIN demands : s \in demands[v].skills})
  IN DOMAIN needing # {} /\ (holders = {} \/ Peak(needing, Once(needing)) > Cardinality(holders))

\* checkDayFeasibility: whatever proves the day impossible.  The code names the
\* first of these.
Infeasible(demands, w) ==
  {code \in {"NO_WORKFORCE_RECORDED", "NO_PMS_SUPERVISOR", "NOT_ENOUGH_SUPERVISORS_AT_ONCE",
             "NOT_ENOUGH_CREW_AT_ONCE", "SKILL_SHORT", "NO_WAY_TO_REACH_SITE",
             "NOT_ENOUGH_TRANSPORT_AT_ONCE"} :
     /\ DOMAIN demands # {}
     /\ CASE code = "NO_WORKFORCE_RECORDED" -> w.total = 0
          [] code = "NO_PMS_SUPERVISOR" -> w.pms = {}
          [] code = "NOT_ENOUGH_SUPERVISORS_AT_ONCE" ->
               Peak(demands, Once(demands)) > Cardinality(w.pms)
          [] code = "NOT_ENOUGH_CREW_AT_ONCE" ->
               Peak(demands, CrewsOf(demands)) > Cardinality(w.present)
          [] code = "SKILL_SHORT" ->
               \E s \in UNION {demands[v].skills : v \in DOMAIN demands} : SkillShort(demands, w, s)
          [] code = "NO_WAY_TO_REACH_SITE" ->
               (\A k \in DOMAIN w.vans : w.vans[k].drivers = {}) /\ w.walkers = {}
          [] OTHER -> \E s \in TransportSets(demands) :
               ~AllocateTransport(CrewsOf(Part(demands, s)), w.vans, w.walkers)}

-----------------------------------------------------------------------------
(* What the two searches look for.                                           *)

\* Hall's condition: every group of the resources staffed finds enough people.
MostStaffed(eligible) ==
  Max({Cardinality(s) : s \in {s \in SUBSET DOMAIN eligible :
         \A part \in SUBSET s : Cardinality(UNION {eligible[r] : r \in part}) >= Cardinality(part)}})

\* Some crews get a vehicle and a driver each, and there are walkers for the rest.
Transportable(crews, vans, walkers) ==
  \E driven \in SUBSET DOMAIN crews :
    \E ride \in [driven -> (DOMAIN vans) \X UNION {vans[k].drivers : k \in DOMAIN vans}] :
      LET drivers == {ride[i][2] : i \in driven} IN
        /\ \A i \in driven : SeatsFit(vans[ride[i][1]], crews[i]) /\ ride[i][2] \in vans[ride[i][1]].drivers
        /\ \A i, j \in driven : i # j => ride[i][1] # ride[j][1] /\ ride[i][2] # ride[j][2]
        /\ Cardinality(walkers \ drivers) >= SumFunction([i \in DOMAIN crews \ driven |-> crews[i]])
=============================================================================
