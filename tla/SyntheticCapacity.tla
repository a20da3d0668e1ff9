------------------------- MODULE SyntheticCapacity -------------------------
(***************************************************************************)
(* The operator's tool that gives a branch of a staging database synthetic *)
(* teams, and takes them away (prisma/synthetic-capacity.ts), beside the   *)
(* managers who assign those teams.  One branch: the tool's prefixes and   *)
(* its advisory lock keep branches apart.                                  *)
(***************************************************************************)
EXTENDS MasterTables, Naturals, FiniteSets

CONSTANTS
  Team,          \* team numbers, an initial segment of the positive numbers
  Demands,       \* what the active agreements may ask for: [crew, skills]
  Fleets         \* the synthetic rows there may be at the start

SoundMember(row) ==
  row = [x \in {"active", "marked", "skills"} |-> row[x]] /\ row.active \in BOOLEAN
SoundVan(row) ==
  row = [x \in {"active", "marked", "seats"} |-> row[x]] /\ row.active \in BOOLEAN /\ row.seats \in Nat

ASSUME CapacityAssumption ==
  /\ \A d \in Demands : d.crew \in Nat
  /\ \A f \in Fleets : /\ \A e \in DOMAIN f.staff : SoundMember(f.staff[e])
                       /\ \A t \in DOMAIN f.vans : SoundVan(f.vans[t])

VARIABLES
  demand,        \* the largest crew and the skills the active agreements ask for
  staff,         \* <<team, member>> -> employee row
  vans,          \* team -> vehicle row
  drivers,       \* members who may drive the vehicle of a team: pairs <<member, team>>
  live,          \* assignments from draft to in progress: [crew, van, skills]
  branchLock,    \* the advisory lock of the branch
  jobs           \* where every call stands and the rows it has locked

capacity == <<demand, staff, vans, drivers, live, branchLock, jobs>>

Settled(q) == [jobs EXCEPT ![q] = [stage |-> "done", locks |-> {}]]
VanRow(t) == <<t, 0>>      \* the row of a vehicle, among those of its team
RowFree(q, row) == \A o \in Request \ {q} : row \notin jobs[o].locks
Larger(a, b) == IF a < b THEN b ELSE a

CapacityInit ==
  /\ demand \in Demands
  /\ \E f \in Fleets : staff = f.staff /\ vans = f.vans /\ drivers = f.drivers
  /\ live = {}
  /\ branchLock = None
  /\ jobs = [q \in Request |-> [stage |-> "unsent", locks |-> {}]]

-----------------------------------------------------------------------------
(* The tool.                                                               *)

\* The operator asks for a number of teams, or for all of them to be taken away.
TeamsAsked == Team \cup {0}

\* One transaction, which first takes the branch.
TakeBranch(q) ==
  /\ jobs[q].stage = "unsent" /\ branchLock = None
  /\ branchLock' = q
  /\ \E n \in TeamsAsked : jobs' = [jobs EXCEPT ![q] = [stage |-> "branch", locks |-> {}, teams |-> n]]
  /\ UNCHANGED <<demand, staff, vans, drivers, live>>

\* buildPlan and findSyntheticResources: what is asked for, and every row of the
\* tool's, as read before any of them is locked.
Plan(q) ==
  /\ jobs[q].stage = "branch"
  /\ jobs' = [jobs EXCEPT ![q] = [stage |-> "planned", locks |-> {}, teams |-> @.teams,
                size |-> Larger(2, demand.crew), skills |-> demand.skills, staff |-> staff, vans |-> vans]]
  /\ UNCHANGED <<demand, staff, vans, drivers, live, branchLock>>

\* The members and teams asked for (buildSyntheticTeams), and the rows beyond them.
Wanted(q) == {<<t, m>> : t \in 1..jobs[q].teams, m \in 1..jobs[q].size}
SurplusStaff(q) == DOMAIN jobs[q].staff \ Wanted(q)
SurplusVans(q) == DOMAIN jobs[q].vans \ 1..jobs[q].teams

\* Whom live assignments rely on.
BusyStaff == UNION {a.crew : a \in live}
BusyVans == {a.van : a \in live}

\* The tool locks every row of its own, the ones that stay too.
RowLocks(q) == DOMAIN jobs[q].staff \cup {VanRow(t) : t \in DOMAIN jobs[q].vans}

\* lockScheduleResources, and only then liveReferencedIds.
LockRows(q) ==
  LET r == jobs[q]
  IN  /\ r.stage = "planned"
      /\ \A row \in RowLocks(q) : RowFree(q, row)
      /\ jobs' = [jobs EXCEPT ![q] = [stage |-> "locked", locks |-> RowLocks(q), teams |-> r.teams,
                    size |-> r.size, skills |-> r.skills, staff |-> r.staff, vans |-> r.vans,
                    busyStaff |-> BusyStaff, busyVans |-> BusyVans]]
      /\ UNCHANGED <<demand, staff, vans, drivers, live, branchLock>>

\* A row under the tool's prefixes that the tool has not made ends the call.
Ours(row) == row.marked
Collides(q) ==
  \/ \E e \in DOMAIN jobs[q].staff : ~Ours(jobs[q].staff[e])
  \/ \E t \in DOMAIN jobs[q].vans : ~Ours(jobs[q].vans[t])

\* classifySurplusResources: a team of surplus rows one of which somebody relies
\* on is left as a whole.
BlockedTeams(q) ==
  {e[1] : e \in SurplusStaff(q) \cap BusyStaff} \cup (SurplusVans(q) \cap BusyVans)

\* Skills nobody asks for any more are taken from an employee, and seats from a
\* vehicle, unless a live assignment relies on them.
SkillsOf(q, e) ==
  jobs[q].skills \cup (IF e \in jobs[q].busyStaff \cap DOMAIN staff THEN staff[e].skills ELSE {})
SeatsOf(q, t) ==
  IF t \in jobs[q].busyVans \cap DOMAIN jobs[q].vans
    THEN Larger(jobs[q].vans[t].seats, jobs[q].size) ELSE jobs[q].size

\* The writes and the commit: rows asked for are written or inserted, surplus rows
\* that are at work are switched off.
Mutate(q) ==
  LET r == jobs[q]
      stays(team, row) == [row EXCEPT !.active = @ /\ (team \in BlockedTeams(q))]
  IN  /\ r.stage = "locked"
      /\ IF Collides(q)
           THEN UNCHANGED <<staff, vans, drivers>>
           ELSE /\ staff' = Upserted([e \in SurplusStaff(q) |-> stays(e[1], staff[e])],
                    [e \in Wanted(q) |-> [active |-> TRUE, marked |-> TRUE, skills |-> SkillsOf(q, e)]])
                /\ vans' = Upserted([t \in SurplusVans(q) |-> stays(t, vans[t])],
                    [t \in 1..r.teams |-> [active |-> TRUE, marked |-> TRUE, seats |-> SeatsOf(q, t)]])
                /\ drivers' = drivers \cup {<<<<t, m>>, t>> : t \in 1..r.teams, m \in 1..2}
      /\ branchLock' = None
      /\ jobs' = Settled(q)
      /\ UNCHANGED <<demand, live>>

\* An injected fault, a timeout, a lost connection.
Abort(q) ==
  /\ jobs[q].stage \in {"branch", "planned", "locked"}
  /\ branchLock' = None
  /\ jobs' = Settled(q)
  /\ UNCHANGED <<demand, staff, vans, drivers, live>>

-----------------------------------------------------------------------------
(* Beside it.                                                              *)

\* The rules a crew and its vehicle are judged by.
Stands(a) ==
  /\ \A e \in a.crew : staff[e].active
  /\ a.skills \subseteq UNION {staff[e].skills : e \in a.crew}
  /\ vans[a.van].active
  /\ \E e \in a.crew : <<e, a.van>> \in drivers
Seated(a) == Cardinality(a.crew) <= vans[a.van].seats

\* A manager assigns a crew and a vehicle: the rows are locked, then judged ...
Judge(q) ==
  /\ jobs[q].stage = "unsent"
  /\ \E crew \in SUBSET DOMAIN staff, t \in DOMAIN vans :
       LET a == [crew |-> crew, van |-> t, skills |-> demand.skills]
       IN  /\ Cardinality(crew) = demand.crew
           /\ \A row \in crew \cup {VanRow(t)} : RowFree(q, row)
           /\ Stands(a) /\ Seated(a)
           /\ jobs' = [jobs EXCEPT ![q] = [stage |-> "judged", locks |-> crew \cup {VanRow(t)}, assignment |-> a]]
  /\ UNCHANGED <<demand, staff, vans, drivers, live, branchLock>>

\* ... and the assignment is written.
Assign(q) ==
  /\ jobs[q].stage = "judged"
  /\ live' = live \cup {jobs[q].assignment}
  /\ jobs' = Settled(q)
  /\ UNCHANGED <<demand, staff, vans, drivers, branchLock>>

\* An assignment is completed, withdrawn or replaced.
Ends(q) ==
  /\ jobs[q].stage = "unsent"
  /\ \E a \in live : live' = live \ {a}
  /\ jobs' = Settled(q)
  /\ UNCHANGED <<demand, staff, vans, drivers, branchLock>>

\* Agreements begin, end and change.
DemandChanges(q) ==
  /\ jobs[q].stage = "unsent"
  /\ demand' \in Demands \ {demand}
  /\ jobs' = Settled(q)
  /\ UNCHANGED <<staff, vans, drivers, live, branchLock>>

\* A manager edits the seats of a vehicle.
EditSeats(q) ==
  /\ jobs[q].stage = "unsent"
  /\ \E t \in DOMAIN vans, n \in {d.crew : d \in Demands} :
       RowFree(q, VanRow(t)) /\ n # vans[t].seats /\ vans' = [vans EXCEPT ![t].seats = n]
  /\ jobs' = Settled(q)
  /\ UNCHANGED <<demand, staff, drivers, live, branchLock>>

CapacityNext ==
  \E q \in Request :
    \/ TakeBranch(q) \/ Plan(q) \/ LockRows(q) \/ Mutate(q) \/ Abort(q)
    \/ Judge(q) \/ Assign(q) \/ Ends(q) \/ DemandChanges(q) \/ EditSeats(q)

-----------------------------------------------------------------------------
(* What must hold.                                                         *)

\* A live assignment's crew and vehicle are at work, with its skills and a driver,
\* however often teams are resized, given and taken away around it.  Its seats
\* stay too, unless a manager edits them while the tool waits for its rows: the
\* seats it writes are those it read before.  Whoever belongs to a team it takes
\* away stays with a colleague who is needed, and two tools never insert one row.
LiveCrewsStand ==
  [][/\ \A a \in live' : Stands(a)'
     /\ \A q \in Request : jobs[q].stage = "locked" /\ jobs'[q].stage = "done" =>
          /\ \A a \in live : vans[a.van] = jobs[q].vans[a.van] /\ Seated(a) => Seated(a)'
          /\ \A e, f \in SurplusStaff(q) : e[1] = f[1] /\ e \in BusyStaff => staff'[f] = staff[f]
          /\ DOMAIN jobs[q].staff = DOMAIN staff /\ DOMAIN jobs[q].vans = DOMAIN vans
          /\ (staff' # staff \/ vans' # vans) =>
               \A t \in 1..jobs[q].teams :
                 /\ \A m \in 1..jobs[q].size :
                      staff'[<<t, m>>].active /\ jobs[q].skills \subseteq staff'[<<t, m>>].skills
                 /\ vans'[t].active /\ vans'[t].seats >= jobs[q].size]_capacity

=============================================================================
