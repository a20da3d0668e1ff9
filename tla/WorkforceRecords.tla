-------------------------- MODULE WorkforceRecords --------------------------
(***************************************************************************)
(* Employees, vehicles, driving authorizations and absences, as managers   *)
(* edit them through the API while an operator imports the workforce       *)
(* matrix.  A call locks the rows it decides on in the order assignment    *)
(* writers use; the import is one transaction for the whole matrix.        *)
(***************************************************************************)
EXTENDS MasterTables, Naturals, FiniteSets, Sequences

CONSTANTS
  PersonId, VehicleId,   \* ids rows may get: disjoint initial segments of an order
  Key,            \* source keys of employees
  Code, Identity, \* registrations, and what normalizeVehicleIdentity makes of them
  Skill, Station, \* skills; sites an employee may be stationed at
  Stay,           \* what an update may carry: a field it leaves out is Keep
  Leave,          \* pairs of days an absence may span
  Matrices,       \* the matrices an operator may import
  Rosters,        \* what may be on record at the start
  Keep

\* The parser skips a second row of one employee and ticks only vehicles that have
\* a column; a matrix that spells one vehicle twice is refused before it is written.
MatrixHolds(m) ==
  /\ \A c, d \in m.codes : Identity[c] = Identity[d] => c = d
  /\ m.people \in Seq({m.people[i] : i \in DOMAIN m.people})
  /\ \A i, j \in DOMAIN m.people : m.people[i].key = m.people[j].key => i = j
  /\ \A i \in DOMAIN m.people : m.people[i].codes \subseteq m.codes

EmployeeFields == {"key", "branch", "stationed", "site", "active", "skills"}
VehicleFields == {"code", "active"}

ASSUME WorkforceAssumption ==
  /\ PersonId \cap VehicleId = {}
  /\ \A m \in Matrices : MatrixHolds(m)
  /\ \A r \in Rosters :
       /\ DOMAIN r.employees \subseteq PersonId /\ DOMAIN r.vehicles \subseteq VehicleId
       /\ \A e \in DOMAIN r.employees : DOMAIN r.employees[e] = EmployeeFields
       /\ \A v \in DOMAIN r.vehicles : DOMAIN r.vehicles[v] = VehicleFields
       /\ r.grants \subseteq (DOMAIN r.employees) \X (DOMAIN r.vehicles)

Waiting == [stage |-> "unsent", locks |-> {}]
Over == [stage |-> "done", locks |-> {}]
End(q) == calls' = [calls EXCEPT ![q] = Over]
Fresh(ids, taken) == {i \in ids \ taken : \A j \in ids \ taken : i <= j}
Reading(q) == calls[q].stage \in {"matrix", "vehicles", "people"}

\* A row nobody else holds.
Free(q, row) == \A o \in Request \ {q} : row \notin calls[o].locks

\* Rows an open import has inserted.
Inserted(table) == UNION {DOMAIN calls[q].tx[table] : q \in {o \in Request : calls[o].stage = "people"}}

WorkforceInit ==
  /\ \E r \in Rosters :
       employees = r.employees /\ vehicles = r.vehicles /\ grants = r.grants /\ absences = {}
  /\ calls = [q \in Request |-> Waiting]

-----------------------------------------------------------------------------
(* Employees.                                                              *)

\* assertPermanentHasSite
Placed(stationed, site) == stationed => site # None

\* create: no other employee has the key, which is the name in its branch.
CreateEmployee(q) ==
  /\ calls[q].stage = "unsent"
  /\ \E key \in Key, stationed \in BOOLEAN, site \in Station \cup {None} :
       /\ Placed(stationed, site)
       /\ \A e \in DOMAIN employees : employees[e].key # key
       /\ \A o \in Request : calls[o].stage = "people" =>
            \A e \in DOMAIN calls[o].tx.employees : calls[o].tx.employees[e].key # key
       /\ \E id \in Fresh(PersonId, DOMAIN employees \cup Inserted("employees")) :
            employees' = Upserted(employees, Single(id, [key |-> key, branch |-> key.branch,
              stationed |-> stationed, site |-> site, active |-> TRUE, skills |-> {}]))
  /\ End(q)
  /\ UNCHANGED <<vehicles, grants, absences, catalogue>>

Given(form, field, row) == IF form[field] = Keep THEN row[field] ELSE form[field]

\* update, before its transaction: a stationed employee names a site and keeps
\* its branch, by the row as it is read.
BeginUpdate(q) ==
  /\ calls[q].stage = "unsent"
  /\ \E e \in DOMAIN employees, form \in Stay :
       LET before == employees[e]
           stationed == Given(form, "stationed", before)
       IN  IF /\ Placed(stationed, Given(form, "site", before))
              /\ ~(Given(form, "branch", before) # before.branch /\ before.stationed /\ stationed)
             THEN calls' = [calls EXCEPT ![q] = [stage |-> "update", locks |-> {}, id |-> e, form |-> form]]
             ELSE End(q)
  /\ UNCHANGED <<employees, vehicles, grants, absences, catalogue>>

\* The write looks at nothing again; it sets the fields the form carries.
Filled(row, form) ==
  [row EXCEPT !.branch = Given(form, "branch", row), !.stationed = Given(form, "stationed", row),
              !.site = Given(form, "site", row)]
Update(q) ==
  LET e == calls[q].id
      form == calls[q].form
  IN  /\ calls[q].stage = "update"
      /\ Free(q, e)
      /\ employees' = [employees EXCEPT ![e] = Filled(employees[e], form)]
      /\ End(q)
      /\ UNCHANGED <<vehicles, grants, absences, catalogue>>

SetEmployeeActive(q) ==
  /\ calls[q].stage = "unsent"
  /\ \E e \in DOMAIN employees, active \in BOOLEAN :
       Free(q, e) /\ employees' = [employees EXCEPT ![e].active = active]
  /\ End(q)
  /\ UNCHANGED <<vehicles, grants, absences, catalogue>>

SetPermanentAssignment(q) ==
  /\ calls[q].stage = "unsent"
  /\ \E e \in DOMAIN employees, site \in Station \cup {None} :
       /\ Free(q, e)
       /\ employees' = [employees EXCEPT ![e].site = site, ![e].stationed = (site # None)]
  /\ End(q)
  /\ UNCHANGED <<vehicles, grants, absences, catalogue>>

ReplaceSkills(q) ==
  /\ calls[q].stage = "unsent"
  /\ \E e \in DOMAIN employees, skills \in SUBSET Skill :
       Free(q, e) /\ employees' = [employees EXCEPT ![e].skills = skills]
  /\ End(q)
  /\ UNCHANGED <<vehicles, grants, absences, catalogue>>

-----------------------------------------------------------------------------
(* Driving authorizations.                                                 *)

MayDrive(e, v) ==
  /\ e \in DOMAIN employees /\ v \in DOMAIN vehicles
  /\ employees[e].active /\ vehicles[v].active
  /\ <<e, v>> \notin grants

\* authorizeVehicle, before its transaction.
BeginGrant(q) ==
  /\ calls[q].stage = "unsent"
  /\ \E e \in DOMAIN employees, v \in DOMAIN vehicles :
       IF MayDrive(e, v)
         THEN calls' = [calls EXCEPT ![q] = [stage |-> "grant", locks |-> {}, id |-> e, vehicle |-> v]]
         ELSE End(q)
  /\ UNCHANGED <<employees, vehicles, grants, absences, catalogue>>

\* Mutant: the rows are read again, but not locked.
GrantLocksNothing(e, v) == {}

GrantLocks(e, v) == {e, v}

\* lockScheduleResources, then the rows are read again. A vehicle that is gone
\* ends the call.
CheckGrant(q) ==
  LET r == calls[q]
  IN  /\ r.stage = "grant"
      /\ \A row \in GrantLocks(r.id, r.vehicle) : Free(q, row)
      /\ IF MayDrive(r.id, r.vehicle)
           THEN calls' = [calls EXCEPT ![q] = [stage |-> "granted", locks |-> GrantLocks(r.id, r.vehicle),
                                               id |-> r.id, vehicle |-> r.vehicle]]
           ELSE End(q)
      /\ UNCHANGED <<employees, vehicles, grants, absences, catalogue>>

Grant(q) ==
  /\ calls[q].stage = "granted"
  /\ grants' = grants \cup {<<calls[q].id, calls[q].vehicle>>}
  /\ End(q)
  /\ UNCHANGED <<employees, vehicles, absences, catalogue>>

RevokeVehicle(q) ==
  /\ calls[q].stage = "unsent"
  /\ \E g \in grants : Free(q, g[1]) /\ Free(q, g[2]) /\ grants' = grants \ {g}
  /\ End(q)
  /\ UNCHANGED <<employees, vehicles, absences, catalogue>>

-----------------------------------------------------------------------------
(* Absences.                                                               *)

Overlap(a, b) == a[1] <= b[2] /\ b[1] <= a[2]

\* Mutant: the clash is looked for before the employee is locked.
AbsenceLocksNothing(e) == {}

AbsenceLocks(e) == {e}

\* addAvailability: the employee is locked, then a clash is looked for ...
CheckAbsence(q) ==
  /\ calls[q].stage = "unsent"
  /\ \E e \in DOMAIN employees, days \in Leave :
       /\ \A row \in AbsenceLocks(e) : Free(q, row)
       /\ IF \E a \in absences : a.who = e /\ Overlap(a.days, days)
            THEN End(q)
            ELSE calls' = [calls EXCEPT ![q] = [stage |-> "absent", locks |-> AbsenceLocks(e),
                                                id |-> e, days |-> days]]
  /\ UNCHANGED <<employees, vehicles, grants, absences, catalogue>>

\* ... and the absence is written.
AddAvailability(q) ==
  /\ calls[q].stage = "absent"
  /\ absences' = absences \cup {[id |-> q, who |-> calls[q].id, days |-> calls[q].days]}
  /\ End(q)
  /\ UNCHANGED <<employees, vehicles, grants, catalogue>>

RemoveAvailability(q) ==
  /\ calls[q].stage = "unsent"
  /\ \E a \in absences : Free(q, a.who) /\ absences' = absences \ {a}
  /\ End(q)
  /\ UNCHANGED <<employees, vehicles, grants, catalogue>>

-----------------------------------------------------------------------------
(* Vehicles.                                                               *)

\* The unique index: no row has the registration, and a call waits for an import
\* that is writing it.
Unregistered(code, except) ==
  /\ \A v \in DOMAIN vehicles \ except : vehicles[v].code # code
  /\ \A o \in Request : calls[o].stage = "people" =>
       \A v \in DOMAIN calls[o].tx.vehicles : calls[o].tx.vehicles[v].code # code

CreateVehicle(q) ==
  /\ calls[q].stage = "unsent"
  /\ \E code \in Code :
       /\ Unregistered(code, {})
       /\ \E id \in Fresh(VehicleId, DOMAIN vehicles \cup Inserted("vehicles")) :
            vehicles' = Upserted(vehicles, Single(id, [code |-> code, active |-> TRUE]))
  /\ End(q)
  /\ UNCHANGED <<employees, grants, absences, catalogue>>

UpdateVehicle(q) ==
  /\ calls[q].stage = "unsent"
  /\ \E v \in DOMAIN vehicles, code \in Code :
       Free(q, v) /\ Unregistered(code, {v}) /\ vehicles' = [vehicles EXCEPT ![v].code = code]
  /\ End(q)
  /\ UNCHANGED <<employees, grants, absences, catalogue>>

SetVehicleActive(q) ==
  /\ calls[q].stage = "unsent"
  /\ \E v \in DOMAIN vehicles, active \in BOOLEAN :
       Free(q, v) /\ vehicles' = [vehicles EXCEPT ![v].active = active]
  /\ End(q)
  /\ UNCHANGED <<employees, grants, absences, catalogue>>

-----------------------------------------------------------------------------
(* The import of a matrix.                                                 *)

MatrixCalls == {q \in Request : "matrix" \in DOMAIN calls[q]}

\* The rows the matrix is about, read before any of them is locked.
BeginMatrix(q) ==
  /\ calls[q].stage = "unsent"
  /\ Cardinality(MatrixCalls) < MaxImports
  /\ \E matrix \in Matrices :
       LET named == {Identity[c] : c \in matrix.codes}
           keys == {matrix.people[i].key : i \in DOMAIN matrix.people}
       IN  calls' = [calls EXCEPT ![q] = [stage |-> "matrix", locks |-> {}, matrix |-> matrix,
             people |-> {e \in DOMAIN employees : employees[e].key \in keys},
             seen |-> [v \in {w \in DOMAIN vehicles : Identity[vehicles[w].code] \in named} |-> vehicles[v]]]]
  /\ UNCHANGED <<employees, vehicles, grants, absences, catalogue>>

MatrixLocks(q) == calls[q].people \cup DOMAIN calls[q].seen

\* lockScheduleResources; a row that is gone ends the import.
LockMatrix(q) ==
  LET r == calls[q]
  IN  /\ r.stage = "matrix"
      /\ \A row \in MatrixLocks(q) : Free(q, row)
      /\ calls' = [calls EXCEPT ![q] =
           IF DOMAIN r.seen \subseteq DOMAIN vehicles
             THEN [stage |-> "vehicles", locks |-> MatrixLocks(q), matrix |-> r.matrix, seen |-> r.seen]
             ELSE Over]
      /\ UNCHANGED <<employees, vehicles, grants, absences, catalogue>>

\* The rows of one vehicle, by the registrations read before the lock, and the one
\* that stays: an exact match first.
MatchesOf(q, code) == {v \in DOMAIN calls[q].seen : Identity[calls[q].seen[v].code] = Identity[code]}
Survivor(q, code) ==
  LET exact == {v \in MatchesOf(q, code) : calls[q].seen[v].code = code}
  IN  CHOOSE v \in IF exact # {} THEN exact ELSE MatchesOf(q, code) : TRUE

\* Authorizations that no other open import has deleted or moved: those it has are
\* waited for.
Unwritten(q, rows) ==
  \A o \in Request \ {q} : calls[o].stage = "people" => rows \cap calls[o].tx.lost = {}

\* mergeVehicleAliases: who may drive an alias may drive the vehicle that stays.
GrantsMoved(q, code) ==
  {<<g[1], Survivor(q, code)>> : g \in {h \in grants : h[2] \in MatchesOf(q, code)}}

Known(q) == {c \in calls[q].matrix.codes : MatchesOf(q, c) # {}}
Aliases(q) == UNION {MatchesOf(q, c) \ {Survivor(q, c)} : c \in Known(q)}
Merged(q) == {g \in grants : g[2] \in Aliases(q)}
Moved(q) == UNION {GrantsMoved(q, c) : c \in Known(q)}
Renamed(q) ==
  [v \in {Survivor(q, c) : c \in Known(q)} |->
     [code |-> CHOOSE c \in Known(q) : Survivor(q, c) = v, active |-> vehicles[v].active]]

VehiclesWritten(q, rows) ==
  LET r == calls[q]
  IN  [stage |-> "people", matrix |-> r.matrix, rest |-> r.matrix.people, locks |-> r.locks \cup DOMAIN rows,
       tx |-> [vehicles |-> rows, gone |-> Aliases(q), employees |-> <<>>,
               lost |-> Merged(q), gained |-> Moved(q) \ grants]]

\* Every vehicle of the matrix is updated or inserted, and its aliases are merged.
\* A registration somebody else has taken meanwhile fails the import.
WriteVehicles(q) ==
  LET r == calls[q]
      new == r.matrix.codes \ Known(q)
      put(rows) == calls' = [calls EXCEPT ![q] = VehiclesWritten(q, rows)]
  IN  /\ r.stage = "vehicles"
      /\ \A v \in DOMAIN Renamed(q) : Free(q, v)
      /\ Unwritten(q, Merged(q))
      /\ IF \E c \in r.matrix.codes : \E v \in DOMAIN vehicles \ DOMAIN r.seen : vehicles[v].code = c
           THEN End(q)
           ELSE IF new = {} THEN put(Renamed(q))
           ELSE \E c \in new, id \in Fresh(VehicleId, DOMAIN vehicles \cup Inserted("vehicles")) :
                  new = {c} /\ put(Upserted(Renamed(q), Single(id, [code |-> c, active |-> TRUE])))
      /\ UNCHANGED <<employees, vehicles, grants, absences, catalogue>>

\* What the transaction sees of the authorizations.
SeenGrants(q) == (grants \ calls[q].tx.lost) \cup calls[q].tx.gained

\* The vehicles a person of the matrix may drive, and the authorizations to delete.
Ticked(q, p) == {v \in DOMAIN calls[q].tx.vehicles : calls[q].tx.vehicles[v].code \in p.codes}
Dropped(q, e, p) == {g \in grants : g[1] = e /\ g[2] \notin Ticked(q, p)}

PersonWritten(q, e, p) ==
  LET r == calls[q]
      row == [key |-> p.key, branch |-> p.key.branch, stationed |-> p.site # None, site |-> p.site,
              active |-> TRUE, skills |-> p.skills]
  IN  [stage |-> "people", matrix |-> r.matrix, rest |-> Tail(r.rest), locks |-> r.locks \cup {e},
       tx |-> [vehicles |-> r.tx.vehicles, gone |-> r.tx.gone,
               employees |-> Upserted(r.tx.employees, Single(e, row)),
               lost |-> {g \in r.tx.lost : g[1] # e} \cup Dropped(q, e, p),
               gained |-> {g \in r.tx.gained : g[1] # e} \cup {<<e, v>> : v \in {w \in Ticked(q, p) : <<e, w>> \notin grants}}]]

\* One person of the matrix: the row is upserted on its key and active again, its
\* skills and authorizations are what the matrix says.
WritePerson(q) ==
  LET p == Head(calls[q].rest)
      existing == {e \in DOMAIN employees : employees[e].key = p.key}
      put(e) == Unwritten(q, Dropped(q, e, p)) /\ calls' = [calls EXCEPT ![q] = PersonWritten(q, e, p)]
  IN  /\ calls[q].stage = "people" /\ calls[q].rest # <<>>
      /\ IF existing # {}
           THEN \E e \in existing : Free(q, e) /\ put(e)
           ELSE \E e \in Fresh(PersonId, DOMAIN employees \cup Inserted("employees")) : put(e)
      /\ UNCHANGED <<employees, vehicles, grants, absences, catalogue>>

Closed(q) == [stage |-> "done", locks |-> {}, matrix |-> calls[q].matrix]

CommitMatrix(q) ==
  LET tx == calls[q].tx
      kept == DOMAIN vehicles \ tx.gone
  IN  /\ calls[q].stage = "people" /\ calls[q].rest = <<>>
      /\ vehicles' = Upserted([v \in kept |-> vehicles[v]], tx.vehicles)
      /\ employees' = Upserted(employees, tx.employees)
      /\ grants' = SeenGrants(q)
      /\ calls' = [calls EXCEPT ![q] = Closed(q)]
      /\ UNCHANGED <<absences, catalogue>>

\* A collision of merged vehicles in an assignment, a timeout, a lost connection.
FailMatrix(q) ==
  /\ Reading(q)
  /\ calls' = [calls EXCEPT ![q] = Closed(q)]
  /\ UNCHANGED <<employees, vehicles, grants, absences, catalogue>>

-----------------------------------------------------------------------------
WorkforceNext ==
  \E q \in Request :
    \/ CreateEmployee(q) \/ BeginUpdate(q) \/ Update(q) \/ SetEmployeeActive(q)
    \/ SetPermanentAssignment(q) \/ ReplaceSkills(q)
    \/ BeginGrant(q) \/ CheckGrant(q) \/ Grant(q) \/ RevokeVehicle(q)
    \/ CheckAbsence(q) \/ AddAvailability(q) \/ RemoveAvailability(q)
    \/ CreateVehicle(q) \/ UpdateVehicle(q) \/ SetVehicleActive(q)
    \/ BeginMatrix(q) \/ LockMatrix(q) \/ WriteVehicles(q) \/ WritePerson(q)
    \/ CommitMatrix(q) \/ FailMatrix(q)

-----------------------------------------------------------------------------
(* What must hold.                                                         *)

\* Nobody has two absences recorded for one day, however many requests cross.
AbsencesDisjoint ==
  \A a, b \in absences : a # b /\ a.who = b.who => ~Overlap(a.days, b.days)

\* A committed import is the matrix as a whole: its people work, with the skills
\* and the vehicles it ticks and no others, whatever managers changed while it
\* ran; and nobody else loses a vehicle because two spellings of it are merged.
MatrixStands ==
  [][\A q \in Request : CommitMatrix(q) =>
       /\ \A i \in DOMAIN calls[q].matrix.people :
            LET p == calls[q].matrix.people[i]
            IN  \E e \in DOMAIN employees' :
                  /\ employees'[e].key = p.key /\ employees'[e].active /\ employees'[e].skills = p.skills
                  /\ {vehicles'[g[2]].code : g \in {h \in grants' : h[1] = e}} = p.codes
       /\ \A g \in grants :
            g[2] \in DOMAIN vehicles' \/ g[1] \in DOMAIN calls[q].tx.employees
            \/ \E w \in DOMAIN vehicles' : <<g[1], w>> \in grants' /\ vehicles'[w].code \in calls[q].matrix.codes
     ]_workforce

\* A manager's authorization is given to somebody employed for a vehicle in use at
\* the moment it is written, although both were looked up earlier and may be
\* switched off, merged or imported over meanwhile; no authorization is ever for a
\* vehicle that has been merged away; nobody is recorded as away twice on one day.
GrantsStand ==
  [][/\ AbsencesDisjoint'
     /\ grants' \subseteq (DOMAIN employees') \X (DOMAIN vehicles')
     /\ \A g \in grants' \ grants :
          \/ \E q \in Request : calls[q].stage = "people" /\ calls'[q].stage = "done"
          \/ employees[g[1]].active /\ vehicles[g[2]].active]_workforce

=============================================================================
