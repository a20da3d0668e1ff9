---------------------------- MODULE MasterTables ----------------------------
(***************************************************************************)
(* The tables the schedule is made from: the clients' catalogue and the    *)
(* workforce.  No request reads or writes rows of both.                    *)
(***************************************************************************)

CONSTANTS
  Request,        \* calls of managers and operators, each carried out once
  MaxImports,     \* bound on the imports of a behaviour
  None

VARIABLES
  customers,      \* id -> customer row; all carry the client's name
  sites,          \* id -> site row
  agreements,     \* id -> agreement row with its versions and bookings
  job,            \* status of the job type of the workbook's treatment, None before it exists
  requests,       \* where every request about the catalogue stands
  nameLock,       \* the advisory lock on the client's name
  agreementLock, siteLock

VARIABLES
  employees,      \* id -> employee row
  vehicles,       \* id -> vehicle row
  grants,         \* driving authorizations: pairs of an employee and a vehicle
  absences,       \* recorded absences, each with its id
  calls           \* where every request about the workforce stands and the rows it has locked

catalogue == <<customers, sites, agreements, job, requests, nameLock, agreementLock, siteLock>>
workforce == <<employees, vehicles, grants, absences, calls>>

\* One row under its id, and a table with rows written over it or added to it.
Single(id, row) == [i \in {id} |-> row]
Upserted(table, rows) ==
  [id \in DOMAIN rows \cup DOMAIN table |-> IF id \in DOMAIN rows THEN rows[id] ELSE table[id]]

=============================================================================
