----------------------------- MODULE MasterData -----------------------------
(***************************************************************************)
(* The requests of managers and operators on all the tables.  As no call   *)
(* is about rows of two of the three parts, a behaviour exercises one of   *)
(* them while the others are idle.                                         *)
(***************************************************************************)
EXTENDS CatalogRecords, WorkforceRecords, SyntheticCapacity

NoCatalogue ==
  /\ customers = <<>> /\ sites = <<>> /\ agreements = <<>> /\ job = None
  /\ requests = [q \in Request |-> [stage |-> "done"]]
  /\ nameLock = None
  /\ agreementLock = [a \in AgreementId |-> None]
  /\ siteLock = [s \in SiteId |-> None]

NoWorkforce ==
  /\ employees = <<>> /\ vehicles = <<>> /\ grants = {} /\ absences = {}
  /\ calls = [q \in Request |-> Over]

NoCapacity ==
  /\ demand = None /\ staff = <<>> /\ vans = <<>> /\ drivers = {} /\ live = {} /\ branchLock = None
  /\ jobs = [q \in Request |-> [stage |-> "idle", locks |-> {}]]

Init ==
  \/ CatalogueInit /\ NoWorkforce /\ NoCapacity
  \/ WorkforceInit /\ NoCatalogue /\ NoCapacity
  \/ CapacityInit /\ NoCatalogue /\ NoWorkforce

Next ==
  \/ (CatalogueNext \/ WorkforceNext) /\ UNCHANGED capacity
  \/ CapacityNext /\ UNCHANGED <<catalogue, workforce>>

Spec == Init /\ [][Next]_<<catalogue, workforce, capacity>>

\* The people and vehicles the schedule is made of stand while it is made: see
\* the three parts, which MatrixImporter, EmployeesService and the synthetic
\* capacity tool answer for.
WorkforceStands == MatrixStands /\ GrantsStand /\ LiveCrewsStand

=============================================================================
