SPECIFICATION Spec
CONSTANTS
  None = None
  Keep = Keep
  Request = {r1, r2, r3}
  CustomerId = {1, 2, 3}
  SiteId = {1, 2, 3}
  AgreementId = {1, 2, 3}
  SiteName = {"hall"}
  Branch = {"Colombo", "Kandy"}
  Edits <- MCEdits
  NewAgreements <- MCNewAgreements
  Hours <- MCHours
  Workbooks <- MCWorkbooks
  Catalogs <- MCCatalogs
  MaxImports = 2
  PersonId = {1, 2, 3}
  VehicleId = {11, 12, 13}
  Key <- MCKey
  Code <- MCCode
  Identity <- MCIdentity
  Skill = {"fumigation"}
  Station = {"brewery"}
  Stay <- MCStay
  Leave <- MCLeave
  Matrices <- MCMatrices
  Rosters <- MCRosters
  Team = {1, 2}
  Demands <- MCDemands
  Fleets <- MCFleets
INVARIANTS CatalogCoheres
PROPERTIES EditKeepsTheRest ManagersWordStands WorkbookIsBooked WorkforceStands
CHECK_DEADLOCK FALSE
