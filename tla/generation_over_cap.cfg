\* One confirm after a crew was reduced: no other process, no hand at work.
CONSTANTS
  p1 = p1  p2 = p2  k1 = k1
  Process = {p1}
  Key = {}
  LastAgreement = 2
  LastDay = 3
  MaxJobs = 1
  MaxHand = 0
  MaxEdits = 1
  PeriodOf <- MCPeriodOf
  Cap <- MCCap
  Crews <- MCRoomyCrews
  MultiWeek = {1}
  TermsOf <- MCCrewTermsOf
  HoursOf <- MCHoursOf
  Asks <- MCAsks
  Starts <- MCKeptStarts
SPECIFICATION Spec
PROPERTIES GuardHoldsTheCap
CHECK_DEADLOCK FALSE
