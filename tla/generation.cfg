\* Two processes confirming, sweeping and repairing beside the managers.
CONSTANTS
  p1 = p1  p2 = p2  k1 = k1
  Process = {p1, p2}
  Key = {k1}
  LastAgreement = 2
  LastDay = 3
  MaxJobs = 2
  MaxHand = 1
  MaxEdits = 1
  PeriodOf <- MCPeriodOf
  Cap <- MCCap
  Crews <- MCCrews
  MultiWeek = {1}
  TermsOf <- MCTermsOf
  HoursOf <- MCHoursOf
  Asks <- MCAsks
  Starts <- MCStarts
SPECIFICATION Spec
PROPERTIES LedgerTellsWhatLanded WritesOnlyItsOwn AddingKeepsTheCap SecondRunIsQuiet ReportIsHonest
SYMMETRY MCSymmetry
CHECK_DEADLOCK FALSE
