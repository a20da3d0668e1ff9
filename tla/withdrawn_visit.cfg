\* A solve of a visit whose published crew was withdrawn: two visits, two employees, two days.
CONSTANTS
  v1 = v1  v2 = v2  e1 = e1  e2 = e2  d1 = d1  d2 = d2  r1 = r1  r2 = r2  m1 = m1
  Visit = {v1, v2}
  Employee = {e1, e2}
  Day = {d1, d2}
  Run = {r1, r2}
  Manager = {m1}
  None = None
  MaxWork = 2
  Scopes = {"FULL"}
  MaxEdits = 2
  Crews <- MCCrews
  Horizons <- MCHorizons
  FirstDay <- MCFirstDay
  Legal <- MCLegal
  Work <- MCWork
  Cap <- MCCap
SPECIFICATION Spec
PROPERTY SolvesOnlyWhatItMaySave
SYMMETRY MCSymmetry
CHECK_DEADLOCK FALSE
