\* Two calls to apply, keys shared or not, beside a draft writer and midnight.
CONSTANTS
  v1 = v1  v2 = v2  e1 = e1  e2 = e2  c1 = c1  c2 = c2  k1 = k1  k2 = k2
  Visit = {v1, v2}
  Employee = {e1, e2}
  Call = {c1, c2}
  Key = {k1, k2}
  None = None
  LastDay = 1
  MaxEdits = 2
  MaxLineage = 3
  Crews <- MCCrews
  DayOf <- MCDayOf
  Legacy <- MCLegacy
SPECIFICATION Spec
INVARIANTS CalendarHolds AnswerIsRecorded PlansHeal ViewsTellOneStory
PROPERTIES ReviewedIsApplied HistoryIsTold
SYMMETRY MCSymmetry
CHECK_DEADLOCK FALSE
