SPECIFICATION Spec
CONSTANTS
  None = None
  v1 = v1
  v2 = v2
  p1 = p1
  f1 = f1
  f2 = f2
  k1 = k1
  k2 = k2
  r1 = r1
  r2 = r2
  MaxClicks <- Clicks
  Question = {1, 2}
  MaxSites = 1
  Customer = {1, 2, 3, 4}
  PageSize = 2
  Page = {1, 2}
  MaxPolls = 3
  Visit = {v1, v2}
  Person = {p1}
  Window = {1, 2}
  Finding = {f1, f2}
  Today = {f1}
  Key = {k1, k2}
  Run = {r1, r2}
INVARIANTS
  ScreensShowWhatIsAsked
  ActsOnWhatIsShown
PROPERTIES
  ScreensComeToRest
CHECK_DEADLOCK FALSE
