CONSTANTS
  Visit = {1, 2, 3}
  LastDay = 1
  LookaheadLimit = 1
  Snapshots <- MCSnapshots
SPECIFICATION Spec
INVARIANTS  LocksComeFirst GapsAreHonest PickerAgrees RefusedDaysAreImpossible
CHECK_DEADLOCK FALSE
