SPECIFICATION FairSpec
CONSTANTS
  Worker = {w1, w2}
  Reconciler = {r1}
  Manager = {m1}
  Provider = "BULLMQ"
  MaxDeliveries = 2
  MaxFaults = 2
INVARIANTS
  AtMostOneResult
  NoStrandedRun
PROPERTIES
  LiveRunIsOwners
  ImplementsLifecycle
  EveryRunEnds
  CancelStopsRun
CHECK_DEADLOCK FALSE
