SPECIFICATION FairSpec
CONSTANTS
  Worker = {w1}
  Reconciler = {r1}
  Manager = {m1}
  Provider = "BULLMQ"
  MaxDeliveries = 2
  MaxFaults = 1
PROPERTIES
  CancelSettles
CHECK_DEADLOCK FALSE
