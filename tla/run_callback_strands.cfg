SPECIFICATION Spec
CONSTANTS
  Worker = {w1}
  Reconciler = {r1}
  Manager = {m1}
  Provider = "QSTASH"
  MaxDeliveries = 2
  MaxFaults = 1
INVARIANTS
  NoStrandedRun
CHECK_DEADLOCK FALSE
