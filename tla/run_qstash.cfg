SPECIFICATION Spec
CONSTANTS
  Worker = {w1, w2}
  Reconciler = {r1, r2}
  Manager = {m1}
  Provider = "QSTASH"
  MaxDeliveries = 2
  MaxFaults = 1
SYMMETRY Symmetry
INVARIANTS
  LiveLeaseIsCurrent
  JobIsOutboxMessage
PROPERTIES
  NoWriteAfterCancel
CHECK_DEADLOCK FALSE
