\* One record, two pollers and a write that fails.
SPECIFICATION Spec
CONSTANTS
  Records = {r1}
  Pollers = {p1, p2}
  NoRecord = none
  OrphanReaper = FALSE
  LateWorkers = FALSE
  MaxAttempts = 1
  MaxMishaps = 1
INVARIANT
  DeliveredWasSent
CHECK_DEADLOCK FALSE
