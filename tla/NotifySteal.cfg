\* One record, two pollers, one of which dies once.
SPECIFICATION Spec
CONSTANTS
  Records = {r1}
  Pollers = {p1, p2}
  NoRecord = none
  OrphanReaper = FALSE
  LateWorkers = FALSE
  MaxAttempts = 1
  MaxMishaps = 1
INVARIANT
  OneDeliverer
CHECK_DEADLOCK FALSE
