\* One record and two pollers; a supervised task may get two workers; any two
\* mishaps.
SPECIFICATION Spec
CONSTANTS
  Records = {r1}
  Pollers = {p1, p2}
  NoRecord = none
  OrphanReaper = FALSE
  LateWorkers = FALSE
  MaxAttempts = 2
  MaxMishaps = 2
INVARIANTS
  TypeOK
  SentOnce
  ResultReachesUser
PROPERTIES
  ReadyIsDelivered
  DeadWorkerSettled
\* The queue may be empty for good.
CHECK_DEADLOCK FALSE
