\* Two pollers, two attempts, any one mishap, as long as no slip has happened.
SPECIFICATION Spec
CONSTANTS
  Pollers = {p1, p2}
  MaxAttempts = 2
  MaxLaunches = 3
  MaxMishaps = 1
  MaxSlips = 0
CONSTRAINT FewSlips
SYMMETRY Symmetry
INVARIANTS
  TypeOK
  OneWorker
PROPERTIES
  ImplementsSupervisedTask
  ResultKept
\* The run may be over for good.
CHECK_DEADLOCK FALSE
