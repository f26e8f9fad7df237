\* Three envelopes for one task, any two mishaps.
SPECIFICATION Spec
CONSTANTS
  MaxCopies = 3
  MaxMishaps = 2
INVARIANTS
  TypeOK
  RunsOnce
  RanIsKnown
PROPERTIES
  ClosedNotPosted
  WaitingCloses
  ImplementsPeerMessage
\* The message may be closed for good.
CHECK_DEADLOCK FALSE
