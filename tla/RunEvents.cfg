\* Two clients, two events.
SPECIFICATION Spec
CONSTANTS
  Clients = {c1, c2}
  MaxEvents = 2
INVARIANTS
  TypeOK
  SeenInOrder
  EndedSawAll
PROPERTIES
  StreamEnds
\* The run may be over and every client gone.
CHECK_DEADLOCK FALSE
