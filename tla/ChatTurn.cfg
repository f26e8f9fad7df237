\* Two turns, one note (notes do not meet), two stops.
SPECIFICATION Spec
CONSTANTS
  Notes = {n1}
  Stops = {s1, s2}
  MaxTurns = 2
SYMMETRY Symmetry
INVARIANTS
  TypeOK
  NotesKept
  StampMeansStop
  StoppedIsCancelled
  AbortedNotAnswered
\* The turns and the commands are used up.
CHECK_DEADLOCK FALSE
