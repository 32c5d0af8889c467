\* Two requests, one process that starts and stops, one that reads.
SPECIFICATION Spec
CONSTANTS
  lastfloor = 2
  Requests = {q1, q2}
  Switchers = {s1}
  Readers = {r1}
  Null = Null
  MaxCalls = 2
SYMMETRY Symmetry
INVARIANTS
  TypeOK
  SerialFloors
  SerialCallsSurvive
  ListsBeforeStarted
CHECK_DEADLOCK FALSE
