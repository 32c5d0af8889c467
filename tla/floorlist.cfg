\* Two requests, a reader, the scheduler and unloading, on two floors.
SPECIFICATION Spec
CONSTANTS
  lastfloor = 2
  Passengers = {p1, p2}
  Readers = {r1}
  MaxCalls = 2
  Rmmod = TRUE
  scheduler = scheduler
  Bad = Bad
SYMMETRY Symmetry
INVARIANTS
  TypeOK
  SerialLists
  SavedNodeOnList
  WalkLeadsHome
  SumOfFloor
PROPERTIES
  Atomic
CHECK_DEADLOCK FALSE
