\* Two processes that make calls, one that reads, any number of loads.
SPECIFICATION Spec
CONSTANTS
  lastfloor = 2
  Callers = {c1, c2}
  Readers = {r1}
SYMMETRY Symmetry
INVARIANTS
  TypeOK
  NothingRunsFreed
  ListsReady
  ThreadSurvives
  QuietCallsSurvive
  LeftWhileExiting
  StartedRuns
  RmmodWaits
CHECK_DEADLOCK FALSE
