\* Two starts and two stops race with the scheduler and with two requests.
SPECIFICATION Spec
CONSTANTS
  lastfloor = 3
  MAXWEIGHT = 8
  MAXUNITS = 3
  Requests <- MixedRequests
  MaxRequests = 2
  StartCalls = {s1, s2}
  StopCalls = {t1, t2}
  KmallocFails = FALSE
  Rmmod = FALSE
SYMMETRY Symmetry
INVARIANTS
  TypeOK
  LoadAccounting
  OnOneList
  ServedWhereTheyGotOff
  LoadIndexInBounds
  DrainTarget
