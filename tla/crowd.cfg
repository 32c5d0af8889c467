\* Four requests and one start: more people than fit, on two floors.
SPECIFICATION FairSpec
CONSTANTS
  lastfloor = 2
  MAXWEIGHT = 9
  MAXUNITS = 3
  Requests <- CrowdRequests
  MaxRequests = 4
  StartCalls = {s1}
  StopCalls = {}
  KmallocFails = FALSE
  Rmmod = FALSE
INVARIANTS
  WithinCapacity
  HalfUnitShown
  FloorFIFO
PROPERTIES
  Service
  AllServed
