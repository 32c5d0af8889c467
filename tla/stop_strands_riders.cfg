\* Calls that do not overlap with anything: start, stop, start, stop.
SPECIFICATION SerialFairSpec
CONSTANTS
  lastfloor = 3
  MAXWEIGHT = 8
  MAXUNITS = 3
  Requests <- UpDownRequests
  MaxRequests = 1
  StartCalls = {s1, s2}
  StopCalls = {t1, t2}
  KmallocFails = FALSE
  Rmmod = FALSE
PROPERTIES
  OffloadedAfterStop
