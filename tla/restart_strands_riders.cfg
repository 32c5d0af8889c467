\* Calls that do not overlap with anything: start, stop, start.
SPECIFICATION SerialFairSpec
CONSTANTS
  lastfloor = 3
  MAXWEIGHT = 8
  MAXUNITS = 3
  Requests <- UpDownRequests
  MaxRequests = 1
  StartCalls = {s1, s2}
  StopCalls = {t1}
  KmallocFails = FALSE
  Rmmod = FALSE
PROPERTIES
  AllServedWhenStarted
