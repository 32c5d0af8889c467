\* The module is unloaded while two starts, a stop and a request come in.
SPECIFICATION FairSpec
CONSTANTS
  lastfloor = 3
  MAXWEIGHT = 8
  MAXUNITS = 3
  Requests <- UpDownRequests
  MaxRequests = 1
  StartCalls = {s1, s2}
  StopCalls = {t1}
  KmallocFails = TRUE
  Rmmod = TRUE
PROPERTIES
  DrainEnds
  Service
  RmmodReturns
CHECK_DEADLOCK FALSE
