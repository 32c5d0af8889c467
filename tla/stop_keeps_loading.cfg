\* A stop_elevator that the scheduler overwrites.
SPECIFICATION Spec
CONSTANTS
  lastfloor = 3
  MAXWEIGHT = 8
  MAXUNITS = 3
  Requests <- UpDownRequests
  MaxRequests = 2
  StartCalls = {s1}
  StopCalls = {t1}
  KmallocFails = FALSE
  Rmmod = FALSE
PROPERTIES
  NoLoadAfterStop
