\* One request, and the scheduler.
SPECIFICATION FairSpec
CONSTANTS
  lastfloor = 2
  Passengers = {p1}
  Readers = {}
  MaxCalls = 1
  Rmmod = FALSE
  scheduler = scheduler
  Bad = Bad
PROPERTIES
  RequestReturns
CHECK_DEADLOCK FALSE
