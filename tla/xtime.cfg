\* Seconds that wrap around an int of 6 values twice, three nanoseconds.
SPECIFICATION Spec
CONSTANTS
  Billion = 3
  HalfInt = 3
  MaxSec = 12
  MaxStep = 2
INVARIANTS
  TypeOK
  OneText
PROPERTIES
  ElapsedExact
  DifferenceMissing
