\* Two readers, two opens each, two buffers; kmalloc may fail.
SPECIFICATION FairSpec
CONSTANTS
  Readers = {r1, r2}
  Buffers = {b1, b2}
  NULL = NULL
  MaxTexts = 2
  MaxOpens = 2
  KmallocFails = TRUE
INVARIANTS
  TypeOK
  AloneGetsText
  SerialHeap
PROPERTIES
  EveryReaderEnds
CHECK_DEADLOCK FALSE
