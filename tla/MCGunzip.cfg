SPECIFICATION Spec
CONSTANTS
  INBUFSIZ = 8
  NDADDR = 4
  MaxOut = 40
  WSIZE = 8
  MemTop = 40
  MaxTries = 2
  MaxFailures = 1
  Pads = {0, 1, 2, 3, 4, 5, 6, 7}
  Files <- MCFiles
INVARIANTS
  InflatesRight
  GoodFileLoads
  MemoryRight
PROPERTY AttemptEnds
CHECK_DEADLOCK FALSE
