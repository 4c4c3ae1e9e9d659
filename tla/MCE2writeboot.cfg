CONSTANTS
  NGroups = 3
  BlocksPerGroup = 8
  InodesPerGroup = 4
  BitsPerLong = 2
  InodeSlop = 1
  NDir = 2
  PtrsPerBlk = 3
  Copies <- MCCopies
  Tables <- MCTables
  NBUFS = 6
  Layouts <- MCLayouts
  SectorsPerBlk = 2
  MaxBlks = 5
  MaxRuns = 3
  MaxOthers = 12
SPECIFICATION Spec
INVARIANTS
  FsConsistent
  OthersKept
  BootBlockRight
  StopsOnlyAfterFailure
CHECK_DEADLOCK FALSE
