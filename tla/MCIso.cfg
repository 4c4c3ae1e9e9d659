SPECIFICATION Spec
CONSTANTS
  Discs <- MCDiscs
  Disc <- MCDisc
  Lower <- MCLower
  Requests <- MCRequests
  HeapTexts <- MCHeapTexts
  NameMax = 2
  MaxAreas = 2
  BlockCells = 4
  CruftLimit = 64
  CruftMod = 32
  MAX_OPEN_FILES = 3
  MaxOpens = 3
  MaxFailures = 1
  MaxHops = 3
  MaxBlkno = 2
  MaxRun = 2
INVARIANTS
  OpensRight
  FdKept
  SlotsAccounted
  ListingRight
  ReadsRight
PROPERTY CallsReturn
