SPECIFICATION Spec
CONSTANTS
  Vols <- MCVols
  Frags = 2
  FragUnits = 2
  NDADDR = 2
  NIADDR = 3
  NINDIR = 2
  MaxOpens = 2
  MaxReads = 2
  MaxFailures = 1
  MAXSYMLINKS = 1
  MaxRun = 3
INVARIANTS
  OpensRight
  ReadsRight
PROPERTY CallsReturn
CHECK_DEADLOCK FALSE
