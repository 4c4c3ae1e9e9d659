CONSTANTS
  DiskSectors = 7
  GeoSectors = 6
  SECT_SIZE = 2
  MAXPARTITIONS = 2
  IntSize = 32
  BUFSIZE = 2
  Images <- MCImages
  Kernels = {0, 3}
  PartArgs <- MCPartArgs
  SizeArgs = {9}
  Confs = {3}
  Disks <- MCDisks
  MaxArgs = 2
  MaxRuns = 3
SPECIFICATION Spec
INVARIANT OverlapsReported
CHECK_DEADLOCK FALSE
