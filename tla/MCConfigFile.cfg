CONSTANTS
  MaxLen = 4
  MaxLong = 7
  Files <- MCFiles
  blocksize = 3
  NDADDR = 2
SPECIFICATION ScanSpec
INVARIANTS
  ScanRight
PROPERTY Terminates
