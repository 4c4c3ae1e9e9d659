CONSTANTS
  Blocks <- MCBlocks
  Data = {d1, d2}
  NBUFS = 2
  NoData = NoData
  WriteErrors = FALSE
  MaxAccess = 6
SPECIFICATION Spec
INVARIANTS IInv KeepsMostRecent
PROPERTY ImplementsStore
