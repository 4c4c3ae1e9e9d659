SPECIFICATION Spec
CONSTANTS
  MaxSymbols = 5
  MaxLength = 4
  Bits = 3
  Inputs <- MCInputs
INVARIANTS
  BuildsRight
PROPERTY Ends
CHECK_DEADLOCK FALSE
