SPECIFICATION FairSpec
CONSTANTS
  a = a  b = b  Byte = {a, b}
  UINT_MAX = 15
  Vectors <- MCVectors
  Inputs <- MCInputs
  Needles <- MCNeedles
  MaxMishaps = 1
INVARIANTS TransferExact MemmemFinds
PROPERTY Finishes
CHECK_DEADLOCK FALSE
