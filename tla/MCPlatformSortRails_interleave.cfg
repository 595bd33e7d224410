CONSTANTS
  MaxRails = 4
  VfIdxValues <- MCVfIdxValues
  NULL = NULL
SPECIFICATION Spec
INVARIANT
  SpecInterleavedOrder
