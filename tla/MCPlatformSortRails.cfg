CONSTANTS
  MaxRails = 5
  VfIdxValues <- MCVfIdxValues
  NULL = NULL
SPECIFICATION Spec
INVARIANTS
  TypeOK
  SortOutcome
  UndefinedOnlyOnMisfit

  
