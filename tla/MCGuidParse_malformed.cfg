SPECIFICATION Spec
CONSTANTS
  NL <- MCNL
  MCNL = MCNL
  Absent = Absent
  Lines <- MCLines
INVARIANT
  SpecRejectsMalformed
