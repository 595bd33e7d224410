CONSTANTS
  t1 = t1
  t2 = t2
  t3 = t3
  Threads <- MCThreads
  NoThread = NoThread
  MaxCalls = 4
  FileContents <- MCFileContents
  Absent = Absent
  NL = NL
  EofByte = EofByte
  NoPlatform = NoPlatform
  ReadMayFail = TRUE
SPECIFICATION Spec
INVARIANTS
  TypeOK
  OneFileRead
  CallersAgree
PROPERTIES
  EveryCallReturns
