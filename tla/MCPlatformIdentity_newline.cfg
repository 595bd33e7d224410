CONSTANTS
  t1 = t1
  t2 = t2
  t3 = t3
  Threads <- MCThreads
  NoThread = NoThread
  MaxCalls = 2
  FileContents <- MCFileContents
  Absent = Absent
  NL = NL
  EofByte = EofByte
  NoPlatform = NoPlatform
  ReadMayFail = FALSE
SPECIFICATION Spec
INVARIANT
  SpecPlatformType
