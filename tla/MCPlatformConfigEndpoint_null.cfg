CONSTANTS
  t1 = t1
  t2 = t2
  Threads <- MCThreads
  NoThread = NoThread
  NoPlatform = NoPlatform
  MaxCalls = 2
  Protocols <- MCProtocols
  PlatformTypes <- MCPlatformTypesWithNull
  SetenvResults = {TRUE}
SPECIFICATION Spec
INVARIANT
  NoNullPlatformTypeDeref
