CONSTANTS
  t1 = t1
  t2 = t2
  Threads <- MCThreads
  NoThread = NoThread
  NoPlatform = NoPlatform
  MaxCalls = 3
  Protocols <- MCProtocols
  PlatformTypes <- MCPlatformTypes
  SetenvResults = {TRUE, FALSE}
SPECIFICATION Spec
INVARIANT
  UnorderedEndpointImpliesProtoSet
