SPECIFICATION Spec
CONSTANTS
  Unset = Unset
  User = User
  NoSymbol = NoSymbol
  UserMaySet <- MCUserMaySet
  PlatformIdxs <- MCPlatformIdxs
  NcclVersions <- MCNcclVersions
  SetenvMayFail = TRUE
  UserLatency = 40
  UserProtocol = "RDMA"
INVARIANTS
  TypeOK
  
  NvlsDecision
  TunablesOutcome
PROPERTIES
  OverridesNeverChanged
