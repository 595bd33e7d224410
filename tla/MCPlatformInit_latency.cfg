SPECIFICATION Spec
CONSTANTS
  Unset = Unset
  User = User
  NoSymbol = NoSymbol
  UserMaySet <- MCUserMaySet
  PlatformIdxs <- MCPlatformIdxs
  NcclVersions <- MCNcclVersions
  SetenvMayFail = FALSE
  UserLatency = 40
  UserProtocol = "RDMA"
INVARIANT SpecLatencyDefault
