----------------------- MODULE MCPlatformConfigEndpoint -----------------------
(* Model-checking instance of PlatformConfigEndpoint.                     *)
EXTENDS PlatformConfigEndpoint

CONSTANTS t1, t2

MCThreads == {t1, t2}
MCProtocols == {"SENDRECV", "RDMA", "OTHER"}
MCPlatformTypes == {"p5.48xlarge", "p4d.24xlarge"}
MCPlatformTypesWithNull == {"p5.48xlarge", "p4d.24xlarge", NoPlatform}
=============================================================================
