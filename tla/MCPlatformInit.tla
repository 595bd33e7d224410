----------------------------- MODULE MCPlatformInit -----------------------------
(* platform_init() on five table entries (none, p4d, p5, g5, trn1), the  *)
(* NCCL versions around 2.18.5 and the user-settable variables that      *)
(* steer its branches.                                                    *)
EXTENDS PlatformInit

MCUserMaySet == {"FI_PROVIDER", "FI_EFA_FORK_SAFE", "NCCL_NVLS_ENABLE",
                 "NCCL_NET_FORCE_FLUSH", "NCCL_TOPO_FILE"}
MCPlatformIdxs == {0, 1, 4, 5, 6}
MCNcclVersions == {21803, 21805, 21903}
=============================================================================
