------------------------------ MODULE PlatformInit ------------------------------
(***************************************************************************)
(* platform_init() of src/platform-aws.c (HAVE_CUDA build), with           *)
(* configure_nvls_option(): the once-per-process orchestration that looks  *)
(* up the platform entry, writes default environment variables for NCCL    *)
(* and Libfabric, and resolves the plugin's tunables (duplicate            *)
(* connections, latency, protocol, domain per thread).  The steps run in   *)
(* the code's order; every failing setenv() jumps to "exit" with the       *)
(* writes already made left in place.                                      *)
(*                                                                         *)
(* The environment is a function from variable names to values: Unset,    *)
(* User (a value the user exported) or the value the plugin writes.  The   *)
(* platform entry, the user's parameters, the Libfabric and NCCL versions  *)
(* are inputs chosen in Init.                                              *)
(***************************************************************************)
EXTENDS PlatformData, Integers

CONSTANTS
  Unset,           \* getenv() returns NULL
  User,            \* a value the user exported before the process started
  UserMaySet,      \* the variables the user may have exported
  PlatformIdxs,    \* platform entries get_platform_data() may return (0: NULL)
  NcclVersions,    \* versions ncclGetVersion may report
  NoSymbol,        \* dlsym finds no ncclGetVersion
  SetenvMayFail,   \* whether setenv() (and snprintf) may fail
  UserLatency,     \* a latency the user passed as OFI_NCCL_NET_LATENCY
  UserProtocol     \* a protocol the user passed as OFI_NCCL_PROTOCOL

ASSUME PlatformIdxsAssumption == PlatformIdxs \subseteq 0..Len(platform_data_map)
ASSUME NcclVersionsAssumption == NcclVersions \subseteq Nat /\ NoSymbol \notin Nat
ASSUME LatencyAssumption == UserLatency \in Nat
ASSUME SetenvMayFailAssumption == SetenvMayFail \in BOOLEAN

EnvVars == {"FI_PROVIDER", "FI_EFA_FORK_SAFE", "RDMAV_FORK_SAFE",
            "NCCL_NVLS_ENABLE", "NCCL_NET_FORCE_FLUSH",
            "NCCL_NVLSTREE_MAX_CHUNKSIZE", "NCCL_NVLS_CHUNKSIZE",
            "NCCL_TOPO_FILE"}

ASSUME UserMaySetAssumption == UserMaySet \subseteq EnvVars

(* The values the plugin writes (the topology path is the entry's file).  *)
PluginValues == {"1", "0", "524288"} \cup
                {platform_data_map[k].topology : k \in DOMAIN platform_data_map}
EnvValues == {Unset, User, "efa"} \cup PluginValues

(* getenv() NULL and a user's value are neither of the plugin's values.   *)
ASSUME EnvValuesAssumption ==
  /\ Unset # User
  /\ {Unset, User} \cap ({"efa"} \cup PluginValues) = {}

(* 2.18.5, the first NCCL release with the NVLS fix (line 377).           *)
NvlsFixedVersion == 21805

(* The other parameters: OFI_NCCL_NET_LATENCY, OFI_NCCL_DOMAIN_PER_THREAD *)
(* default to -1, OFI_NCCL_PROTOCOL to NULL; nic_dup_conns starts at its  *)
(* parameter, 0 by default.                                               *)
NoProtocol == "NULL"
NoFilter == "NULL"
BuildProtocol == "SENDRECV"
DupConnsParams == {0, 2}
DomainParams == {-1, 0, 1}

Steps == {"start", "fork", "nvls", "flush", "chunks", "topo", "tunables", "done"}

VARIABLES
  env,              \* the process environment
  data,             \* get_platform_data(): index into the table, 0 = NULL
  fi_new,           \* fi_version() is 1.13 or later
  nccl_version,     \* what ncclGetVersion reports, or NoSymbol
  latency_param,    \* ofi_nccl_net_latency()
  protocol_param,   \* ofi_nccl_protocol()
  domain_param,     \* ofi_nccl_domain_per_thread()
  dup_param,        \* nic_dup_conns when platform_init is entered
  provider_filter,  \* *provider_filter
  select_efa,       \* local select_efa
  nic_dup_conns,    \* global nic_dup_conns
  net_latency,      \* global net_latency
  selected_protocol,\* global nccl_ofi_selected_protocol
  domain_per_thread,\* global domain_per_thread
  step,             \* the block of platform_init being run
  ret               \* the return value ("ok" or the error's origin)

inputs == <<data, fi_new, nccl_version, latency_param, protocol_param,
            domain_param, dup_param>>
tunables == <<nic_dup_conns, net_latency, selected_protocol, domain_per_thread>>
vars == <<env, inputs, provider_filter, select_efa, tunables, step, ret>>

PlatformEntry == platform_data_map[data]

(* The outcomes of one setenv() call.                                      *)
SetenvOutcomes == IF SetenvMayFail THEN {TRUE, FALSE} ELSE {TRUE}

-----------------------------------------------------------------------------
Init ==
  /\ env \in [EnvVars -> {Unset, User, "efa"}]
  /\ \A v \in EnvVars \ {"FI_PROVIDER"} : env[v] # "efa"
  /\ \A v \in EnvVars \ UserMaySet : env[v] = Unset
  /\ data \in PlatformIdxs
  /\ fi_new \in BOOLEAN
  /\ nccl_version \in NcclVersions \cup {NoSymbol}
  /\ latency_param \in {-1, UserLatency}
  /\ protocol_param \in {NoProtocol, UserProtocol}
  /\ domain_param \in DomainParams
  /\ provider_filter = NoFilter
  /\ select_efa = FALSE
  /\ dup_param \in DupConnsParams
  /\ nic_dup_conns = dup_param
  /\ net_latency = latency_param
  /\ selected_protocol = IF protocol_param = NoProtocol THEN BuildProtocol
                         ELSE protocol_param
  /\ domain_per_thread = domain_param
  /\ step = "start"
  /\ ret = "ok"

(* A failed setenv (or snprintf) jumps to exit with -errno.               *)
Fail(origin) ==
  /\ step' = "done"
  /\ ret' = origin

(* Mutant: the filter is copied from FI_PROVIDER when that is set.       *)
ChooseProviderCopiesEnv ==
  /\ step = "start"
  /\ provider_filter' = IF env["FI_PROVIDER"] = Unset THEN "efa" ELSE env["FI_PROVIDER"]
  /\ select_efa' = (env["FI_PROVIDER"] \in {Unset, "efa"})
  /\ step' = "fork"
  /\ UNCHANGED <<env, inputs, tunables, ret>>

(* Lines 420-427: with FI_PROVIDER unset the filter is forced to "efa";   *)
(* EFA is selected when FI_PROVIDER is unset or is "efa".                 *)
ChooseProvider ==
  /\ step = "start"
  /\ provider_filter' = IF env["FI_PROVIDER"] = Unset THEN "efa" ELSE provider_filter
  /\ select_efa' = (env["FI_PROVIDER"] \in {Unset, "efa"})
  /\ step' = "fork"
  /\ UNCHANGED <<env, inputs, tunables, ret>>

(* Lines 455-469: set the fork-safety variable Libfabric reads (its name *)
(* depends on fi_version()) to 1 unless it is set.                        *)
ForkSafeVar == IF fi_new THEN "FI_EFA_FORK_SAFE" ELSE "RDMAV_FORK_SAFE"

SetForkSafe ==
  /\ step = "fork"
  /\ IF env[ForkSafeVar] = Unset
     THEN \E ok \in SetenvOutcomes :
            IF ok THEN /\ env' = [env EXCEPT ![ForkSafeVar] = "1"]
                       /\ step' = "nvls" /\ UNCHANGED ret
                  ELSE /\ Fail("fork_safe") /\ UNCHANGED env
     ELSE /\ step' = "nvls" /\ UNCHANGED <<env, ret>>
  /\ UNCHANGED <<inputs, provider_filter, select_efa, tunables>>

(* Mutant: 2.18.5 itself is treated as affected.                         *)
NvlsDisableNeededInclusive ==
  nccl_version # NoSymbol /\ nccl_version <= NvlsFixedVersion

(* configure_nvls_option(), lines 349-391, called at lines 471-475: with *)
(* NCCL_NVLS_ENABLE unset, a missing ncclGetVersion skips the check; a   *)
(* failing one is an error; a version before 2.18.5 sets it to 0.        *)
(* ncclGetVersion failing is folded into the setenv outcomes.            *)
NvlsDisableNeeded == nccl_version # NoSymbol /\ nccl_version < NvlsFixedVersion

ConfigureNvls ==
  /\ step = "nvls"
  /\ IF env["NCCL_NVLS_ENABLE"] = Unset /\ nccl_version # NoSymbol
     THEN \E version_ok, ok \in SetenvOutcomes :
            \/ ~version_ok /\ Fail("nvls") /\ UNCHANGED env
            \/ version_ok /\ NvlsDisableNeeded /\ ~ok
               /\ Fail("nvls") /\ UNCHANGED env
            \/ version_ok /\ NvlsDisableNeeded /\ ok
               /\ env' = [env EXCEPT !["NCCL_NVLS_ENABLE"] = "0"]
               /\ step' = "flush" /\ UNCHANGED ret
            \/ version_ok /\ ~NvlsDisableNeeded
               /\ step' = "flush" /\ UNCHANGED <<env, ret>>
     ELSE /\ step' = "flush" /\ UNCHANGED <<env, ret>>
  /\ UNCHANGED <<inputs, provider_filter, select_efa, tunables>>

(* Lines 477-496: on a platform that needs no network flush, default    *)
(* NCCL_NET_FORCE_FLUSH to 0.                                             *)
(* Mutant: an unknown platform counts as one without flush.              *)
FlushNotRequiredOrUnknown == data = 0 \/ ~PlatformEntry.net_flush_required

FlushNotRequired == data # 0 /\ ~PlatformEntry.net_flush_required

DisableForceFlush ==
  /\ step = "flush"
  /\ IF FlushNotRequired /\ env["NCCL_NET_FORCE_FLUSH"] = Unset
     THEN \E ok \in SetenvOutcomes :
            IF ok THEN /\ env' = [env EXCEPT !["NCCL_NET_FORCE_FLUSH"] = "0"]
                       /\ step' = "chunks" /\ UNCHANGED ret
                  ELSE /\ Fail("force_flush") /\ UNCHANGED env
     ELSE /\ step' = "chunks" /\ UNCHANGED <<env, ret>>
  /\ UNCHANGED <<inputs, provider_filter, select_efa, tunables>>

(* Lines 513-527: two setenv(..., 0) calls default the NVLS chunk sizes; *)
(* with overwrite 0 a set variable is left as it is.                      *)
DefaultIfUnset(e, v) == IF e[v] = Unset THEN [e EXCEPT ![v] = "524288"] ELSE e

SetChunkSizes ==
  /\ step = "chunks"
  /\ \E ok1, ok2 \in SetenvOutcomes :
       \/ ~ok1 /\ Fail("nvlstree_chunksize") /\ UNCHANGED env
       \/ ok1 /\ ~ok2
          /\ env' = DefaultIfUnset(env, "NCCL_NVLSTREE_MAX_CHUNKSIZE")
          /\ Fail("nvls_chunksize")
       \/ ok1 /\ ok2
          /\ env' = DefaultIfUnset(DefaultIfUnset(env,
                       "NCCL_NVLSTREE_MAX_CHUNKSIZE"), "NCCL_NVLS_CHUNKSIZE")
          /\ step' = "topo" /\ UNCHANGED ret
  /\ UNCHANGED <<inputs, provider_filter, select_efa, tunables>>

(* Lines 534-559: with NCCL_TOPO_FILE unset and a topology file in the  *)
(* entry, form XML_DIR/<file> (snprintf may fail) and set it.            *)
(* Mutant: the topology is written without checking NCCL_TOPO_FILE.      *)
SetTopologyNoGetenv ==
  /\ step = "topo"
  /\ IF data # 0 /\ PlatformEntry.topology # NoTopology
     THEN \E ok \in SetenvOutcomes :
            IF ok THEN /\ env' = [env EXCEPT !["NCCL_TOPO_FILE"] = PlatformEntry.topology]
                       /\ step' = "tunables" /\ UNCHANGED ret
                  ELSE /\ Fail("topo_file") /\ UNCHANGED env
     ELSE /\ step' = "tunables" /\ UNCHANGED <<env, ret>>
  /\ UNCHANGED <<inputs, provider_filter, select_efa, tunables>>

SetTopology ==
  /\ step = "topo"
  /\ IF env["NCCL_TOPO_FILE"] = Unset /\ data # 0 /\ PlatformEntry.topology # NoTopology
     THEN \E ok \in SetenvOutcomes :
            IF ok THEN /\ env' = [env EXCEPT !["NCCL_TOPO_FILE"] = PlatformEntry.topology]
                       /\ step' = "tunables" /\ UNCHANGED ret
                  ELSE /\ Fail("topo_file") /\ UNCHANGED env
     ELSE /\ step' = "tunables" /\ UNCHANGED <<env, ret>>
  /\ UNCHANGED <<inputs, provider_filter, select_efa, tunables>>

(* Lines 563-589: the tunables, each from the entry when the user's      *)
(* parameter is at its default; latency falls back to 150 us and the     *)
(* domain policy to one per process.                                      *)
DupConnsAfter == IF nic_dup_conns = 0 /\ data # 0
                 THEN PlatformEntry.default_dup_conns ELSE nic_dup_conns

LatencyAfter ==
  IF latency_param < 0
  THEN IF data # 0 /\ PlatformEntry.latency >= 0 THEN PlatformEntry.latency ELSE 150
  ELSE net_latency

ProtocolAfter == IF select_efa /\ protocol_param = NoProtocol /\ data # 0
                 THEN PlatformEntry.default_protocol ELSE selected_protocol

(* Mutant: the parameter counts as unset when it is 0 or less.           *)
DomainAfterNonPositive ==
  IF domain_param <= 0
  THEN IF data # 0 THEN PlatformEntry.domain_per_thread ELSE 0
  ELSE domain_param

DomainAfter ==
  IF domain_param = -1
  THEN IF data # 0 THEN PlatformEntry.domain_per_thread ELSE 0
  ELSE domain_param

ResolveTunables ==
  /\ step = "tunables"
  /\ nic_dup_conns' = DupConnsAfter
  /\ net_latency' = LatencyAfter
  /\ selected_protocol' = ProtocolAfter
  /\ domain_per_thread' = DomainAfter
  /\ step' = "done"
  /\ UNCHANGED <<env, inputs, provider_filter, select_efa, ret>>

(* platform_init has returned.                                            *)
Returned ==
  /\ step = "done"
  /\ UNCHANGED vars

Next ==
  \/ ChooseProvider \/ SetForkSafe \/ ConfigureNvls \/ DisableForceFlush
  \/ SetChunkSizes \/ SetTopology \/ ResolveTunables
  \/ Returned

Spec == Init /\ [][Next]_vars

-----------------------------------------------------------------------------
TypeOK ==
  /\ env \in [EnvVars -> EnvValues]
  /\ data \in PlatformIdxs
  /\ select_efa \in BOOLEAN
  /\ provider_filter \in {NoFilter, "efa"}
  /\ nic_dup_conns \in Nat
  /\ net_latency \in Int
  /\ domain_per_thread \in DomainParams
  /\ step \in Steps

(* The plugin never changes an environment variable once it is set: a    *)
(* value the user exported survives every step of platform_init (the     *)
(* setenv calls with overwrite 1 are all behind a getenv() check).       *)
OverridesNeverChanged ==
  [][\A v \in EnvVars : env[v] # Unset => env'[v] = env[v]]_vars

(* NCCL_NET_FORCE_FLUSH is only ever defaulted to 0 on a known platform  *)
(* whose table entry says no network flush is needed: disabling it       *)
(* anywhere else would let NCCL skip a flush the GPU needs.              *)
FlushDisabledOnlyWhereUnneeded ==
  env["NCCL_NET_FORCE_FLUSH"] = "0" =>
    data # 0 /\ ~platform_data_map[data].net_flush_required

(* After a successful platform_init, NVLS is disabled exactly when the  *)
(* user left NCCL_NVLS_ENABLE unset and NCCL reports a version before   *)
(* 2.18.5 (configure_nvls_option).                                      *)
NvlsDecision ==
  (step = "done" /\ ret = "ok") =>
    (env["NCCL_NVLS_ENABLE"] = "0" <=>
       /\ env["NCCL_NVLS_ENABLE"] # User
       /\ nccl_version \in Nat /\ nccl_version < NvlsFixedVersion)

(* When platform_init returns, a failed call has changed none of the     *)
(* tunables (every fallible step precedes them), and a successful one    *)
(* kept each parameter the user set (-1 / NULL / 0 mean "not set").       *)
TunablesOutcome ==
  step = "done" =>
    /\ ret # "ok" =>
         /\ nic_dup_conns = dup_param /\ net_latency = latency_param
         /\ domain_per_thread = domain_param
         /\ selected_protocol = IF protocol_param = NoProtocol THEN BuildProtocol
                                ELSE protocol_param
    /\ ret = "ok" =>
         /\ dup_param # 0 => nic_dup_conns = dup_param
         /\ latency_param >= 0 => net_latency = latency_param
         /\ protocol_param # NoProtocol => selected_protocol = protocol_param
         /\ domain_param # -1 => domain_per_thread = domain_param
         /\ domain_per_thread \in {0, 1}

(* spec.md 4.5 step 5: the latency comes from the table entry only if   *)
(* the entry provides a meaningful value; otherwise the 150 us fallback. *)
SpecLatencyDefault ==
  (step = "done" /\ ret = "ok" /\ latency_param < 0) =>
    net_latency = IF data # 0 /\ platform_data_map[data].latency > 0
                  THEN platform_data_map[data].latency ELSE 150

=============================================================================
