-------------------------- MODULE PlatformInitProofs --------------------------
(***************************************************************************)
(* Proofs about PlatformInit for every platform entry, every NCCL version, *)
(* every environment the user exported and every setenv() outcome.         *)
(***************************************************************************)
EXTENDS PlatformInit, TLAPS

USE DEF EnvVars, Steps, DomainParams, DupConnsParams

(* What the catalog entries give the tunables.                            *)
LEMMA CatalogValues ==
  ASSUME NEW k \in 1..Len(platform_data_map)
  PROVE  /\ platform_data_map[k].default_dup_conns \in Nat
         /\ platform_data_map[k].latency \in Nat
         /\ platform_data_map[k].domain_per_thread \in {0, 1}
         /\ platform_data_map[k].topology \in PluginValues
<1>1. k \in 1..7
  BY DEF platform_data_map
<1>2. QED
  BY <1>1 DEF platform_data_map, Entry, PluginValues

(* The values the tunables hold before ResolveTunables runs.              *)
InitialTunables ==
  /\ nic_dup_conns = dup_param
  /\ net_latency = latency_param
  /\ selected_protocol = IF protocol_param = NoProtocol THEN BuildProtocol
                         ELSE protocol_param
  /\ domain_per_thread = domain_param

(* The NVLS decision has been made (and not failed) once the run is past  *)
(* the "nvls" block.                                                      *)
PastNvls == step \in {"flush", "chunks", "topo", "tunables"} \/ (step = "done" /\ ret = "ok")

InitInv ==
  /\ TypeOK
  /\ data \in 0..Len(platform_data_map)
  /\ latency_param \in {-1, UserLatency}
  /\ nccl_version \in NcclVersions \cup {NoSymbol}
  /\ step # "done" => ret = "ok" /\ InitialTunables
  /\ ret # "ok" => InitialTunables
  /\ FlushDisabledOnlyWhereUnneeded
  /\ env["NCCL_NVLS_ENABLE"] \in {Unset, User, "0"}
  /\ env["NCCL_NVLS_ENABLE"] = "0" => NvlsDisableNeeded
  /\ PastNvls /\ env["NCCL_NVLS_ENABLE"] = Unset => ~NvlsDisableNeeded
  /\ TunablesOutcome


USE PlatformIdxsAssumption, NcclVersionsAssumption, LatencyAssumption,
    SetenvMayFailAssumption, UserMaySetAssumption, EnvValuesAssumption

LEMMA InitHolds == Init => InitInv
<1> SUFFICES ASSUME Init PROVE InitInv
  OBVIOUS
<1>1. TypeOK
  <2>1. env \in [EnvVars -> EnvValues]
    <3>1. {Unset, User, "efa"} \subseteq EnvValues
      BY DEF EnvValues
    <3>2. QED
      BY <3>1 DEF Init
  <2>2. nic_dup_conns \in Nat /\ net_latency \in Int
    BY DEF Init
  <2>3. QED
    BY <2>1, <2>2 DEF Init, TypeOK
<1>2. env["NCCL_NVLS_ENABLE"] \in {Unset, User, "0"}
  BY DEF Init
<1>3. "0" \notin {Unset, User} /\ "0" # "efa"
  BY DEF PluginValues
<1>4. QED
  BY <1>1, <1>2, <1>3 DEF Init, InitInv, InitialTunables, PastNvls,
                          FlushDisabledOnlyWhereUnneeded, TunablesOutcome


(* The plugin's values are neither getenv() NULL nor a user's value.      *)
LEMMA PluginValuesDistinct ==
  /\ {"0", "1", "524288"} \subseteq PluginValues
  /\ \A x \in PluginValues : x \notin {Unset, User}
  /\ \A x \in PluginValues : x \in EnvValues
<1>1. \A x \in PluginValues : x \notin {Unset, User}
  BY EnvValuesAssumption
<1>2. {"0", "1", "524288"} \subseteq PluginValues
  BY DEF PluginValues
<1>3. \A x \in PluginValues : x \in EnvValues
  BY DEF EnvValues
<1>4. QED
  BY <1>1, <1>2, <1>3

(* An entry's topology file is one of the plugin's values.                *)
LEMMA TopologyValue ==
  ASSUME data \in 0..Len(platform_data_map), data # 0
  PROVE  PlatformEntry.topology \in PluginValues
BY CatalogValues DEF PlatformEntry

(* One failing setenv() ends the run with the tunables as they were and  *)
(* at most one variable other than NCCL_NVLS_ENABLE and                   *)
(* NCCL_NET_FORCE_FLUSH written.                                          *)
LEMMA FailStep ==
  ASSUME InitInv, step # "done", NEW origin, origin # "ok", Fail(origin),
         NEW w \in EnvVars \ {"NCCL_NVLS_ENABLE", "NCCL_NET_FORCE_FLUSH"},
         NEW x \in PluginValues,
         env' = env \/ env' = [env EXCEPT ![w] = x],
         UNCHANGED <<inputs, provider_filter, select_efa, tunables>>
  PROVE  InitInv'
<1>1. env' \in [EnvVars -> EnvValues]
  BY PluginValuesDistinct DEF InitInv, TypeOK
<1>2. /\ env'["NCCL_NVLS_ENABLE"] = env["NCCL_NVLS_ENABLE"]
      /\ env'["NCCL_NET_FORCE_FLUSH"] = env["NCCL_NET_FORCE_FLUSH"]
  BY DEF InitInv, TypeOK
<1>3. step' = "done" /\ ret' # "ok"
  BY DEF Fail
<1>4. QED
  BY <1>1, <1>2, <1>3 DEF InitInv, TypeOK, InitialTunables, PastNvls, inputs,
     tunables, FlushDisabledOnlyWhereUnneeded, NvlsDisableNeeded,
     TunablesOutcome

(* A setenv() of a variable other than NCCL_NVLS_ENABLE and               *)
(* NCCL_NET_FORCE_FLUSH (or none) that moves to the next block.           *)
LEMMA WriteStep ==
  ASSUME InitInv,
         NEW w \in EnvVars \ {"NCCL_NVLS_ENABLE", "NCCL_NET_FORCE_FLUSH"},
         NEW x \in PluginValues,
         env' = env \/ env' = [env EXCEPT ![w] = x],
         UNCHANGED <<inputs, provider_filter, select_efa, tunables, ret>>,
         \/ step = "start" /\ step' = "fork"
         \/ step = "fork" /\ step' = "nvls"
         \/ step = "chunks" /\ step' = "topo"
         \/ step = "topo" /\ step' = "tunables"
  PROVE  InitInv'
<1>1. env' \in [EnvVars -> EnvValues]
  BY PluginValuesDistinct DEF InitInv, TypeOK
<1>2. /\ env'["NCCL_NVLS_ENABLE"] = env["NCCL_NVLS_ENABLE"]
      /\ env'["NCCL_NET_FORCE_FLUSH"] = env["NCCL_NET_FORCE_FLUSH"]
  BY DEF InitInv, TypeOK
<1>3. PastNvls' = PastNvls /\ step # "done" /\ step' # "done"
  BY DEF PastNvls
<1>4. QED
  BY <1>1, <1>2, <1>3 DEF InitInv, TypeOK, InitialTunables, inputs,
     tunables, FlushDisabledOnlyWhereUnneeded, NvlsDisableNeeded,
     TunablesOutcome


(* InitInv is inductive: one step per block of platform_init.             *)
LEMMA InitStep == InitInv /\ [Next]_vars => InitInv'
<1> SUFFICES ASSUME InitInv, [Next]_vars PROVE InitInv'
  OBVIOUS
<1>0. /\ env \in [EnvVars -> EnvValues]
      /\ data \in 0..Len(platform_data_map)
  BY DEF InitInv, TypeOK
<1>1. CASE ChooseProvider
  <2>1. provider_filter' \in {NoFilter, "efa"} /\ select_efa' \in BOOLEAN
    BY <1>1 DEF ChooseProvider, InitInv, TypeOK
  <2>2. QED
    BY <1>1, <2>1, PluginValuesDistinct DEF ChooseProvider, InitInv, TypeOK,
       InitialTunables, PastNvls, inputs, tunables,
       FlushDisabledOnlyWhereUnneeded, NvlsDisableNeeded, TunablesOutcome
<1>2. CASE SetForkSafe
  <2>1. ForkSafeVar \in EnvVars \ {"NCCL_NVLS_ENABLE", "NCCL_NET_FORCE_FLUSH"}
    BY DEF ForkSafeVar
  <2>2. "1" \in PluginValues
    BY PluginValuesDistinct
  <2>3. CASE env[ForkSafeVar] = Unset
    <3>1. PICK ok \in SetenvOutcomes :
            IF ok THEN /\ env' = [env EXCEPT ![ForkSafeVar] = "1"]
                       /\ step' = "nvls" /\ UNCHANGED ret
                  ELSE /\ Fail("fork_safe") /\ UNCHANGED env
      BY <1>2, <2>3 DEF SetForkSafe
    <3>2. CASE ok
      BY <1>2, <2>1, <2>2, <3>1, <3>2, WriteStep DEF SetForkSafe
    <3>3. CASE ~ok
      BY <1>2, <2>1, <2>2, <3>1, <3>3, FailStep DEF SetForkSafe
    <3>4. QED
      BY <3>2, <3>3
  <2>4. CASE env[ForkSafeVar] # Unset
    BY <1>2, <2>1, <2>2, <2>4, WriteStep DEF SetForkSafe
  <2>5. QED
    BY <2>3, <2>4
<1>3. CASE ConfigureNvls
  <2> USE DEF InitInv, TypeOK, InitialTunables, PastNvls, inputs, tunables,
              FlushDisabledOnlyWhereUnneeded, TunablesOutcome
  <2>1. CASE env["NCCL_NVLS_ENABLE"] = Unset /\ nccl_version # NoSymbol
    <3>1. PICK version_ok, ok \in SetenvOutcomes :
            \/ ~version_ok /\ Fail("nvls") /\ UNCHANGED env
            \/ version_ok /\ NvlsDisableNeeded /\ ~ok
               /\ Fail("nvls") /\ UNCHANGED env
            \/ version_ok /\ NvlsDisableNeeded /\ ok
               /\ env' = [env EXCEPT !["NCCL_NVLS_ENABLE"] = "0"]
               /\ step' = "flush" /\ UNCHANGED ret
            \/ version_ok /\ ~NvlsDisableNeeded
               /\ step' = "flush" /\ UNCHANGED <<env, ret>>
      BY <1>3, <2>1 DEF ConfigureNvls
    <3>2. UNCHANGED <<inputs, provider_filter, select_efa, tunables>> /\ step = "nvls"
      BY <1>3 DEF ConfigureNvls
    <3>3. CASE Fail("nvls") /\ UNCHANGED env
      <4>1. /\ "FI_PROVIDER" \in EnvVars \ {"NCCL_NVLS_ENABLE", "NCCL_NET_FORCE_FLUSH"}
            /\ "0" \in PluginValues
        BY PluginValuesDistinct
      <4>2. QED
        BY <3>2, <3>3, <4>1, FailStep
    <3>4. CASE /\ NvlsDisableNeeded
               /\ env' = [env EXCEPT !["NCCL_NVLS_ENABLE"] = "0"]
               /\ step' = "flush" /\ UNCHANGED ret
      <4>1. "0" \in PluginValues
        BY PluginValuesDistinct
      <4>2. QED
        BY <1>0, <3>2, <3>4, <4>1, PluginValuesDistinct
           DEF NvlsDisableNeeded
    <3>5. CASE ~NvlsDisableNeeded /\ step' = "flush" /\ UNCHANGED <<env, ret>>
      BY <3>2, <3>5 DEF NvlsDisableNeeded
    <3>6. QED
      BY <3>1, <3>3, <3>4, <3>5
  <2>2. CASE ~(env["NCCL_NVLS_ENABLE"] = Unset /\ nccl_version # NoSymbol)
    <3>1. step' = "flush" /\ UNCHANGED <<env, ret>> /\ step = "nvls"
          /\ UNCHANGED <<inputs, provider_filter, select_efa, tunables>>
      BY <1>3, <2>2 DEF ConfigureNvls
    <3>2. QED
      BY <2>2, <3>1 DEF NvlsDisableNeeded
  <2>3. QED
    BY <2>1, <2>2
<1>4. CASE DisableForceFlush
  <2> USE DEF InitInv, TypeOK, InitialTunables, PastNvls, inputs, tunables,
              FlushDisabledOnlyWhereUnneeded, TunablesOutcome, NvlsDisableNeeded
  <2>1. UNCHANGED <<inputs, provider_filter, select_efa, tunables>> /\ step = "flush"
    BY <1>4 DEF DisableForceFlush
  <2>2. CASE FlushNotRequired /\ env["NCCL_NET_FORCE_FLUSH"] = Unset
    <3>1. PICK ok \in SetenvOutcomes :
            IF ok THEN /\ env' = [env EXCEPT !["NCCL_NET_FORCE_FLUSH"] = "0"]
                       /\ step' = "chunks" /\ UNCHANGED ret
                  ELSE /\ Fail("force_flush") /\ UNCHANGED env
      BY <1>4, <2>2 DEF DisableForceFlush
    <3>2. CASE ok
      <4>1. env' = [env EXCEPT !["NCCL_NET_FORCE_FLUSH"] = "0"]
            /\ step' = "chunks" /\ UNCHANGED ret
        BY <3>1, <3>2
      <4>2. QED
        BY <1>0, <2>1, <2>2, <4>1, PluginValuesDistinct
           DEF FlushNotRequired, PlatformEntry
    <3>3. CASE ~ok
      BY <2>1, <3>1, <3>3 DEF Fail
    <3>4. QED
      BY <3>2, <3>3
  <2>3. CASE ~(FlushNotRequired /\ env["NCCL_NET_FORCE_FLUSH"] = Unset)
    <3>1. step' = "chunks" /\ UNCHANGED <<env, ret>>
      BY <1>4, <2>3 DEF DisableForceFlush
    <3>2. QED
      BY <2>1, <3>1
  <2>4. QED
    BY <2>2, <2>3
<1>5. CASE SetChunkSizes
  <2>1. PICK ok1, ok2 \in SetenvOutcomes :
          \/ ~ok1 /\ Fail("nvlstree_chunksize") /\ UNCHANGED env
          \/ ok1 /\ ~ok2
             /\ env' = DefaultIfUnset(env, "NCCL_NVLSTREE_MAX_CHUNKSIZE")
             /\ Fail("nvls_chunksize")
          \/ ok1 /\ ok2
             /\ env' = DefaultIfUnset(DefaultIfUnset(env,
                          "NCCL_NVLSTREE_MAX_CHUNKSIZE"), "NCCL_NVLS_CHUNKSIZE")
             /\ step' = "topo" /\ UNCHANGED ret
    BY <1>5 DEF SetChunkSizes
  <2>2. UNCHANGED <<inputs, provider_filter, select_efa, tunables>> /\ step = "chunks"
    BY <1>5 DEF SetChunkSizes
  <2>3. "524288" \in PluginValues
    BY PluginValuesDistinct
  <2>4. CASE ~ok1
    <3>1. Fail("nvlstree_chunksize") /\ UNCHANGED env
      BY <2>1, <2>4
    <3>2. QED
      BY <2>2, <2>3, <3>1, FailStep
  <2>5. CASE ok1 /\ ~ok2
    <3>1. env' = DefaultIfUnset(env, "NCCL_NVLSTREE_MAX_CHUNKSIZE")
          /\ Fail("nvls_chunksize")
      BY <2>1, <2>5
    <3>2. env' = env \/ env' = [env EXCEPT !["NCCL_NVLSTREE_MAX_CHUNKSIZE"] = "524288"]
      BY <3>1 DEF DefaultIfUnset
    <3>3. QED
      BY <2>2, <2>3, <3>1, <3>2, FailStep
  <2>6. CASE ok1 /\ ok2
    \* two writes: take them one at a time through an intermediate state
    <3>1. env' = DefaultIfUnset(DefaultIfUnset(env,
                   "NCCL_NVLSTREE_MAX_CHUNKSIZE"), "NCCL_NVLS_CHUNKSIZE")
          /\ step' = "topo" /\ UNCHANGED ret
      BY <2>1, <2>6
    <3>2. DEFINE mid == DefaultIfUnset(env, "NCCL_NVLSTREE_MAX_CHUNKSIZE")
    <3>3. mid \in [EnvVars -> EnvValues]
          /\ mid["NCCL_NVLS_ENABLE"] = env["NCCL_NVLS_ENABLE"]
          /\ mid["NCCL_NET_FORCE_FLUSH"] = env["NCCL_NET_FORCE_FLUSH"]
      BY <1>0, <2>3, PluginValuesDistinct DEF DefaultIfUnset
    <3>4. /\ env' \in [EnvVars -> EnvValues]
          /\ env'["NCCL_NVLS_ENABLE"] = env["NCCL_NVLS_ENABLE"]
          /\ env'["NCCL_NET_FORCE_FLUSH"] = env["NCCL_NET_FORCE_FLUSH"]
      BY <3>1, <3>3, <2>3, PluginValuesDistinct DEF DefaultIfUnset
    <3>5. QED
      BY <2>2, <3>1, <3>4 DEF InitInv, TypeOK, InitialTunables, PastNvls,
         inputs, tunables, FlushDisabledOnlyWhereUnneeded, NvlsDisableNeeded,
         TunablesOutcome
  <2>7. QED
    BY <2>4, <2>5, <2>6
<1>6. CASE SetTopology
  <2>1. UNCHANGED <<inputs, provider_filter, select_efa, tunables>> /\ step = "topo"
    BY <1>6 DEF SetTopology
  <2>2. CASE env["NCCL_TOPO_FILE"] = Unset /\ data # 0
             /\ PlatformEntry.topology # NoTopology
    <3>1. PlatformEntry.topology \in PluginValues
      BY <1>0, <2>2, TopologyValue
    <3>2. PICK ok \in SetenvOutcomes :
            IF ok THEN /\ env' = [env EXCEPT !["NCCL_TOPO_FILE"] = PlatformEntry.topology]
                       /\ step' = "tunables" /\ UNCHANGED ret
                  ELSE /\ Fail("topo_file") /\ UNCHANGED env
      BY <1>6, <2>2 DEF SetTopology
    <3>3. CASE ok
      BY <2>1, <3>1, <3>2, <3>3, WriteStep
    <3>4. CASE ~ok
      BY <2>1, <3>1, <3>2, <3>4, FailStep
    <3>5. QED
      BY <3>3, <3>4
  <2>3. CASE ~(env["NCCL_TOPO_FILE"] = Unset /\ data # 0
               /\ PlatformEntry.topology # NoTopology)
    <3>1. step' = "tunables" /\ UNCHANGED <<env, ret>>
      BY <1>6, <2>3 DEF SetTopology
    <3>2. QED
      BY <2>1, <3>1, PluginValuesDistinct, WriteStep
  <2>4. QED
    BY <2>2, <2>3
<1>7. CASE ResolveTunables
  <2> USE DEF InitInv, TypeOK, InitialTunables, PastNvls, inputs, tunables,
              FlushDisabledOnlyWhereUnneeded, TunablesOutcome, NvlsDisableNeeded
  <2>1. step = "tunables" /\ step' = "done" /\ UNCHANGED <<env, inputs, ret>>
    BY <1>7 DEF ResolveTunables
  <2>2. ret = "ok" /\ InitialTunables
    BY <2>1
  <2>3. data # 0 => /\ PlatformEntry.default_dup_conns \in Nat
                    /\ PlatformEntry.latency \in Nat
                    /\ PlatformEntry.domain_per_thread \in {0, 1}
    BY <1>0, CatalogValues DEF PlatformEntry
  <2>4. /\ nic_dup_conns' \in Nat
        /\ dup_param # 0 => nic_dup_conns' = dup_param
    BY <1>7, <2>2, <2>3 DEF ResolveTunables, DupConnsAfter
  <2>5. /\ net_latency' \in Int
        /\ latency_param >= 0 => net_latency' = latency_param
    BY <1>7, <2>2, <2>3 DEF ResolveTunables, LatencyAfter
  <2>6. protocol_param # NoProtocol => selected_protocol' = protocol_param
    BY <1>7, <2>2 DEF ResolveTunables, ProtocolAfter
  <2>7. /\ domain_per_thread' \in {0, 1}
        /\ domain_param # -1 => domain_per_thread' = domain_param
    BY <1>7, <2>2, <2>3 DEF ResolveTunables, DomainAfter
  <2>8. QED
    BY <1>7, <2>1, <2>4, <2>5, <2>6, <2>7 DEF ResolveTunables
<1>8. CASE Returned \/ UNCHANGED vars
  BY <1>8 DEF Returned, vars, InitInv, TypeOK, InitialTunables, PastNvls,
     inputs, tunables, FlushDisabledOnlyWhereUnneeded, NvlsDisableNeeded,
     TunablesOutcome
<1>9. QED
  BY <1>1, <1>2, <1>3, <1>4, <1>5, <1>6, <1>7, <1>8 DEF Next

-----------------------------------------------------------------------------
(* NCCL_NET_FORCE_FLUSH is defaulted to 0 only on a known platform whose  *)
(* entry needs no network flush, for every catalogue index, environment   *)
(* and setenv outcome (platform_init, lines 477-496).                     *)
THEOREM FlushOnlyWhereUnneeded == Spec => []FlushDisabledOnlyWhereUnneeded
<1>1. InitInv => FlushDisabledOnlyWhereUnneeded
  BY DEF InitInv
<1>2. QED
  BY <1>1, InitHolds, InitStep, PTL DEF Spec

(* After a successful platform_init, NCCL_NVLS_ENABLE is 0 exactly when   *)
(* the user left it unset and ncclGetVersion reported a version before    *)
(* 2.18.5 (configure_nvls_option, lines 349-391), for every version.      *)
THEOREM NvlsDecided == Spec => []NvlsDecision
<1>1. ASSUME InitInv PROVE NvlsDecision
  <2> SUFFICES ASSUME step = "done", ret = "ok"
               PROVE  env["NCCL_NVLS_ENABLE"] = "0" <=>
                        /\ env["NCCL_NVLS_ENABLE"] # User
                        /\ nccl_version \in Nat /\ nccl_version < NvlsFixedVersion
    BY DEF NvlsDecision
  <2>1. PastNvls
    BY DEF PastNvls
  <2>2. "0" \notin {Unset, User}
    BY PluginValuesDistinct
  <2>3. NvlsDisableNeeded <=> nccl_version \in Nat /\ nccl_version < NvlsFixedVersion
    BY <1>1, NcclVersionsAssumption DEF InitInv, NvlsDisableNeeded
  <2>4. QED
    BY <1>1, <2>1, <2>2, <2>3 DEF InitInv
<1>2. QED
  BY <1>1, InitHolds, InitStep, PTL DEF Spec

(* A failed platform_init leaves every tunable as it was, and a           *)
(* successful one keeps each parameter the user set (lines 563-589), for  *)
(* every catalogue entry and every user setting.                          *)
THEOREM TunablesKept == Spec => []TunablesOutcome
<1>1. InitInv => TunablesOutcome
  BY DEF InitInv
<1>2. QED
  BY <1>1, InitHolds, InitStep, PTL DEF Spec

(* Every variable of platform_init keeps its type along every run: the   *)
(* environment maps each variable to a value the plugin or the user may   *)
(* write, and the catalogue index, the tunables and the step stay in      *)
(* their ranges, for every catalogue, NCCL version and setenv outcome.    *)
THEOREM InitTypeCorrect == Spec => []TypeOK
<1>1. InitInv => TypeOK
  BY DEF InitInv
<1>2. QED
  BY <1>1, InitHolds, InitStep, PTL DEF Spec

(* The two chunk-size defaults keep every set variable.                   *)
LEMMA DefaultKeepsSet ==
  ASSUME NEW e \in [EnvVars -> EnvValues], NEW w \in EnvVars,
         NEW v \in EnvVars, e[v] # Unset
  PROVE  /\ DefaultIfUnset(e, w) \in [EnvVars -> EnvValues]
         /\ DefaultIfUnset(e, w)[v] = e[v]
<1>1. "524288" \in EnvValues
  BY PluginValuesDistinct
<1>2. QED
  BY <1>1 DEF DefaultIfUnset

(* platform_init never overwrites an environment variable that is set,    *)
(* whatever the user exported: every setenv(..., 1) is behind a getenv()  *)
(* check and the chunk sizes use setenv(..., 0).                          *)
THEOREM OverridesKept == Spec => OverridesNeverChanged
<1> DEFINE Kept == \A v \in EnvVars : env[v] # Unset => env'[v] = env[v]
<1>1. ASSUME InitInv, [Next]_vars PROVE Kept
  <2> SUFFICES ASSUME NEW v \in EnvVars, env[v] # Unset PROVE env'[v] = env[v]
    OBVIOUS
  <2>0. env \in [EnvVars -> EnvValues]
    BY <1>1 DEF InitInv, TypeOK
  <2>1. CASE ChooseProvider
    BY <2>1 DEF ChooseProvider
  <2>2. CASE SetForkSafe
    BY <2>0, <2>2 DEF SetForkSafe
  <2>3. CASE ConfigureNvls
    BY <2>0, <2>3 DEF ConfigureNvls
  <2>4. CASE DisableForceFlush
    BY <2>0, <2>4 DEF DisableForceFlush
  <2>5. CASE SetChunkSizes
    <3>1. DEFINE mid == DefaultIfUnset(env, "NCCL_NVLSTREE_MAX_CHUNKSIZE")
    <3>2. mid \in [EnvVars -> EnvValues] /\ mid[v] = env[v]
      BY <2>0, DefaultKeepsSet
    <3>3. DefaultIfUnset(mid, "NCCL_NVLS_CHUNKSIZE")[v] = env[v]
      BY <3>2, DefaultKeepsSet
    <3>4. QED
      BY <2>0, <2>5, <3>2, <3>3 DEF SetChunkSizes
  <2>6. CASE SetTopology
    BY <2>0, <2>6 DEF SetTopology
  <2>7. CASE ResolveTunables \/ Returned \/ UNCHANGED vars
    BY <2>7 DEF ResolveTunables, Returned, vars
  <2>8. QED
    BY <1>1, <2>1, <2>2, <2>3, <2>4, <2>5, <2>6, <2>7 DEF Next
<1>2. QED
  BY <1>1, InitHolds, InitStep, PTL DEF Spec, OverridesNeverChanged

=============================================================================
