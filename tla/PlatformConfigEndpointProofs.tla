--------------------- MODULE PlatformConfigEndpointProofs ---------------------
(***************************************************************************)
(* Proofs about PlatformConfigEndpoint for every set of threads, every     *)
(* bound on the calls and every set of protocols and platform types.       *)
(***************************************************************************)
EXTENDS PlatformConfigEndpoint, TLAPS

USE DEF SetoptResults, NcclProtoValues, PcValues, EndpointRecords


-----------------------------------------------------------------------------
(* Each step of Negotiate keeps NCCL_PROTO among its values.              *)
LEMMA ProtoAfterType ==
  ASSUME TypeOK, NEW setopt \in SetoptResults, NEW setenv_ok \in SetenvResults
  PROVE  ProtoAfter(setopt, setenv_ok) \in NcclProtoValues
BY SetenvAssumption DEF TypeOK, ProtoAfter, NcclProtoAfter

LEMMA InitType == Init => TypeOK
<1> SUFFICES ASSUME Init PROVE TypeOK
  OBVIOUS
<1>1. pc \in [Threads -> PcValues] /\ eps \subseteq EndpointRecords
  BY DEF Init
<1>2. calls \in 0..MaxCalls
  BY MaxCallsAssumption DEF Init
<1>3. QED
  BY <1>1, <1>2 DEF Init, TypeOK

(* The process-wide inputs chosen in Init are never changed, and every    *)
(* variable keeps its type: TypeOK is inductive.                          *)
LEMMA TypeStep == TypeOK /\ [Next]_vars => TypeOK'
<1> SUFFICES ASSUME TypeOK, [Next]_vars PROVE TypeOK'
  OBVIOUS
<1>1. ASSUME NEW t \in Threads, Start(t) PROVE TypeOK'
  BY <1>1, MaxCallsAssumption DEF Start, TypeOK
<1>2. ASSUME NEW t \in Threads, Acquire(t) PROVE TypeOK'
  BY <1>2 DEF Acquire, TypeOK
<1>3. ASSUME NEW t \in Threads, Negotiate(t) PROVE TypeOK'
  <2>1. PICK setopt \in SetoptResults, maxmsg \in SetoptResults,
             setenv_ok \in SetenvResults :
          /\ nccl_proto_configured' = (Configured0 \/ First(setopt))
          /\ need_ordering' = IF First(setopt) THEN Have(setopt) ELSE Need0
          /\ nccl_proto' = ProtoAfter(setopt, setenv_ok)
          /\ eps' = IF CallOk(setopt, maxmsg, setenv_ok)
                    THEN eps \cup {[ordered |-> Have(setopt),
                                    proto |-> ProtoAfter(setopt, setenv_ok)]}
                    ELSE eps
          /\ Release(t, CallOk(setopt, maxmsg, setenv_ok))
    BY <1>3 DEF Negotiate
  <2>2. ProtoAfter(setopt, setenv_ok) \in NcclProtoValues
    BY ProtoAfterType
  <2>3. eps' \subseteq EndpointRecords
    <3>1. [ordered |-> Have(setopt), proto |-> ProtoAfter(setopt, setenv_ok)]
            \in EndpointRecords
      BY <2>2 DEF Have
    <3>2. QED
      BY <2>1, <3>1 DEF TypeOK
  <2>4. pc' \in [Threads -> PcValues] /\ mutex' \in Threads \cup {NoThread}
    BY <2>1 DEF TypeOK, Release
  <2>5. nccl_proto_configured' \in BOOLEAN /\ need_ordering' \in BOOLEAN
    BY <2>1 DEF Configured0, First, Have, Need0, TypeOK
  <2>6. UNCHANGED <<conf, calls, crashed>>
    BY <1>3 DEF Negotiate
  <2>7. QED
    BY <2>1, <2>2, <2>3, <2>4, <2>5, <2>6 DEF TypeOK
<1>4. ASSUME NEW t \in Threads, CrashOnNullPlatformType(t) PROVE TypeOK'
  BY <1>4 DEF CrashOnNullPlatformType, TypeOK
<1>5. CASE Terminated \/ UNCHANGED vars
  BY <1>5 DEF Terminated, vars, TypeOK
<1>6. QED
  BY <1>1, <1>2, <1>3, <1>4, <1>5 DEF Next

(* Every reachable state is well typed.                                   *)
THEOREM TypeCorrect == Spec => []TypeOK
BY InitType, TypeStep, PTL DEF Spec


-----------------------------------------------------------------------------
(* The effect of one Negotiate step, its transport answers named.         *)
LEMMA NegotiateStep ==
  ASSUME NEW t \in Threads, Negotiate(t)
  PROVE  \E setopt \in SetoptResults, maxmsg \in SetoptResults,
            setenv_ok \in SetenvResults :
           /\ nccl_proto_configured' = (Configured0 \/ First(setopt))
           /\ need_ordering' = IF First(setopt) THEN Have(setopt) ELSE Need0
           /\ nccl_proto' = ProtoAfter(setopt, setenv_ok)
           /\ eps' = IF CallOk(setopt, maxmsg, setenv_ok)
                     THEN eps \cup {[ordered |-> Have(setopt),
                                     proto |-> ProtoAfter(setopt, setenv_ok)]}
                     ELSE eps
BY DEF Negotiate

(* AgreeInv is inductive: the first successful configuration fixes        *)
(* need_ordering to what its endpoint got, and a later endpoint is handed *)
(* out only if it reproduces need_ordering.                               *)
LEMMA AgreeStep == AgreeInv /\ [Next]_vars => AgreeInv'
<1> SUFFICES ASSUME AgreeInv, [Next]_vars PROVE AgreeInv'
  OBVIOUS
<1> USE DEF AgreeInv, NeedImpliesConfigured, EpsImplyConfigured, EpsMatchNeed
<1>0. TypeOK'
  BY TypeStep
<1>1. ASSUME NEW t \in Threads, Negotiate(t) PROVE AgreeInv'
  <2>1. PICK setopt \in SetoptResults, maxmsg \in SetoptResults,
             setenv_ok \in SetenvResults :
          /\ nccl_proto_configured' = (Configured0 \/ First(setopt))
          /\ need_ordering' = IF First(setopt) THEN Have(setopt) ELSE Need0
          /\ eps' = IF CallOk(setopt, maxmsg, setenv_ok)
                    THEN eps \cup {[ordered |-> Have(setopt),
                                    proto |-> ProtoAfter(setopt, setenv_ok)]}
                    ELSE eps
    BY <1>1, NegotiateStep
  <2>2. CASE First(setopt)
    \* the first configuration: no endpoint was handed out before it
    <3>1. eps = {}
      BY <2>2 DEF First, Configured0
    <3>2. nccl_proto_configured'
      BY <2>1, <2>2
    <3>3. need_ordering' = Have(setopt)
      BY <2>1, <2>2
    <3>4. \A e \in eps' : e.ordered = Have(setopt)
      BY <2>1, <3>1
    <3>5. QED
      BY <1>0, <3>2, <3>3, <3>4
  <2>3. CASE ~First(setopt)
    <3>1. need_ordering' = Need0 /\ nccl_proto_configured' = Configured0
      BY <2>1, <2>3 DEF Configured0
    <3>2. CallOk(setopt, maxmsg, setenv_ok) => Configured0 /\ Have(setopt) = Need0
      BY <2>3 DEF CallOk, InorderOk, First, Tried, Have, HaveOrdering, Need0,
                  Configured0, TypeOK
    <3>3. Need0 => Configured0
      BY DEF Need0, Configured0
    <3>4. \A e \in eps : e.ordered = Need0
      BY DEF Need0, Configured0, TypeOK
    <3>5. eps' # {} => nccl_proto_configured'
      BY <2>1, <3>1, <3>2, <3>4 DEF Need0, Configured0
    <3>6. \A e \in eps' : e.ordered = need_ordering'
      BY <2>1, <3>1, <3>2, <3>4
    <3>7. QED
      BY <1>0, <3>1, <3>3, <3>5, <3>6
  <2>4. QED
    BY <2>2, <2>3
<1>2. ASSUME NEW t \in Threads,
             Start(t) \/ Acquire(t) \/ CrashOnNullPlatformType(t)
      PROVE  AgreeInv'
  BY <1>0, <1>2 DEF Start, Acquire, CrashOnNullPlatformType
<1>3. CASE Terminated \/ UNCHANGED vars
  BY <1>0, <1>3 DEF Terminated, vars
<1>4. QED
  BY <1>1, <1>2, <1>3 DEF Next

LEMMA AgreeInit == Init => AgreeInv
BY InitType DEF Init, AgreeInv, NeedImpliesConfigured, EpsImplyConfigured,
                EpsMatchNeed

(* All EFA endpoints platform_config_endpoint hands out agree on in-order *)
(* delivery, for any number of threads and calls and any answers of the   *)
(* transport.                                                              *)
THEOREM EndpointsAgree == Spec => []AllEndpointsAgree
<1>1. AgreeInv => AllEndpointsAgree
  BY DEF AgreeInv, EpsMatchNeed, AllEndpointsAgree
<1>2. QED
  BY <1>1, AgreeInit, AgreeStep, PTL DEF Spec


-----------------------------------------------------------------------------
(* ProtoInv is inductive when setenv() does not fail: NCCL_PROTO changes  *)
(* only in the first configuration, before any endpoint is handed out,    *)
(* and a first configuration without ordering sets it.                    *)
LEMMA ProtoStep ==
  ASSUME SetenvResults = {TRUE}
  PROVE  ProtoInv /\ [Next]_vars => ProtoInv'
<1> SUFFICES ASSUME ProtoInv, [Next]_vars PROVE ProtoInv'
  OBVIOUS
<1> USE DEF ProtoInv, EpsSawCurrentProto, UnorderedDomainHasProto
<1>0. AgreeInv'
  BY AgreeStep
<1>1. ASSUME NEW t \in Threads, Negotiate(t) PROVE ProtoInv'
  <2>1. PICK setopt \in SetoptResults, maxmsg \in SetoptResults,
             setenv_ok \in SetenvResults :
          /\ nccl_proto_configured' = (Configured0 \/ First(setopt))
          /\ need_ordering' = IF First(setopt) THEN Have(setopt) ELSE Need0
          /\ nccl_proto' = ProtoAfter(setopt, setenv_ok)
          /\ eps' = IF CallOk(setopt, maxmsg, setenv_ok)
                    THEN eps \cup {[ordered |-> Have(setopt),
                                    proto |-> ProtoAfter(setopt, setenv_ok)]}
                    ELSE eps
    BY <1>1, NegotiateStep
  <2>2. UNCHANGED conf
    BY <1>1 DEF Negotiate
  <2>3. setenv_ok = TRUE
    OBVIOUS
  <2>4. \A e \in eps' : e.proto = nccl_proto'
    <3>1. eps' \subseteq eps \cup {[ordered |-> Have(setopt),
                                   proto |-> ProtoAfter(setopt, setenv_ok)]}
      BY <2>1
    <3>2. CASE ForceProto(setopt)
      \* only the first configuration changes NCCL_PROTO; eps was empty
      <4>1. ~nccl_proto_configured
        BY <3>2, Zenon DEF ForceProto, First, Configured0
      <4>2. eps = {}
        BY <4>1 DEF AgreeInv, EpsImplyConfigured
      <4>3. \A e \in eps' : e = [ordered |-> Have(setopt),
                                  proto |-> ProtoAfter(setopt, setenv_ok)]
        BY <3>1, <4>2
      <4>4. [ordered |-> Have(setopt),
             proto |-> ProtoAfter(setopt, setenv_ok)].proto
              = ProtoAfter(setopt, setenv_ok)
        OBVIOUS
      <4>5. QED
        BY <2>1, <4>3, <4>4, Zenon
    <3>3. CASE ~ForceProto(setopt)
      <4>1. nccl_proto' = nccl_proto
        BY <2>1, <3>3 DEF ProtoAfter
      <4>2. [ordered |-> Have(setopt),
             proto |-> ProtoAfter(setopt, setenv_ok)].proto
              = ProtoAfter(setopt, setenv_ok)
        OBVIOUS
      <4>3. \A e \in eps : e.proto = nccl_proto'
        BY <4>1
      <4>4. QED
        BY <2>1, <3>1, <4>2, <4>3, Zenon
    <3>4. QED
      BY <3>2, <3>3
  <2>5. (nccl_proto_configured' /\ ~need_ordering' /\ ~P5RdmaExempt')
          => nccl_proto' # "unset"
    <3>1. CASE First(setopt)
      <4>1. ~need_ordering' => ForceProto(setopt)
        BY <2>1, <3>1 DEF ForceProto
      <4>2. ForceProto(setopt) => nccl_proto' # "unset"
        BY <2>1, <2>3 DEF ProtoAfter, NcclProtoAfter
      <4>3. QED
        BY <4>1, <4>2
    <3>2. CASE ~First(setopt) /\ P5Skip /\ ~nccl_proto_configured
      BY <2>2, <3>2 DEF P5Skip, P5CheckReached, P5RdmaExempt
    <3>3. CASE ~First(setopt) /\ ~(P5Skip /\ ~nccl_proto_configured)
      <4>1. nccl_proto' = nccl_proto
        BY <2>1, <3>3 DEF ForceProto, ProtoAfter
      <4>2. nccl_proto_configured' = nccl_proto_configured
        BY <2>1, <3>3 DEF Configured0, TypeOK, AgreeInv
      <4>3. need_ordering' = need_ordering
        BY <2>1, <3>3 DEF Need0
      <4>4. QED
        BY <2>2, <4>1, <4>2, <4>3 DEF P5RdmaExempt
    <3>4. QED
      BY <3>1, <3>2, <3>3
  <2>6. QED
    BY <1>0, <2>4, <2>5
<1>2. ASSUME NEW t \in Threads,
             Start(t) \/ Acquire(t) \/ CrashOnNullPlatformType(t)
      PROVE  ProtoInv'
  BY <1>0, <1>2 DEF Start, Acquire, CrashOnNullPlatformType, P5RdmaExempt
<1>3. CASE Terminated \/ UNCHANGED vars
  BY <1>0, <1>3 DEF Terminated, vars, P5RdmaExempt
<1>4. QED
  BY <1>1, <1>2, <1>3 DEF Next

(* When setenv("NCCL_PROTO") cannot fail, an EFA endpoint without in-order *)
(* delivery is only handed out with NCCL_PROTO set, or on P5 with RDMA,    *)
(* for any number of threads and calls and any answers of the transport.   *)
THEOREM UnorderedEndpointsHaveProto ==
  ASSUME SetenvResults = {TRUE}
  PROVE  Spec => []UnorderedEndpointImpliesProtoSet
<1>1. Init => ProtoInv
  BY AgreeInit DEF Init, ProtoInv, EpsSawCurrentProto, UnorderedDomainHasProto
<1>2. ProtoInv => UnorderedEndpointImpliesProtoSet
  BY DEF ProtoInv, AgreeInv, EpsMatchNeed, EpsImplyConfigured,
         EpsSawCurrentProto, UnorderedDomainHasProto,
         UnorderedEndpointImpliesProtoSet
<1>3. ProtoInv /\ [Next]_vars => ProtoInv'
  BY ProtoStep
<1>4. QED
  BY <1>1, <1>2, <1>3, PTL DEF Spec


-----------------------------------------------------------------------------
(* Steps only add endpoints to the history, and once the first            *)
(* configuration is recorded neither static boolean changes again.        *)
LEMMA RecordStable ==
  ASSUME TypeOK, [Next]_vars
  PROVE  /\ eps \subseteq eps'
         /\ nccl_proto_configured => /\ nccl_proto_configured'
                                    /\ need_ordering' = need_ordering
<1>1. ASSUME NEW t \in Threads, Negotiate(t)
      PROVE  /\ eps \subseteq eps'
             /\ nccl_proto_configured => /\ nccl_proto_configured'
                                        /\ need_ordering' = need_ordering
  <2>1. PICK setopt \in SetoptResults, maxmsg \in SetoptResults,
             setenv_ok \in SetenvResults :
          /\ nccl_proto_configured' = (Configured0 \/ First(setopt))
          /\ need_ordering' = IF First(setopt) THEN Have(setopt) ELSE Need0
          /\ eps' = IF CallOk(setopt, maxmsg, setenv_ok)
                    THEN eps \cup {[ordered |-> Have(setopt),
                                    proto |-> ProtoAfter(setopt, setenv_ok)]}
                    ELSE eps
    BY <1>1, NegotiateStep
  <2>2. eps \subseteq eps'
    BY <2>1
  <2>3. nccl_proto_configured => ~First(setopt) /\ Need0 = need_ordering
    BY DEF First, Configured0, Need0
  <2>4. QED
    BY <2>1, <2>2, <2>3 DEF Configured0
<1>2. ASSUME NEW t \in Threads,
             Start(t) \/ Acquire(t) \/ CrashOnNullPlatformType(t)
      PROVE  /\ eps \subseteq eps'
             /\ nccl_proto_configured => /\ nccl_proto_configured'
                                        /\ need_ordering' = need_ordering
  BY <1>2 DEF Start, Acquire, CrashOnNullPlatformType
<1>3. CASE Terminated \/ UNCHANGED vars
  BY <1>3 DEF Terminated, vars
<1>4. QED
  BY <1>1, <1>2, <1>3 DEF Next

(* The mapped settings are never "undecided".                             *)
LEMMA SettingIsDecided ==
  ASSUME NEW b \in BOOLEAN
  PROVE  Setting(b) \in Ordering!Settings /\ Setting(b) # Ordering!Undecided
BY DEF Setting, Ordering!Settings, Ordering!Undecided

(* Every step of the negotiator is a step of EndpointOrdering or leaves   *)
(* the decision and the handed-out settings unchanged.                    *)
LEMMA RefinementStep ==
  AgreeInv /\ [Next]_vars => [Ordering!Next]_Ordering!vars
<1> SUFFICES ASSUME AgreeInv, [Next]_vars
             PROVE  [Ordering!Next]_Ordering!vars
  OBVIOUS
<1> USE DEF AgreeInv, NeedImpliesConfigured, EpsImplyConfigured, EpsMatchNeed
<1>1. AgreeInv'
  BY AgreeStep
<1>2. /\ eps \subseteq eps'
      /\ nccl_proto_configured => /\ nccl_proto_configured'
                                 /\ need_ordering' = need_ordering
  BY RecordStable
<1>3. Handed' \subseteq {Setting(need_ordering')}
  BY <1>1 DEF Handed
<1>4. CASE nccl_proto_configured
  <2>1. Decision' = Decision /\ Decision = Setting(need_ordering)
    BY <1>2, <1>4 DEF Decision
  <2>2. Handed \subseteq Handed'
    BY <1>2 DEF Handed
  <2>3. Handed' \subseteq {Decision}
    BY <1>2, <1>3, <1>4, <2>1
  <2>4. Decision # Ordering!Undecided
    BY <2>1, SettingIsDecided DEF TypeOK
  <2>5. CASE Handed' = Handed
    BY <2>1, <2>5 DEF Ordering!vars
  <2>6. CASE Handed' # Handed
    <3>1. Handed' = Handed \cup {Decision}
      BY <2>2, <2>3, <2>6
    <3>2. Ordering!HandOut
      BY <2>1, <2>4, <3>1 DEF Ordering!HandOut
    <3>3. QED
      BY <3>2 DEF Ordering!Next
  <2>7. QED
    BY <2>5, <2>6
<1>5. CASE ~nccl_proto_configured /\ nccl_proto_configured'
  <2>1. Decision = Ordering!Undecided /\ Handed = {}
    BY <1>5 DEF Decision, Handed, Ordering!Undecided
  <2>2. Decision' = Setting(need_ordering') /\ Decision' \in Ordering!Settings
    BY <1>1, <1>5, SettingIsDecided DEF Decision, TypeOK
  <2>3. Handed' \in {Handed, Handed \cup {Decision'}}
    BY <1>3, <2>1, <2>2
  <2>4. Ordering!Decide(Decision')
    BY <2>1, <2>3 DEF Ordering!Decide
  <2>5. QED
    BY <2>2, <2>4 DEF Ordering!Next
<1>6. CASE ~nccl_proto_configured /\ ~nccl_proto_configured'
  <2>1. eps = {} /\ eps' = {}
    BY <1>1, <1>6
  <2>2. QED
    BY <1>6, <2>1 DEF Decision, Handed, Ordering!vars
<1>7. QED
  BY <1>4, <1>5, <1>6

(* platform_config_endpoint implements EndpointOrdering under the mapping *)
(* Decision/Handed, for any number of threads and calls, any platform and *)
(* any answers of the transport and of setenv.                            *)
THEOREM Refinement == Spec => RefinesEndpointOrdering
<1>1. Init => Ordering!Init
  BY DEF Init, Ordering!Init, Decision, Handed, Ordering!Undecided
<1>2. Spec => []AgreeInv
  BY AgreeInit, AgreeStep, PTL DEF Spec
<1>3. QED
  BY <1>1, <1>2, RefinementStep, PTL DEF Spec, RefinesEndpointOrdering,
                                        Ordering!Spec

-----------------------------------------------------------------------------
(* NCCL_PROTO is written only from unset to "simple", by the call that     *)
(* records the first configuration as lacking in-order delivery, for any  *)
(* number of threads and calls and any answers of the transport and of   *)
(* setenv: configure_nccl_proto is reached only through that first        *)
(* configuration, and setenv runs only when getenv found nothing.         *)
THEOREM ProtoSetOnce == Spec => ProtoSetOnceAtDecision
<1> DEFINE Written ==
      nccl_proto' # nccl_proto =>
        /\ nccl_proto = "unset" /\ nccl_proto' = "simple"
        /\ ~nccl_proto_configured /\ nccl_proto_configured' /\ ~need_ordering'
<1>1. ASSUME NEW t \in Threads, Negotiate(t) PROVE Written
  <2>1. PICK setopt \in SetoptResults, maxmsg \in SetoptResults,
             setenv_ok \in SetenvResults :
          /\ nccl_proto_configured' = (Configured0 \/ First(setopt))
          /\ need_ordering' = IF First(setopt) THEN Have(setopt) ELSE Need0
          /\ nccl_proto' = ProtoAfter(setopt, setenv_ok)
    BY <1>1, NegotiateStep
  <2> SUFFICES ASSUME nccl_proto' # nccl_proto
               PROVE  /\ nccl_proto = "unset" /\ nccl_proto' = "simple"
                      /\ ~nccl_proto_configured /\ nccl_proto_configured'
                      /\ ~need_ordering'
    OBVIOUS
  <2>2. ForceProto(setopt) /\ nccl_proto = "unset" /\ setenv_ok
    BY <2>1 DEF ProtoAfter, NcclProtoAfter
  <2>3. First(setopt) /\ ~Have(setopt) /\ ~Configured0
    BY <2>2 DEF ForceProto, First
  <2>4. QED
    BY <2>1, <2>2, <2>3 DEF ProtoAfter, NcclProtoAfter, Configured0
<1>2. ASSUME [Next]_vars PROVE Written
  <2>1. CASE \E t \in Threads : Negotiate(t)
    BY <2>1, <1>1
  <2>2. CASE ~\E t \in Threads : Negotiate(t)
    <3>1. nccl_proto' = nccl_proto
      BY <1>2, <2>2 DEF Next, Start, Acquire, CrashOnNullPlatformType,
                        Terminated, vars
    <3>2. QED
      BY <3>1
  <2>3. QED
    BY <2>1, <2>2
<1>3. QED
  BY <1>2, PTL DEF Spec, ProtoSetOnceAtDecision
=============================================================================
