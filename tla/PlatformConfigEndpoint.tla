------------------------- MODULE PlatformConfigEndpoint -------------------------
(***************************************************************************)
(* platform_config_endpoint() of src/platform-aws.c (HAVE_CUDA build):     *)
(* the per-endpoint negotiation of the in-order-delivery option.  Several  *)
(* threads create endpoints concurrently.  The first configuration         *)
(* records in two function-static booleans whether ordering was obtained  *)
(* (nccl_proto_configured, need_ordering); every later endpoint must       *)
(* reproduce it, and when ordering is absent the plugin forces             *)
(* NCCL_PROTO=simple.  The static mutex guards the whole negotiation.      *)
(*                                                                         *)
(* The transport is nondeterministic: each fi_setopt/fi_getopt answer is   *)
(* chosen per call.  Process-wide inputs fixed before the first endpoint   *)
(* is created (selected protocol, platform type, provider, GDR check,      *)
(* build declarations) are a record chosen once in Init.                   *)
(***************************************************************************)
EXTENDS Naturals, FiniteSets

CONSTANTS
  Threads,        \* threads that create endpoints
  NoThread,       \* owner of the mutex when nobody holds it
  MaxCalls,       \* bound on the number of calls of platform_config_endpoint
  Protocols,      \* values nccl_ofi_selected_protocol may hold
  PlatformTypes,  \* values get_platform_type() may return (NoPlatform: NULL)
  NoPlatform,     \* get_platform_type() returned NULL
  SetenvResults   \* whether setenv("NCCL_PROTO", ...) may succeed / fail

ASSUME ThreadsAssumption == NoThread \notin Threads
ASSUME MaxCallsAssumption == MaxCalls \in Nat
ASSUME SetenvAssumption == SetenvResults \subseteq BOOLEAN /\ SetenvResults # {}

P5 == "p5.48xlarge"

(* Answers of fi_setopt: 0, -FI_EOPNOTSUPP/-FI_ENOPROTOOPT, other error.   *)
SetoptResults == {"ok", "unsupported", "error"}

(* NCCL_PROTO is unset, was set to "simple", or the user chose LL/LL128.   *)
NcclProtoValues == {"unset", "simple", "LL128"}

(* Process-wide inputs of one run of the plugin.                          *)
(*  protocol     : nccl_ofi_selected_protocol                              *)
(*  platform_type: get_platform_type()                                     *)
(*  efa          : info->fabric_attr->prov_name is "efa"                   *)
(*  gdr_ok       : the GDR-required check of lines 610-618 passes          *)
(*  opt_declared : the build declares the in-order option of the protocol  *)
(*  native_check : ofi_nccl_disable_native_rdma_check() is 0               *)
(*  emul_declared: the build declares FI_OPT_EFA_EMULATED_WRITE            *)
ConfSet == [protocol : Protocols, platform_type : PlatformTypes,
            efa : BOOLEAN, gdr_ok : BOOLEAN, opt_declared : BOOLEAN,
            native_check : BOOLEAN, emul_declared : BOOLEAN]

PcValues == {"idle", "waiting", "locked"}

VARIABLES
  conf,                   \* process-wide inputs, fixed
  nccl_proto_configured,  \* static bool nccl_proto_configured
  need_ordering,          \* static bool need_ordering
  nccl_proto,             \* the NCCL_PROTO environment variable
  mutex,                  \* owner of the static mutex of the function
  pc,                     \* position of each thread in the function
  calls,                  \* calls started so far
  eps,                    \* history: EFA endpoints configured successfully
  crashed                 \* the process died (NULL passed to strcmp)

vars == <<conf, nccl_proto_configured, need_ordering, nccl_proto, mutex, pc,
          calls, eps, crashed>>

EndpointRecords == [ordered : BOOLEAN, proto : NcclProtoValues]

-----------------------------------------------------------------------------
(* Helpers translated from the static functions the handler calls.        *)

(* configure_ep_inorder: returns 0 unless fi_setopt failed with an error  *)
(* other than "not supported"; without the option declared it is 0.       *)
InorderRetOk(setopt) == ~(conf.opt_declared /\ setopt = "error")

(* configure_ep_inorder: have_ordering is set only on success.            *)
HaveOrdering(setopt) == conf.opt_declared /\ setopt = "ok"

(* configure_ep_max_msg_size: "not supported" counts as success.          *)
MaxMsgSizeOk(setopt) == setopt # "error"

(* configure_nccl_proto: sets NCCL_PROTO=simple if unset (setenv may fail) *)
(* and only warns when the user chose something else.                     *)
(* Mutant: the value written is "LL" instead of "simple".                *)
NcclProtoAfterLL(setenv_ok) ==
  IF nccl_proto = "unset" /\ setenv_ok THEN "LL" ELSE nccl_proto

NcclProtoOk(setenv_ok) == nccl_proto # "unset" \/ setenv_ok
NcclProtoAfter(setenv_ok) ==
  IF nccl_proto = "unset" /\ setenv_ok THEN "simple" ELSE nccl_proto

(* validate_rdma_write: without FI_OPT_EFA_EMULATED_WRITE in the build it *)
(* fails; otherwise fi_getopt must succeed, answer sizeof(bool) bytes and *)
(* report that writes are not emulated.                                   *)
ValidateRdmaWrite(getopt_ok, optlen_ok, emulated) ==
  conf.emul_declared /\ getopt_ok /\ optlen_ok /\ ~emulated

(* The pre-lock checks of lines 598-662: NULL endpoint, non-EFA provider  *)
(* (returns 0 with nothing configured), GDR required but unsupported,     *)
(* validate_rdma_write for RDMA unless the user disabled the check,       *)
(* unknown protocol.                                                      *)
PassesPreLockChecks(ep_valid, getopt_ok, optlen_ok, emulated) ==
  /\ ep_valid
  /\ conf.efa
  /\ conf.gdr_ok
  /\ conf.protocol = "RDMA" /\ conf.native_check =>
       ValidateRdmaWrite(getopt_ok, optlen_ok, emulated)
  /\ conf.protocol \in {"SENDRECV", "RDMA"}

(* The P5 work-around condition is reached (lines 689-690): strcmp with   *)
(* get_platform_type() is then evaluated.                                 *)
P5CheckReached == nccl_proto = "unset" /\ conf.protocol = "RDMA"
(* Mutant: the P5 work-around without its RDMA condition.                *)
P5SkipAnyProtocol == nccl_proto = "unset" /\ conf.platform_type = P5

P5Skip == P5CheckReached /\ conf.platform_type = P5

-----------------------------------------------------------------------------
Init ==
  /\ conf \in ConfSet
  /\ nccl_proto_configured = FALSE
  /\ need_ordering = FALSE
  /\ nccl_proto \in NcclProtoValues
  /\ mutex = NoThread
  /\ pc = [t \in Threads |-> "idle"]
  /\ calls = 0
  /\ eps = {}
  /\ crashed = FALSE

(* A thread enters platform_config_endpoint and runs the checks made      *)
(* before the mutex is taken; a failing check returns at once.            *)
Start(t) ==
  /\ ~crashed
  /\ pc[t] = "idle"
  /\ calls < MaxCalls
  /\ calls' = calls + 1
  /\ \E ep_valid, getopt_ok, optlen_ok, emulated \in BOOLEAN :
       pc' = [pc EXCEPT ![t] =
                IF PassesPreLockChecks(ep_valid, getopt_ok, optlen_ok, emulated)
                THEN "waiting" ELSE "idle"]
  /\ UNCHANGED <<conf, nccl_proto_configured, need_ordering, nccl_proto,
                 mutex, eps, crashed>>

(* nccl_net_ofi_mutex_lock(&mutex).                                       *)
Acquire(t) ==
  /\ ~crashed
  /\ pc[t] = "waiting"
  /\ mutex = NoThread
  /\ mutex' = t
  /\ pc' = [pc EXCEPT ![t] = "locked"]
  /\ UNCHANGED <<conf, nccl_proto_configured, need_ordering, nccl_proto,
                 calls, eps, crashed>>

(* Mutant: an error path returns without unlocking the mutex.            *)
ReleaseOnlyOnSuccess(t, ok) ==
  /\ mutex' = IF ok THEN NoThread ELSE mutex
  /\ pc' = [pc EXCEPT ![t] = "idle"]

(* Every path out of the critical section goes through "unlock:".         *)
Release(t, ok) ==
  /\ mutex' = NoThread
  /\ pc' = [pc EXCEPT ![t] = "idle"]

(* The critical section, lines 665-742, from the P5 work-around to the     *)
(* unlock, for the answers setopt (in-order option), maxmsg (max message   *)
(* size) and setenv_ok (NCCL_PROTO) the transport and libc give.           *)

(* Lines 689-697: on P5 + RDMA the first call records "no ordering".      *)
Configured0 == nccl_proto_configured \/ P5Skip
Need0 == IF P5Skip /\ ~nccl_proto_configured THEN FALSE ELSE need_ordering

(* Line 699: ordering is (re)negotiated, lines 702-709.                   *)
Tried == Need0 \/ ~Configured0
Have(setopt) == Tried /\ HaveOrdering(setopt)

(* Lines 702-716: configure_ep_inorder failed, or ordering was lost after *)
(* succeeding during initialization.                                       *)
(* Mutant: the "ordering lost after initialization" check is missing.    *)
InorderOkNoMismatch(setopt) == ~Tried \/ InorderRetOk(setopt)

InorderOk(setopt) ==
  /\ ~Tried \/ InorderRetOk(setopt)
  /\ ~(Tried /\ Need0 /\ ~Have(setopt))

(* Lines 718-730: the first configuration is recorded, and without        *)
(* ordering configure_nccl_proto() is called.                             *)
First(setopt) == InorderOk(setopt) /\ Tried /\ ~Configured0
ForceProto(setopt) == First(setopt) /\ ~Have(setopt)
ProtoAfter(setopt, setenv_ok) ==
  IF ForceProto(setopt) THEN NcclProtoAfter(setenv_ok) ELSE nccl_proto

(* Mutant: a failed in-order negotiation does not fail the call.        *)
CallOkNoInorder(setopt, maxmsg, setenv_ok) ==
  /\ ForceProto(setopt) => NcclProtoOk(setenv_ok)
  /\ conf.protocol = "RDMA" => MaxMsgSizeOk(maxmsg)

(* The return value is 0, lines 718-739 (max message size for RDMA).      *)
CallOk(setopt, maxmsg, setenv_ok) ==
  /\ InorderOk(setopt)
  /\ ForceProto(setopt) => NcclProtoOk(setenv_ok)
  /\ conf.protocol = "RDMA" => MaxMsgSizeOk(maxmsg)

Negotiate(t) ==
  /\ ~crashed
  /\ pc[t] = "locked"
  /\ ~(P5CheckReached /\ conf.platform_type = NoPlatform)
  /\ \E setopt \in SetoptResults, maxmsg \in SetoptResults,
        setenv_ok \in SetenvResults :
       /\ nccl_proto_configured' = (Configured0 \/ First(setopt))
       /\ need_ordering' = IF First(setopt) THEN Have(setopt) ELSE Need0
       /\ nccl_proto' = ProtoAfter(setopt, setenv_ok)
       /\ eps' = IF CallOk(setopt, maxmsg, setenv_ok)
                 THEN eps \cup {[ordered |-> Have(setopt),
                                 proto |-> ProtoAfter(setopt, setenv_ok)]}
                 ELSE eps
       /\ Release(t, CallOk(setopt, maxmsg, setenv_ok))
  /\ UNCHANGED <<conf, calls, crashed>>

(* Line 691: strcmp(get_platform_type(), "p5.48xlarge") with a NULL       *)
(* platform type dereferences NULL and the process dies.                  *)
CrashOnNullPlatformType(t) ==
  /\ ~crashed
  /\ pc[t] = "locked"
  /\ P5CheckReached
  /\ conf.platform_type = NoPlatform
  /\ crashed' = TRUE
  /\ UNCHANGED <<conf, nccl_proto_configured, need_ordering, nccl_proto,
                 mutex, pc, calls, eps>>

(* All calls have returned, or the process died: nothing more happens.    *)
Terminated ==
  /\ \/ calls = MaxCalls /\ \A t \in Threads : pc[t] = "idle"
     \/ crashed
  /\ UNCHANGED vars

Next ==
  \/ \E t \in Threads :
       \/ Start(t)
       \/ Acquire(t)
       \/ Negotiate(t)
       \/ CrashOnNullPlatformType(t)
  \/ Terminated

(* Endpoint creation is finite and every path releases the mutex, so a    *)
(* waiting or locked thread that stays able to move eventually moves (to  *)
(* its return, or into the NULL dereference).                             *)
Fairness ==
  \A t \in Threads : /\ WF_vars(Acquire(t))
                    /\ WF_vars(Negotiate(t))
                    /\ WF_vars(CrashOnNullPlatformType(t))

Spec == Init /\ [][Next]_vars /\ Fairness

-----------------------------------------------------------------------------
TypeOK ==
  /\ conf \in ConfSet
  /\ nccl_proto_configured \in BOOLEAN
  /\ need_ordering \in BOOLEAN
  /\ nccl_proto \in NcclProtoValues
  /\ mutex \in Threads \cup {NoThread}
  /\ pc \in [Threads -> PcValues]
  /\ calls \in 0..MaxCalls
  /\ eps \subseteq EndpointRecords
  /\ crashed \in BOOLEAN

(* All EFA endpoints handed to NCCL agree on in-order delivery: the first *)
(* configuration decides, and a later endpoint that cannot reproduce it   *)
(* is refused (lines 699-731), whatever the threads' interleaving.        *)
AllEndpointsAgree ==
  \A e1, e2 \in eps : e1.ordered = e2.ordered

(* An endpoint without in-order delivery is only handed out once NCCL_PROTO *)
(* is set (to "simple" by configure_nccl_proto, or by the user, who is      *)
(* warned), except on P5 with the RDMA protocol where the work-around of    *)
(* lines 675-697 deliberately skips the check.                             *)
P5RdmaExempt == conf.protocol = "RDMA" /\ conf.platform_type = P5

UnorderedEndpointImpliesProtoSet ==
  \A e \in eps : ~e.ordered => (e.proto # "unset" \/ P5RdmaExempt)

(* The plugin changes NCCL_PROTO only from unset to "simple", and only in *)
(* the call that records the first configuration as lacking in-order      *)
(* delivery (configure_nccl_proto, lines 718-730): a user's value is never *)
(* overwritten and the variable is written at most once per process,      *)
(* however the endpoint creations of the threads interleave.              *)
ProtoSetOnceAtDecision ==
  [][nccl_proto' # nccl_proto =>
       /\ nccl_proto = "unset" /\ nccl_proto' = "simple"
       /\ ~nccl_proto_configured /\ nccl_proto_configured' /\ ~need_ordering']_vars

(* The P5 work-around never passes a NULL platform type to strcmp.        *)
NoNullPlatformTypeDeref == ~crashed

(* Every call that got past the pre-lock checks returns, unless the       *)
(* process died on a NULL platform type: the mutex is released on every   *)
(* path and no thread waits for it forever.                                *)
EveryCallReturns ==
  \A t \in Threads : pc[t] # "idle" ~> (pc[t] = "idle" \/ crashed)

-----------------------------------------------------------------------------
(* The inductive invariant behind AllEndpointsAgree and                   *)
(* UnorderedEndpointImpliesProtoSet: every handed-out endpoint matches the *)
(* recorded need_ordering and saw the current NCCL_PROTO, and a recorded  *)
(* "no ordering" outside the P5 exemption comes with NCCL_PROTO set.      *)
NeedImpliesConfigured == need_ordering => nccl_proto_configured
EpsImplyConfigured == eps # {} => nccl_proto_configured
EpsMatchNeed == \A e \in eps : e.ordered = need_ordering
EpsSawCurrentProto == \A e \in eps : e.proto = nccl_proto
UnorderedDomainHasProto ==
  (nccl_proto_configured /\ ~need_ordering /\ ~P5RdmaExempt) => nccl_proto # "unset"

AgreeInv ==
  /\ TypeOK
  /\ NeedImpliesConfigured
  /\ EpsImplyConfigured
  /\ EpsMatchNeed

ProtoInv ==
  /\ AgreeInv
  /\ EpsSawCurrentProto
  /\ UnorderedDomainHasProto

-----------------------------------------------------------------------------
(* Refinement mapping to EndpointOrdering: the recorded decision is        *)
(* need_ordering once nccl_proto_configured is set; the endpoints handed   *)
(* out are the ordering settings of the successful calls.                  *)
Setting(ordered) == IF ordered THEN "ordered" ELSE "unordered"
Decision == IF nccl_proto_configured THEN Setting(need_ordering) ELSE "undecided"
Handed == {Setting(e.ordered) : e \in eps}

Ordering == INSTANCE EndpointOrdering WITH decision <- Decision, handed <- Handed

(* platform_config_endpoint implements the abstract promise: the first     *)
(* successful configuration (or the P5 work-around) fixes in-order         *)
(* delivery once, no endpoint is handed out before that, and every later   *)
(* endpoint has the recorded setting, whatever the threads' interleaving   *)
(* and the transport's answers.                                            *)
RefinesEndpointOrdering == Ordering!Spec

=============================================================================
