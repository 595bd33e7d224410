# TLA+ verification of `src/src/platform-aws.c`

This directory holds TLA+ models of the AWS platform layer of the OFI
plugin (`src/src/platform-aws.c`, 856 lines), TLC configurations that
model-check them, and TLAPS proofs of the main invariants of the endpoint
negotiator, the identity caches and `platform_init`, and of the
negotiator's refinement of an abstract specification. Every module is written from the C source. Where the code and
`spec.md` disagree, a violation run shows the disagreement.

## The system and its parts

| Part | Code | What it does | Shared state |
|---|---|---|---|
| Catalog | `platform_data_map`, lines 29-101 | Static table of seven EC2 platforms: topology file, dup conns, latency, GDR, flush, default protocol, domain policy | none (read-only) |
| Identity cache | `get_platform_type` 113-177, `get_platform_data` 187-217 | Computed once under a lock: the first line of `product_name`, then its catalog entry (last match wins) | `init`, `platform_type`, `platform_mutex`; `init`, `platform_data`, `mutex` |
| Orchestrator | `platform_init` 403-593, `configure_nvls_option` 349-391 | Once per process: forces the EFA provider, defaults environment variables, resolves the tunables | environment, `nic_dup_conns`, `net_latency`, `nccl_ofi_selected_protocol`, `domain_per_thread` |
| Negotiator | `platform_config_endpoint` 595-747, with `configure_ep_inorder`, `configure_ep_max_msg_size`, `configure_nccl_proto`, `validate_rdma_write` | Per endpoint: the first call decides whether in-order delivery is available (forcing `NCCL_PROTO=simple` if not); later calls must reproduce that decision | `nccl_proto_configured`, `need_ordering`, its `mutex`, `NCCL_PROTO` |
| GUID parser | `get_rail_vf_idx` 749-797 | Reads `node_guid` and parses the VF index from its last two characters | none |
| Rail sorter | `platform_sort_rails` 799-856 | Reorders one connection's rails by VF index | the caller's list |

How the parts interact:
- `platform_init` calls `get_platform_data`, which calls `get_platform_type` while holding its own mutex.
- `platform_config_endpoint` calls `get_platform_data` for the GDR check before taking its mutex.
- Under its mutex, `platform_config_endpoint` calls `get_platform_type` (line 691).
- The lock order is therefore always data mutex → `platform_mutex` and endpoint mutex → `platform_mutex`.
- `platform_sort_rails` calls `get_rail_vf_idx` once per rail.

## Modules

| Module | Models | State (VARIABLES) | Actions |
|---|---|---|---|
| `PlatformData` | the catalog and the lookup | none | `LookupPlatform(type)` |
| `PlatformIdentity` | both caches, any number of threads | the two `init` flags, caches and mutex owners; per-thread `pc`, `caller`, `ret_type`; histories `type_results`, `data_results`; `reads` | `Call`, `LockData`, `CheckDataInit`, `LockType`, `CheckTypeInit`, `ReadFile`, `ScanTable` |
| `PlatformConfigEndpoint` | the negotiator, any number of threads | `conf` (process inputs), the two statics, `nccl_proto`, `mutex`, `pc`, `calls`, history `eps` of handed-out endpoints, `crashed` | `Start` (checks before the lock), `Acquire`, `Negotiate` (the whole critical section through the unlock), `CrashOnNullPlatformType` |
| `EndpointOrdering` | the abstract promise of the negotiator: one in-order decision, every endpoint handed out with it (spec §4.3, §6) | `decision` (undecided / ordered / unordered), `handed` (settings handed out) | `Decide(o)`, `HandOut` |
| `PlatformConfigEndpointProofs` | TLAPS proofs about the negotiator, including its refinement of `EndpointOrdering` | — | — |
| `PlatformIdentityProofs` | TLAPS proofs about the identity caches | — | — |
| `PlatformInit` | `platform_init`, one block per action, in code order | `env` (name → Unset / User / plugin value), inputs (entry, versions, parameters), tunables, `step`, `ret` | `ChooseProvider`, `SetForkSafe`, `ConfigureNvls`, `DisableForceFlush`, `SetChunkSizes`, `SetTopology`, `ResolveTunables` |
| `PlatformInitProofs` | TLAPS proofs about `platform_init` | — | — |
| `PlatformSortRailsProofs` | TLAPS proofs about `platform_sort_rails`: the counting lemmas, the loop invariant and the refinement of `RailOrder` | — | — |
| `RailOrder` | the abstract promise of the sort: in one step the list becomes the stable VF order of its first `n` rails (on a layout the counters place) or is left alone | `n`, `len`, `vf`, `list`, `outcome` | `Sort`, `Leave` |
| `GuidParseProofs` | TLAPS proofs about `get_rail_vf_idx` | — | — |
| `GuidParse` | `get_rail_vf_idx` as the operator `GetRailVfIdx(content)`: `fgets` into 20 bytes, `strtol` base 10 with `endptr` | `line`, `called`, `result` | `Call` |
| `PlatformSortRails` | `platform_sort_rails` on a list of `list_len` rails, called with `num_rails`; the VF indexes are inputs | `num_rails`, `list_len`, `info_list`, `i`, `rail_map`, `sorted`, `phase` | `Begin`, `ListEndsEarly`, `RejectVfIdx`, `PlaceRail`, `RejectDuplicate`, `OutOfBoundsRailIdx`, `Relink` |

Each `MC*.tla` module gives the constants for TLC. `PROJECT.json` maps each definition to the source lines it translates.

Data abstractions:
- Strings are model values or sequences of one-character strings.
- An fi_setopt/fi_getopt answer is `ok`, `unsupported` or `error`, chosen per call.
- Inputs fixed for the whole process (selected protocol, platform type, provider, GDR check outcome, declared build options, whether the native RDMA check is enabled) are a record chosen in `Init`.
- `validate_rdma_write` (`ValidateRdmaWrite`) is its control flow over three answers chosen per call: whether `fi_getopt` succeeds, whether it answers `sizeof(bool)` bytes, and whether writes are emulated. It fails outright when the build lacks `FI_OPT_EFA_EMULATED_WRITE`.

Undefined behaviour is a nondeterministic choice over what the build can do:
- The out-of-bounds read in the sort either fails the call or writes out of bounds (`phase = "ub"`).
- `strcmp(NULL, ...)` kills the process (`crashed`).

## Runs

| Run | Bounds | Checks | Result |
|---|---|---|---|
| `endpoint` | 2 threads, 3 calls, 3 protocols, 2 platforms + unreadable (NULL) type, setenv succeeds | `TypeOK`, `AllEndpointsAgree`, `UnorderedEndpointImpliesProtoSet`, `EveryCallReturns`, `RefinesEndpointOrdering`, `ProtoSetOnceAtDecision` | pass (8,724 states) |
| `endpoint_null` | the platform type may be NULL | `NoNullPlatformTypeDeref` | violation: strcmp(NULL) at line 691 |
| `endpoint_setenv` | setenv may fail | `UnorderedEndpointImpliesProtoSet` | violation: state recorded before `configure_nccl_proto` fails |
| `identity` | 3 threads, 4 calls, 5 file contents + missing file, reads may fail | `TypeOK`, `OneFileRead`, `CallersAgree`, `EveryCallReturns` | pass (12,432 states) |
| `identity_newline` | no read failures | `SpecPlatformType` | violation: `(char)EOF` appended when there is no final newline |
| `sort` | `num_rails` and the list length each 0..5, VF index in {-1,0,1,3} | `TypeOK`, `SortOutcome`, `UndefinedOnlyOnMisfit`, `RefinesRailOrder` | pass (28,392 states) |
| `sort_oob` | up to 4 rails | `NoOutOfBoundsRailIndex` | violation: one rail on VF 1 |
| `sort_interleave` | up to 4 rails | `SpecInterleavedOrder` | violation: the order is VF0,VF0,VF1,VF1 |
| `init` | 5 entries (none, p4d, p5, g5, trn1), 5 user-settable variables, NCCL 2.18.3 / 2.18.5 / 2.19.3 / absent, every parameter set or unset, any setenv failing | `TypeOK`, `FlushDisabledOnlyWhereUnneeded`, `NvlsDecision`, `TunablesOutcome`, `OverridesNeverChanged` | pass (531,072 states) |
| `init_latency` | same, no setenv failures | `SpecLatencyDefault` | violation: g5 latency 0 instead of 150 |
| `guid` | 2,740 `node_guid` contents | `WellFormedAgree` | pass |
| `guid_malformed` | same | `SpecRejectsMalformed` | violation: `0000:0000:0000:00-0` accepted as VF 0 |

What the passing properties say:
- **`AllEndpointsAgree`**: whatever the interleaving and whatever the transport answers, no two handed-out endpoints differ on ordering.
- **`UnorderedEndpointImpliesProtoSet`**: an unordered endpoint is never handed out while `NCCL_PROTO` is unset, except under the P5 + RDMA work-around.
- **`CallersAgree`** (identity): all callers see one platform type and the entry of that type.
- **`OneFileRead`**: `product_name` is opened at most once per process, even when the first read fails.
- **`RefinesEndpointOrdering`**: the negotiator implements `EndpointOrdering` (below).
- **`SortOutcome`**: a returning sort either produces the VF0-then-VF1 order of the first `num_rails` rails or leaves the list exactly as it was. It never duplicates a rail or half-reorders the list. A list shorter than `num_rails` fails and is left alone. A longer one loses its tail at the relink, and the property pins that outcome.
- **`UndefinedOnlyOnMisfit`**: the out-of-bounds access of lines 825-835 happens only on inputs whose layout the two counters cannot place (`~LayoutFits`: more than two VF 0 rails next to a VF 1 rail, or a bad VF index, or too short a list). On every layout the sort is meant for, the access stays in bounds.
- **`RefinesRailOrder`**: the sort implements `RailOrder` (below). The caller's list changes at most once, when the call returns.
- **`ProtoSetOnceAtDecision`** (action property): `NCCL_PROTO` changes only once, from unset to `simple`, in the very step that records the first configuration as unordered. A later call never touches it.
- **`OverridesNeverChanged`** (action property): no step of `platform_init` changes a variable that is set.
- **`NvlsDecision`**: NVLS is disabled exactly for NCCL < 2.18.5 when the user left it alone.
- **`FlushDisabledOnlyWhereUnneeded`**: `NCCL_NET_FORCE_FLUSH=0` is defaulted only on a known platform that needs no flush.
- **`TunablesOutcome`**: a failed `platform_init` touches no tunable, and a successful one keeps every parameter the user set, including `domain_per_thread = 0`.
- **`WellFormedAgree`**: on well-formed GUIDs, parsing two hex digits in base 10 still leads the sort to the spec's decision.

Every property of a passing run has a mutant in `PROJECT.json`: a plausible bug in the mapped code (a dropped guard, a missing unlock, an off-by-one, a boundary `<` turned into `<=`). TLC finds the property violated under each mutant.

### Why the bounds are enough

- **Negotiator.** Two threads and three calls cover:
  - a first call racing a second;
  - a failed first call followed by a successful one;
  - a later call that disagrees with the first.

  All three transport answers and both relevant platforms appear.
- **Identity.** Three threads reach every order of the two nested critical sections: two first callers and a third caller that hits the cache.
- **Sort.** Five rails with VF indexes in {-1, 0, 1, 3}, and lists shorter and longer than `num_rails`, cover:
  - every layout the two counters can place;
  - the list ending on NULL, and the tail cut by the relink;
  - the duplicate-cell rejection;
  - the out-of-bounds cell;
  - the rejected indexes.
- **Init.** The NCCL versions are the ones on either side of the 2.18.5 boundary. The platforms include:
  - one without an entry;
  - one that needs no flush (p5);
  - one without a latency (g5);
  - one with a domain per thread (trn1).
- **GUID parser.** The contents vary every character the code inspects:
  - the length around 19;
  - the newline;
  - the colon at `guid[14]`;
  - both final characters over digits, hex letters, signs and a space.

### Fairness

Fairness is weak fairness on every step a thread takes inside a function: `Acquire`/`Negotiate`/`CrashOnNullPlatformType` for the negotiator (so `EveryCallReturns` reads "returns, or the process died"), and all the non-`Call` steps of the identity caches. The code justifies it:
- every critical section is straight-line code with bounded local-file or transport calls;
- every exit path unlocks;
- spec §5 says no operation blocks indefinitely.

Calls themselves are not fair: a thread may never call.

## The abstract specification and the refinement

`EndpointOrdering` states what the negotiator promises NCCL, without threads, locks or transport answers:
- the process decides once whether EFA endpoints deliver in order;
- every endpoint handed out afterwards has that setting.

The first configuration records its decision (`Decide`), and the endpoint that made it is handed out or the call fails after recording. Later endpoints are handed out with the recorded setting (`HandOut`).

`PlatformConfigEndpoint` instantiates it with a refinement mapping:
- `decision <- Decision`: "undecided" while `nccl_proto_configured` is false, otherwise the setting of `need_ordering`;
- `handed <- Handed`: the settings of the endpoints in `eps`.

The `endpoint` run checks `RefinesEndpointOrdering == Ordering!Spec` as a property, and the `Refinement` theorem proves it. A mutant that drops the in-order mismatch check from the success condition of `Negotiate` breaks it.

`RailOrder` states what `platform_sort_rails` promises its caller, without the scratch array or the counters:
- `Sort`: on a layout the two counters can place (`Fits`), the list becomes `Order`. `Order` puts rail `k` at position `Rank(k)`, the number of rails with a smaller VF or with the same VF and a smaller index. This is a stable sort by VF.
- `Leave`: on any other input the call returns, fails or goes undefined, and the list is left as it was.

`PlatformSortRails` instantiates it with `n <- num_rails`, `len <- list_len`, `vf <- vf_idx`, `list <- info_list`, and `outcome <- Outcome`. `Outcome` is "running" while `phase` is `start` or `loop`, and `phase` otherwise.

The `sort` run checks `RefinesRailOrder == Abstract!Spec`, and the `SortRefinement` theorem proves it. A mutant relink that keeps the tail of a longer list breaks it.

## What is proved (TLAPS)

The theorems hold for every value of the constants that satisfies the modules' `ASSUME`s.

| Module | Theorem | Statement | Assumptions |
|---|---|---|---|
| `PlatformConfigEndpointProofs` | `TypeCorrect` | `Spec => []TypeOK` | `SetenvAssumption` |
| | `EndpointsAgree` | `Spec => []AllEndpointsAgree` | none beyond the type assumptions |
| | `UnorderedEndpointsHaveProto` | `Spec => []UnorderedEndpointImpliesProtoSet` | `SetenvResults = {TRUE}` |
| | `Refinement` | `Spec => RefinesEndpointOrdering` | none beyond the type assumptions |
| `PlatformIdentityProofs` | `ReadOnce` | `Spec => []OneFileRead` | `ThreadsAssumption` |
| | `CachesAgree` | `Spec => []CallersAgree` | `ThreadsAssumption` |
| `PlatformInitProofs` | `FlushOnlyWhereUnneeded` | `Spec => []FlushDisabledOnlyWhereUnneeded` | the six `PlatformInit` assumptions |
| | `NvlsDecided` | `Spec => []NvlsDecision` | same |
| | `TunablesKept` | `Spec => []TunablesOutcome` | same |
| | `OverridesKept` | `Spec => OverridesNeverChanged` (an action property) | same |
| | `InitTypeCorrect` | `Spec => []TypeOK` | same |
| `PlatformConfigEndpointProofs` | `ProtoSetOnce` | `Spec => ProtoSetOnceAtDecision` (an action property) | none beyond the type assumptions |
| `PlatformIdentityProofs` | `IdTypeCorrect` | `Spec => []TypeOK` | `ThreadsAssumption`, `MaxCallsAssumption`, `FileAssumption` |
| `PlatformSortRailsProofs` | `SortTypeCorrect` | `Spec => []TypeOK` | `MaxRailsAssumption`, `VfIdxAssumption`, `NullAssumption` |
| | `SortOutcomeHolds` | `Spec => []SortOutcome` | same |
| | `UndefinedOnlyOnMisfitHolds` | `Spec => []UndefinedOnlyOnMisfit` | same |
| | `SortRefinement` | `Spec => RefinesRailOrder` | same |
| `GuidParseProofs` | `WellFormedAgreeHolds` | `Spec => []WellFormedAgree` | `LinesAssumption` |

For `UnorderedEndpointsHaveProto` the hypothesis is needed: with setenv failing the property is false, and the `endpoint_setenv` run shows it.

TLC checked every strengthening below as an invariant of a run before it was proved.

### Negotiator: `EndpointsAgree`

`AllEndpointsAgree` is not inductive. The proof uses `AgreeInv`, which adds three facts:
- `need_ordering` implies configured;
- any handed-out endpoint implies configured;
- every handed-out endpoint's `ordered` equals `need_ordering`.

`AgreeStep` shows that `Negotiate` preserves `AgreeInv`, by cases on whether the call is the first configuration:
- **The first configuration:** no endpoint existed, so the new one defines `need_ordering`.
- **A later call:** the statics are unchanged. The mismatch check of lines 711-716 makes the new endpoint's ordering equal `need_ordering`.

### Negotiator: `UnorderedEndpointsHaveProto`

This uses `ProtoInv`, which is `AgreeInv` plus two facts:
- every endpoint saw the current `NCCL_PROTO`;
- configured without ordering and outside the P5/RDMA exemption implies `NCCL_PROTO` is set.

`NCCL_PROTO` changes only in the first configuration, when no endpoint exists yet.

### Negotiator: `Refinement`

The proof follows the usual two steps:
- `Init` maps to `Ordering!Init`.
- Under `AgreeInv`, every step maps to an abstract step or a stutter (`RefinementStep`). It is split three ways:
  - **Already configured:** the statics are fixed (`RecordStable`), so a new endpoint is a `HandOut` or a stutter.
  - **Configured by this step:** the step is a `Decide`.
  - **Still unconfigured:** no endpoint is added, so the step is a stutter.

`AgreeInv` is what makes a handed-out endpoint carry the recorded setting.

### Identity caches: `ReadOnce`, `CachesAgree`

Both rest on `IdInv`, an inductive invariant of five parts:
- **`ControlOK`:** types, and a thread in the data path is a data caller.
- **`MutexHeld`:** which positions hold which mutex.
- **`OnceRead`:** before `init` nothing is read; a reader runs only with `init` set and `reads = 0`.
- **`TypeAgree`:** every returned type is the cached one, and is returned only once it is fixed.
- **`DataAgree`:** while a data caller is between setting `init` and its scan, `platform_data` is 0; afterwards it is the entry of the cached type.

The point the proof turns on is that `init` is set before the read, under the mutex. A second caller that sees `init` is therefore waiting on the mutex and cannot return early. `IdStep` has one case per action. `CheckTypeInit` is split on whether the caller is `get_platform_data`.

### Negotiator: `ProtoSetOnce`

Only `Negotiate` writes `nccl_proto`. `NegotiateStep` names the call's choices. A change needs the first configuration (`~nccl_proto_configured`), a `configure_nccl_proto` that takes its forcing branch, and so `need_ordering' = FALSE`. Every other action leaves `nccl_proto` unchanged. No invariant is needed.

### Identity caches: `IdTypeCorrect`

`IdInv` already contains the type of every variable except the cached line. Two lemmas close the gap:
- `LookupRange`: `LookupPlatform` returns an index of the table or 0.
- `FirstLineType`: `ReadFirstLine(c)` is a sequence of `LineChars`. The first newline is found as the least element of the set of newline positions (`FirstNewlineExists`, by well-foundedness of `<` on `Nat`). The file without a newline gets `EofByte` appended.

`FileAssumption` states what the code relies on here: file contents are characters, and `(char)EOF` (0xFF) is not `'\n'`.

### Rail sorter: `SortTypeCorrect`, `SortOutcomeHolds`, `UndefinedOnlyOnMisfitHolds`

All three rest on `SortInv`. While the loop runs it requires `LoopInv`:
- the counters count the rails placed so far: `rail_map[1] = Count(i, 0)` and `rail_map[2] = 2 + Count(i, 1)`;
- rail `k` sits in its slot `Slot(k)`, which is `Count(k - 1, 0)` on VF 0 and `2 + Count(k - 1, 1)` on VF 1;
- a cell is non-NULL exactly when it lies below one of the two counters (`Filled`), and it then holds the rail whose slot it is;
- once a VF 1 rail is seen, at most two VF 0 rails came before it and `rail_map[2] <= num_rails`.

Outside the loop, `SortInv` says that the list is untouched before and after a failure, and that `failed` and `ub` imply `~LayoutFits`.

The arithmetic on `Count` (a cardinality) comes from six lemmas. `CountStep` is the main one: `Count(n + 1, v)` is `Count(n, v)` plus one if rail `n + 1` is on VF `v`.

There is one lemma per action:
- **`PlaceRailStep`** is the hard case. The new rail goes into a cell that was empty, and the new counter keeps `Filled` exact.
- **`RejectDuplicateStep`** and **`OutOfBoundsStep`** derive `~LayoutFits` from the loop invariant. A used cell or a counter past the array means more than two VF 0 rails before a VF 1 rail, or too few cells.
- **`RelinkStep`** shows that when the loop finishes, every cell is filled and `RefPos(k) = Slot(k)`. Slots are injective, so the relinked list is `ReferenceOrder`.

TLC checked `SortInv` as an invariant of the `sort` bounds before it was proved.

### Rail sorter: `SortRefinement`

`SortRefinement` uses `SortInv` in both states of a step (from `SortInvariant`). Three lemmas relate `RailOrder` to the model:
- `FitsIsLayoutFits`: `Abstract!Fits = LayoutFits`;
- `RankIsRefPos`: when every rail has VF 0 or 1, `Abstract!Rank(k) = RefPos(k)`. On VF 1 the rails counted are the disjoint union of all VF 0 rails and the earlier VF 1 rails (`FS_Union`);
- `OrderIsReference`: so `Abstract!Order = ReferenceOrder`.

The instance's `Cardinality` is a symbol of its own to the prover, and `AbstractCardinality` equates the two.

`RefinementStep` takes one case per action:
- `Begin` with `num_rails <= 0` is a `Leave`, and otherwise a stutter;
- `PlaceRail` and `Returned` are stutters;
- every failure and the undefined write are a `Leave` (`FailIsLeave`). `SortInv` in the next state gives `~LayoutFits`, and the inputs never change;
- `Relink` is a `Sort` on a fitting layout. Otherwise `SortInv` says the list stays `InList`, so it is a `Leave`.

### GUID parser: `WellFormedAgreeHolds`

`strtol` is modelled as `Strtol10`, whose value is a recursive function `val` local to a `LET`. It is applied to the last two characters of the GUID only, so `val` has at most three points. `Strtol2` exhibits that function and reads off the end pointer and the value for two hexadecimal characters, so no induction over digit strings is needed.

`FgetsSpec` shows that a 19-character first line is what `fgets` reads into the 20-byte buffer. It takes the first newline as a least element (`WFMin`). `WellFormedResult` then computes `GetRailVfIdx` on a well-formed line.

The invariant `GuidInv` says that a returned result is `GetRailVfIdx(line)`. TLC checked it on the `guid` bounds first.

`LinesAssumption` says that file contents are sequences of characters and that the newline is neither a hex digit nor a sign.

### `platform_init`: `FlushOnlyWhereUnneeded`, `NvlsDecided`, `TunablesKept`, `OverridesKept`

They rest on `InitInv`, whose parts are:
- `TypeOK`;
- before the return, and after any failure, the tunables still hold their initial values;
- the value of `NCCL_NVLS_ENABLE` is Unset, User or "0";
- "0" only when the version needs it, and Unset past the NVLS block only when it does not;
- the flush and tunables properties themselves.

`InitStep` takes one case per block:
- a failing `setenv` goes through `FailStep`;
- a write to a variable other than the two read later goes through `WriteStep`;
- the table's numeric fields come from `CatalogValues`.

`OverridesKept` shows that every write is behind a getenv check or uses `setenv(..., 0)` (`DefaultKeepsSet`).

### What stays with TLC

These are only model-checked:
- **Liveness** (`EveryCallReturns` of the negotiator and of the identity caches). It rests on weak fairness and `ENABLED`, which TLAPS cannot prove here.
- **The violation runs** (`SpecInterleavedOrder`, `SpecPlatformType`, and the others). They state what the spec says and the code does not do, so they have nothing to prove. `SpecInterleavedOrder` also uses `SelectSeq`.

## Findings

Code defects:
- **Line 691:** `strcmp(get_platform_type(), ...)` dereferences NULL when `product_name` is unreadable.
- **Lines 718-727:** the first configuration is recorded before `configure_nccl_proto` can fail. Later calls then hand out unordered endpoints with `NCCL_PROTO` unset.
- **Lines 825-835:** `rail_idx` is never bounded by `num_rails`. This is an out-of-bounds stack access when a VF 1 rail meets `num_rails <= 2`.

Divergences from `spec.md`:
- **Rail layout:** the code gives VF0,VF0,VF1,VF1, but §8 says the rails interleave.
- **Platform type:** the code keeps `(char)EOF` when there is no final newline.
- **Latency:** g5, trn1 and trn1n get latency 0, but §4.5 says the fallback is 150 us.
- **GUID format:** malformed GUIDs are accepted. `strtol` skips spaces and takes a sign, only one colon is checked, and `fgets` truncates long lines.

Also noted, with no run:
- The p4d entry's default protocol is SENDRECV (line 46), while the end-to-end scenario of spec §8 says RDMA.
- The trace at line 309 prints `have_ordering ? "yes" : "no"` on the pointer, so it always prints "yes".
- `platform_sort_rails` returns `void`, so its errors are silent to the caller.

## Not modelled

- **Logging:** it changes no state.
- **The GDR check:** only its Boolean outcome is modelled.
- **`realloc` failure in the read loop:** a NULL write, listed as a hazard without a property.
- **Negative `num_rails`:** `alloca` runs before the `num_rails <= 0` check (line 801). The callers outside this file pass a rail count, so the model keeps `num_rails >= 0`.
- **The non-CUDA build:** in it, `platform_config_endpoint` skips the negotiation entirely.

## Plan for the next sittings

1. **`Platform` composition.** Run `platform_init`, the identity caches and concurrent endpoint configurations together. Check:
   - deadlock freedom over the three mutexes;
   - that the platform type the negotiator reads is the cached one.
2. **GUID-fed sort.** Compose `GuidParse` with the sort, so that VF indexes come from GUID files.
3. **More proofs:** `RailIdx` bounds for the sort as an action property, and the `Platform` composition's invariants once it exists.
