----------------------------- MODULE PlatformIdentity -----------------------------
(***************************************************************************)
(* The two computed-once caches of src/platform-aws.c:                     *)
(*  get_platform_type(): under platform_mutex, on the first call sets      *)
(*    init, reads the first line of /sys/devices/virtual/dmi/id/           *)
(*    product_name and caches it (NULL on any failure, never retried);     *)
(*  get_platform_data(): under its own mutex, on the first call sets init, *)
(*    calls get_platform_type() (taking platform_mutex while holding its   *)
(*    own) and caches the table entry for that type (NULL if none).        *)
(* Threads call either function, a bounded number of times in all.         *)
(***************************************************************************)
EXTENDS PlatformData, FiniteSets

CONSTANTS
  Threads,        \* threads calling the two functions
  NoThread,       \* owner of a mutex nobody holds
  MaxCalls,       \* bound on the number of calls
  FileContents,   \* possible contents of product_name (Absent: no file)
  Absent,         \* fopen() fails
  NL,             \* the '\n' character
  EofByte,        \* (char)EOF, the byte fgetc's EOF becomes in a char
  NoPlatform,     \* a NULL platform type
  ReadMayFail     \* malloc or the read may fail (ferror)

ASSUME ThreadsAssumption == NoThread \notin Threads
ASSUME MaxCallsAssumption == MaxCalls \in Nat
ASSUME ReadAssumption == ReadMayFail \in BOOLEAN

(* Lines 145-153: characters are stored until '\n'; feof is only tested   *)
(* before fgetc, so a last line without '\n' also stores the EOF fgetc    *)
(* returns, converted to char.                                            *)
FirstNewline(content) ==
  CHOOSE k \in DOMAIN content :
    content[k] = NL /\ \A j \in 1..k-1 : content[j] # NL

(* Mutant: the terminating '\n' is kept in the buffer.                    *)
ReadFirstLineKeepsNewline(content) ==
  IF \E k \in DOMAIN content : content[k] = NL
  THEN SubSeq(content, 1, FirstNewline(content))
  ELSE content \o <<EofByte>>

ReadFirstLine(content) ==
  IF \E k \in DOMAIN content : content[k] = NL
  THEN SubSeq(content, 1, FirstNewline(content) - 1)
  ELSE content \o <<EofByte>>

Callers == {"type", "data"}

PcValues == {"idle", "d_lock", "d_check", "t_lock", "t_check", "t_read", "d_scan"}

VARIABLES
  file,            \* the content of product_name for this boot
  type_init,       \* static bool init of get_platform_type
  platform_type,   \* static char *platform_type
  platform_mutex,  \* owner of platform_mutex
  data_init,       \* static bool init of get_platform_data
  platform_data,   \* static platform_data: index into the table, 0 = NULL
  data_mutex,      \* owner of get_platform_data's mutex
  pc,              \* position of each thread
  caller,          \* function each thread entered
  ret_type,        \* the value get_platform_type returned to get_platform_data
  calls,           \* calls made so far
  reads,           \* times product_name was opened
  type_results,    \* history: values get_platform_type returned
  data_results     \* history: values get_platform_data returned

vars == <<file, type_init, platform_type, platform_mutex, data_init,
          platform_data, data_mutex, pc, caller, ret_type, calls, reads,
          type_results, data_results>>

dataVars == <<data_init, platform_data, data_mutex, data_results>>
typeVars == <<type_init, platform_type, platform_mutex, type_results, reads>>

-----------------------------------------------------------------------------
Init ==
  /\ file \in FileContents \cup {Absent}
  /\ type_init = FALSE
  /\ platform_type = NoPlatform
  /\ platform_mutex = NoThread
  /\ data_init = FALSE
  /\ platform_data = 0
  /\ data_mutex = NoThread
  /\ pc = [t \in Threads |-> "idle"]
  /\ caller = [t \in Threads |-> "type"]
  /\ ret_type = [t \in Threads |-> NoPlatform]
  /\ calls = 0
  /\ reads = 0
  /\ type_results = {}
  /\ data_results = {}

(* A thread enters get_platform_type() or get_platform_data().            *)
Call(t) ==
  /\ pc[t] = "idle"
  /\ calls < MaxCalls
  /\ calls' = calls + 1
  /\ \E c \in Callers :
       /\ caller' = [caller EXCEPT ![t] = c]
       /\ pc' = [pc EXCEPT ![t] = IF c = "data" THEN "d_lock" ELSE "t_lock"]
  /\ UNCHANGED <<file, ret_type>>
  /\ UNCHANGED dataVars
  /\ UNCHANGED typeVars

(* Line 195: nccl_net_ofi_mutex_lock(&mutex).                             *)
LockData(t) ==
  /\ pc[t] = "d_lock"
  /\ data_mutex = NoThread
  /\ data_mutex' = t
  /\ pc' = [pc EXCEPT ![t] = "d_check"]
  /\ UNCHANGED <<file, caller, ret_type, calls, data_init, platform_data, data_results>>
  /\ UNCHANGED typeVars

(* Lines 197-203: return the cached entry, or set init and go on to call  *)
(* get_platform_type() with the mutex still held.                         *)
CheckDataInit(t) ==
  /\ pc[t] = "d_check"
  /\ IF data_init
     THEN /\ data_mutex' = NoThread
          /\ data_results' = data_results \cup {platform_data}
          /\ pc' = [pc EXCEPT ![t] = "idle"]
          /\ UNCHANGED data_init
     ELSE /\ data_init' = TRUE
          /\ pc' = [pc EXCEPT ![t] = "t_lock"]
          /\ UNCHANGED <<data_mutex, data_results>>
  /\ UNCHANGED <<file, caller, ret_type, calls, platform_data>>
  /\ UNCHANGED typeVars

(* Mutant: get_platform_type() reads init without taking platform_mutex. *)
LockTypeNoWait(t) ==
  /\ pc[t] = "t_lock"
  /\ platform_mutex' = platform_mutex
  /\ pc' = [pc EXCEPT ![t] = "t_check"]
  /\ UNCHANGED <<file, caller, ret_type, calls, type_init, platform_type,
                 type_results, reads>>
  /\ UNCHANGED dataVars

(* Line 124: nccl_net_ofi_mutex_lock(&platform_mutex).                    *)
LockType(t) ==
  /\ pc[t] = "t_lock"
  /\ platform_mutex = NoThread
  /\ platform_mutex' = t
  /\ pc' = [pc EXCEPT ![t] = "t_check"]
  /\ UNCHANGED <<file, caller, ret_type, calls, type_init, platform_type,
                 type_results, reads>>
  /\ UNCHANGED dataVars

(* Return v from get_platform_type(), unlocking platform_mutex; back in   *)
(* get_platform_data() the result is kept for the table scan.             *)
ReturnType(t, v) ==
  /\ platform_mutex' = NoThread
  /\ type_results' = type_results \cup {v}
  /\ IF caller[t] = "data"
     THEN /\ pc' = [pc EXCEPT ![t] = "d_scan"]
          /\ ret_type' = [ret_type EXCEPT ![t] = v]
     ELSE /\ pc' = [pc EXCEPT ![t] = "idle"]
          /\ UNCHANGED ret_type

(* Mutant: init is left false until a read succeeds, so a failed read is *)
(* retried by the next caller.                                            *)
CheckTypeInitNoSet(t) ==
  /\ pc[t] = "t_check"
  /\ IF type_init
     THEN /\ ReturnType(t, platform_type)
          /\ UNCHANGED type_init
     ELSE /\ pc' = [pc EXCEPT ![t] = "t_read"]
          /\ UNCHANGED <<type_init, platform_mutex, type_results, ret_type>>
  /\ UNCHANGED <<file, caller, calls, platform_type, reads>>
  /\ UNCHANGED dataVars

(* Lines 126-131: return the cached type, or set init before reading.     *)
CheckTypeInit(t) ==
  /\ pc[t] = "t_check"
  /\ IF type_init
     THEN /\ ReturnType(t, platform_type)
          /\ UNCHANGED type_init
     ELSE /\ type_init' = TRUE
          /\ pc' = [pc EXCEPT ![t] = "t_read"]
          /\ UNCHANGED <<platform_mutex, type_results, ret_type>>
  /\ UNCHANGED <<file, caller, calls, platform_type, reads>>
  /\ UNCHANGED dataVars

(* Lines 133-176: fopen, malloc, the read loop and ferror; any failure    *)
(* frees the buffer and caches NULL.                                      *)
ReadOutcomes ==
  IF file = Absent THEN {NoPlatform}
  ELSE {ReadFirstLine(file)} \cup (IF ReadMayFail THEN {NoPlatform} ELSE {})

ReadFile(t) ==
  /\ pc[t] = "t_read"
  /\ reads' = reads + 1
  /\ \E v \in ReadOutcomes :
       /\ platform_type' = v
       /\ ReturnType(t, v)
  /\ UNCHANGED <<file, caller, calls, type_init>>
  /\ UNCHANGED dataVars

(* Mutant: the early return for a NULL platform type forgets the unlock. *)
ScanTableNoUnlockOnNull(t) ==
  /\ pc[t] = "d_scan"
  /\ LET found == IF ret_type[t] = NoPlatform THEN platform_data
                  ELSE LookupPlatform(ret_type[t])
     IN /\ platform_data' = found
        /\ data_results' = data_results \cup {found}
  /\ data_mutex' = IF ret_type[t] = NoPlatform THEN data_mutex ELSE NoThread
  /\ pc' = [pc EXCEPT ![t] = "idle"]
  /\ UNCHANGED <<file, caller, ret_type, calls, data_init>>
  /\ UNCHANGED typeVars

(* Lines 204-216: NULL type returns NULL; otherwise scan the table and    *)
(* cache the entry; unlock the mutex.                                     *)
ScanTable(t) ==
  /\ pc[t] = "d_scan"
  /\ LET found == IF ret_type[t] = NoPlatform THEN platform_data
                  ELSE LookupPlatform(ret_type[t])
     IN /\ platform_data' = found
        /\ data_results' = data_results \cup {found}
  /\ data_mutex' = NoThread
  /\ pc' = [pc EXCEPT ![t] = "idle"]
  /\ UNCHANGED <<file, caller, ret_type, calls, data_init>>
  /\ UNCHANGED typeVars

(* All calls have returned.                                               *)
Terminated ==
  /\ calls = MaxCalls
  /\ \A t \in Threads : pc[t] = "idle"
  /\ UNCHANGED vars

Next ==
  \/ \E t \in Threads :
       \/ Call(t) \/ LockData(t) \/ CheckDataInit(t) \/ LockType(t)
       \/ CheckTypeInit(t) \/ ReadFile(t) \/ ScanTable(t)
  \/ Terminated

(* A thread inside either function keeps running: the mutexes are always  *)
(* released and the reads are bounded local-file reads.                  *)
Fairness ==
  \A t \in Threads :
    /\ WF_vars(LockData(t)) /\ WF_vars(CheckDataInit(t)) /\ WF_vars(LockType(t))
    /\ WF_vars(CheckTypeInit(t)) /\ WF_vars(ReadFile(t)) /\ WF_vars(ScanTable(t))

Spec == Init /\ [][Next]_vars /\ Fairness

-----------------------------------------------------------------------------
(* The characters a line of product_name may hold: never the '\n' that   *)
(* ends it.                                                               *)
FileChars == UNION {{c[k] : k \in DOMAIN c} : c \in FileContents}

LineChars == (FileChars \cup {EofByte}) \ {NL}

(* product_name holds a string of characters, and the char that fgetc's  *)
(* EOF (-1) becomes is 0xFF, never '\n'.                                  *)
ASSUME FileAssumption == FileContents \subseteq Seq(FileChars) /\ EofByte # NL

TypeOK ==
  /\ file \in FileContents \cup {Absent}
  /\ type_init \in BOOLEAN
  /\ platform_type \in Seq(LineChars) \cup {NoPlatform}
  /\ ret_type \in [Threads -> Seq(LineChars) \cup {NoPlatform}]
  /\ platform_mutex \in Threads \cup {NoThread}
  /\ data_init \in BOOLEAN
  /\ platform_data \in 0..Len(platform_data_map)
  /\ data_mutex \in Threads \cup {NoThread}
  /\ pc \in [Threads -> PcValues]
  /\ caller \in [Threads -> Callers]
  /\ calls \in 0..MaxCalls
  /\ reads \in Nat
  /\ data_results \subseteq 0..Len(platform_data_map)

(* product_name is opened at most once per process, even when the first  *)
(* read fails (the failure is cached, never retried).                     *)
OneFileRead == reads <= 1

(* All callers of get_platform_type() observe the same value, and every   *)
(* value get_platform_data() returns is the table entry of that type,     *)
(* however the threads' first calls interleave.                           *)
CallersAgree ==
  /\ Cardinality(type_results) <= 1
  /\ \A d \in data_results, ty \in type_results :
       d = IF ty = NoPlatform THEN 0 ELSE LookupPlatform(ty)

(* Every call of either function returns.                                 *)
EveryCallReturns ==
  \A t \in Threads : pc[t] # "idle" ~> pc[t] = "idle"

(* spec.md 4.1: the cached type is the file's first line with the         *)
(* trailing newline stripped.                                             *)
SpecFirstLine(content) ==
  IF \E k \in DOMAIN content : content[k] = NL
  THEN SubSeq(content, 1, FirstNewline(content) - 1)
  ELSE content

SpecPlatformType ==
  \A ty \in type_results : ty # NoPlatform => ty = SpecFirstLine(file)

=============================================================================
