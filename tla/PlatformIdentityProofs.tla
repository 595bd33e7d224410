------------------------ MODULE PlatformIdentityProofs ------------------------
(***************************************************************************)
(* Proofs about the two computed-once caches of PlatformIdentity for every *)
(* set of threads, every bound on the calls and every product_name file.   *)
(***************************************************************************)
EXTENDS PlatformIdentity, FiniteSetTheorems, WellFoundedInduction, TLAPS

(* The values get_platform_type() can ever return.                        *)
TypeValues == {NoPlatform} \cup {ReadFirstLine(c) : c \in FileContents}

(* The entry get_platform_data() derives from a platform type.            *)
Val(ty) == IF ty = NoPlatform THEN 0 ELSE LookupPlatform(ty)

(* The type is read and nobody is reading it.                             *)
TypeFixed == type_init /\ \A t \in Threads : pc[t] # "t_read"

(* Thread t is inside the first call of get_platform_data(), between      *)
(* setting init and the table scan, holding its mutex.                    *)
DataPending(t) ==
  caller[t] = "data" /\ pc[t] \in {"t_lock", "t_check", "t_read", "d_scan"}

ControlOK ==
  /\ file \in FileContents \cup {Absent}
  /\ pc \in [Threads -> PcValues]
  /\ caller \in [Threads -> Callers]
  /\ platform_type \in TypeValues
  /\ ret_type \in [Threads -> TypeValues]
  /\ type_init \in BOOLEAN
  /\ data_init \in BOOLEAN
  /\ platform_mutex \in Threads \cup {NoThread}
  /\ data_mutex \in Threads \cup {NoThread}
  /\ calls \in 0..MaxCalls
  /\ \A t \in Threads : pc[t] \in {"d_lock", "d_check", "d_scan"} => caller[t] = "data"

(* Who holds which mutex.                                                 *)
MutexHeld ==
  /\ \A t \in Threads : pc[t] \in {"t_check", "t_read"} => platform_mutex = t
  /\ \A t \in Threads : pc[t] = "d_check" \/ DataPending(t) => data_mutex = t

(* product_name is read only by the thread that set init.                 *)
OnceRead ==
  /\ ~type_init => platform_type = NoPlatform /\ reads = 0 /\ type_results = {}
  /\ \A t \in Threads : pc[t] = "t_read" => type_init /\ reads = 0
  /\ reads \in {0, 1}

(* Every value returned is the one cached by the single read.             *)
TypeAgree ==
  /\ type_results # {} => TypeFixed
  /\ type_results \subseteq {platform_type}
  /\ \A t \in Threads : pc[t] = "d_scan" => TypeFixed /\ ret_type[t] = platform_type

DataAgree ==
  /\ \A t \in Threads : DataPending(t) => data_init /\ platform_data = 0
  /\ ~data_init => platform_data = 0 /\ data_results = {}
  /\ data_init /\ (\A t \in Threads : ~DataPending(t)) =>
       TypeFixed /\ platform_data = Val(platform_type)
  /\ data_results # {} => TypeFixed
  /\ data_results \subseteq {Val(platform_type)}

IdInv == ControlOK /\ MutexHeld /\ OnceRead /\ TypeAgree /\ DataAgree


USE ThreadsAssumption, MaxCallsAssumption DEF PcValues, Callers, dataVars, typeVars

(* The table scan yields 0 or the index of an entry of the table: the    *)
(* last matching entry exists whenever one matches.                       *)
LEMMA LookupRange ==
  ASSUME NEW ty
  PROVE  LookupPlatform(ty) \in 0..Len(platform_data_map)
<1> DEFINE hits == {k \in DOMAIN platform_data_map : <<platform_data_map[k].name>> = ty}
<1>1. DOMAIN platform_data_map = 1..7 /\ Len(platform_data_map) = 7
  BY DEF platform_data_map
<1>2. CASE hits = {}
  BY <1>1, <1>2 DEF LookupPlatform
<1>3. CASE hits # {}
  <2> DEFINE top == IF 7 \in hits THEN 7 ELSE IF 6 \in hits THEN 6
                    ELSE IF 5 \in hits THEN 5 ELSE IF 4 \in hits THEN 4
                    ELSE IF 3 \in hits THEN 3 ELSE IF 2 \in hits THEN 2 ELSE 1
  <2>1. hits \subseteq 1..7
    BY <1>1
  <2>2. top \in hits /\ \A j \in hits : j <= top
    BY <1>3, <2>1
  <2>3. (CHOOSE k \in hits : \A j \in hits : j <= k) \in hits
    BY <2>2
  <2>4. LookupPlatform(ty) = CHOOSE k \in hits : \A j \in hits : j <= k
    BY <1>3, Zenon DEF LookupPlatform
  <2> HIDE DEF top, hits
  <2>5. LookupPlatform(ty) \in hits
    BY <2>3, <2>4, Zenon
  <2>6. LookupPlatform(ty) \in 1..7
    BY <2>1, <2>5, Zenon
  <2>7. QED
    BY <1>1, <2>6
<1>4. QED
  BY <1>2, <1>3

(* A line that holds a '\n' has a first one.                               *)
LEMMA FirstNewlineExists ==
  ASSUME NEW c \in Seq(FileChars), \E k \in DOMAIN c : c[k] = NL
  PROVE  /\ FirstNewline(c) \in DOMAIN c
         /\ c[FirstNewline(c)] = NL
         /\ \A j \in 1..FirstNewline(c) - 1 : c[j] # NL
<1> DEFINE T == {k \in DOMAIN c : c[k] = NL}
<1>1. T \subseteq Nat /\ T # {}
  OBVIOUS
<1>2. \E m \in T : \A y \in T : ~(<<y, m>> \in OpToRel(<, Nat))
  BY <1>1, NatLessThanWellFounded, WFMin
<1>3. \E m \in DOMAIN c : c[m] = NL /\ \A j \in 1..m - 1 : c[j] # NL
  <2>1. PICK m \in T : \A y \in T : ~(<<y, m>> \in OpToRel(<, Nat))
    BY <1>2
  <2>2. \A y \in T : ~(y < m)
    BY <1>1, <2>1 DEF OpToRel
  <2>3. QED
    BY <2>2
<1>4. QED
  BY <1>3 DEF FirstNewline

(* The first line of product_name, as read, is a string of line           *)
(* characters: it never holds the '\n' that ends it.                      *)
LEMMA FirstLineType ==
  ASSUME NEW c \in FileContents
  PROVE  ReadFirstLine(c) \in Seq(LineChars)
<1>1. c \in Seq(FileChars)
  BY FileAssumption
<1>2. \A j \in DOMAIN c : c[j] \in FileChars
  BY DEF FileChars
<1>3. CASE \E k \in DOMAIN c : c[k] = NL
  <2> DEFINE f == FirstNewline(c)
  <2>1. f \in 1..Len(c) /\ \A j \in 1..f - 1 : c[j] # NL
    BY <1>1, <1>3, FirstNewlineExists
  <2>2. \A j \in 1..f - 1 : c[j] \in LineChars
    BY <1>1, <1>2, <2>1 DEF LineChars
  <2>3. SubSeq(c, 1, f - 1) \in Seq(LineChars)
    BY <1>1, <2>1, <2>2
  <2>4. QED
    BY <1>3, <2>3 DEF ReadFirstLine
<1>4. CASE ~\E k \in DOMAIN c : c[k] = NL
  <2>1. \A j \in 1..Len(c) : c[j] \in LineChars
    BY <1>1, <1>2, <1>4 DEF LineChars
  <2>2. EofByte \in LineChars
    BY FileAssumption DEF LineChars
  <2>3. c \in Seq(LineChars)
    BY <1>1, <2>1
  <2>4. c \o <<EofByte>> \in Seq(LineChars)
    BY <2>2, <2>3
  <2>5. QED
    BY <1>4, <2>4 DEF ReadFirstLine
<1>5. QED
  BY <1>3, <1>4

(* Whatever product_name holds, the read caches a value of TypeValues.    *)
LEMMA ReadOutcomesType ==
  ASSUME file \in FileContents \cup {Absent}
  PROVE  ReadOutcomes \subseteq TypeValues
BY DEF ReadOutcomes, TypeValues

LEMMA IdInit == Init => IdInv
<1> SUFFICES ASSUME Init PROVE IdInv
  OBVIOUS
<1>1. ControlOK
  <2>1. calls \in 0..MaxCalls
    BY DEF Init
  <2>2. QED
    BY <2>1 DEF Init, ControlOK, TypeValues
<1>2. MutexHeld /\ OnceRead /\ TypeAgree
  BY DEF Init, MutexHeld, OnceRead, TypeAgree, DataPending
<1>3. DataAgree
  BY DEF Init, DataAgree, DataPending
<1>4. QED
  BY <1>1, <1>2, <1>3 DEF IdInv

(* IdInv is inductive.                                                    *)
LEMMA IdStep == IdInv /\ [Next]_vars => IdInv'
<1> SUFFICES ASSUME IdInv, [Next]_vars PROVE IdInv'
  OBVIOUS
<1> USE DEF IdInv, ControlOK
<1>1. ASSUME NEW t \in Threads, Call(t) PROVE IdInv'
  BY <1>1 DEF Call, MutexHeld, OnceRead, TypeAgree, DataAgree, TypeFixed,
              DataPending
<1>2. ASSUME NEW t \in Threads, LockData(t) PROVE IdInv'
  BY <1>2 DEF LockData, MutexHeld, OnceRead, TypeAgree, DataAgree, TypeFixed,
              DataPending
<1>3. ASSUME NEW t \in Threads, CheckDataInit(t) PROVE IdInv'
  <2>1. data_mutex = t /\ \A s \in Threads : ~DataPending(s)
    BY <1>3 DEF CheckDataInit, MutexHeld, DataPending
  <2>2. CASE data_init
    BY <1>3, <2>1, <2>2 DEF CheckDataInit, MutexHeld, OnceRead, TypeAgree,
                            DataAgree, TypeFixed, DataPending
  <2>3. CASE ~data_init
    BY <1>3, <2>1, <2>3 DEF CheckDataInit, MutexHeld, OnceRead, TypeAgree,
                            DataAgree, TypeFixed, DataPending
  <2>4. QED
    BY <2>2, <2>3
<1>4. ASSUME NEW t \in Threads, LockType(t) PROVE IdInv'
  BY <1>4 DEF LockType, MutexHeld, OnceRead, TypeAgree, DataAgree, TypeFixed,
              DataPending
<1>5. ASSUME NEW t \in Threads, CheckTypeInit(t) PROVE IdInv'
  <2>1. platform_mutex = t /\ \A s \in Threads : pc[s] # "t_read"
    BY <1>5 DEF CheckTypeInit, MutexHeld
  <2>2. CASE type_init
    \* the cached value is returned; nobody is reading it
    <3>1. TypeFixed
      BY <2>1, <2>2 DEF TypeFixed
    <3>2. /\ platform_mutex' = NoThread
          /\ type_results' = type_results \cup {platform_type}
          /\ UNCHANGED <<file, caller, calls, platform_type, reads, type_init>>
          /\ UNCHANGED dataVars
      BY <1>5, <2>2 DEF CheckTypeInit, ReturnType
    <3>3. CASE caller[t] = "data"
      <4>1. pc' = [pc EXCEPT ![t] = "d_scan"]
            /\ ret_type' = [ret_type EXCEPT ![t] = platform_type]
        BY <1>5, <2>2, <3>3 DEF CheckTypeInit, ReturnType
      <4>2. data_mutex = t
        BY <1>5, <3>3 DEF CheckTypeInit, MutexHeld, DataPending
      <4>3. QED
        BY <1>5, <3>1, <3>2, <3>3, <4>1, <4>2 DEF CheckTypeInit, MutexHeld,
           OnceRead, TypeAgree, DataAgree, TypeFixed, DataPending
    <3>4. CASE caller[t] # "data"
      <4>1. pc' = [pc EXCEPT ![t] = "idle"] /\ UNCHANGED ret_type
        BY <1>5, <2>2, <3>4 DEF CheckTypeInit, ReturnType
      <4>2. QED
        BY <1>5, <3>1, <3>2, <3>4, <4>1 DEF CheckTypeInit, MutexHeld,
           OnceRead, TypeAgree, DataAgree, TypeFixed, DataPending
    <3>5. QED
      BY <3>3, <3>4
  <2>3. CASE ~type_init
    BY <1>5, <2>1, <2>3 DEF CheckTypeInit, MutexHeld, OnceRead, TypeAgree,
                            DataAgree, TypeFixed, DataPending
  <2>4. QED
    BY <2>2, <2>3
<1>6. ASSUME NEW t \in Threads, ReadFile(t) PROVE IdInv'
  <2>1. PICK v \in ReadOutcomes : platform_type' = v /\ ReturnType(t, v)
    BY <1>6 DEF ReadFile
  <2>2. v \in TypeValues
    BY ReadOutcomesType
  <2>3. platform_mutex = t /\ \A s \in Threads \ {t} : pc[s] # "t_read"
    BY <1>6 DEF ReadFile, MutexHeld
  <2>4. type_results = {} /\ data_results = {} /\ type_init /\ reads = 0
    BY <1>6 DEF ReadFile, OnceRead, TypeAgree, DataAgree, TypeFixed
  <2>5. ControlOK'
    BY <1>6, <2>1, <2>2 DEF ReadFile, ReturnType
  <2>6. MutexHeld' /\ OnceRead'
    BY <1>6, <2>1, <2>3, <2>4 DEF ReadFile, ReturnType, MutexHeld, OnceRead,
                                  DataPending
  <2>7. TypeAgree'
    BY <1>6, <2>1, <2>3, <2>4 DEF ReadFile, ReturnType, TypeAgree, TypeFixed
  <2>8. DataAgree'
    BY <1>6, <2>1, <2>3, <2>4 DEF ReadFile, ReturnType, DataAgree, TypeFixed,
                                  DataPending
  <2>9. QED
    BY <2>5, <2>6, <2>7, <2>8
<1>7. ASSUME NEW t \in Threads, ScanTable(t) PROVE IdInv'
  <2>1. data_mutex = t /\ \A s \in Threads \ {t} : ~DataPending(s)
    BY <1>7 DEF ScanTable, MutexHeld, DataPending
  <2>2. TypeFixed /\ ret_type[t] = platform_type /\ platform_data = 0
    BY <1>7 DEF ScanTable, TypeAgree, DataAgree, DataPending
  <2>3. platform_data' = Val(platform_type)
    BY <1>7, <2>2 DEF ScanTable, Val
  <2>4. QED
    BY <1>7, <2>1, <2>2, <2>3 DEF ScanTable, MutexHeld, OnceRead, TypeAgree,
                                  DataAgree, TypeFixed, DataPending
<1>8. CASE Terminated \/ UNCHANGED vars
  BY <1>8 DEF Terminated, vars, MutexHeld, OnceRead, TypeAgree, DataAgree,
              TypeFixed, DataPending
<1>9. QED
  BY <1>1, <1>2, <1>3, <1>4, <1>5, <1>6, <1>7, <1>8 DEF Next

-----------------------------------------------------------------------------
(* product_name is opened at most once per process, for any number of     *)
(* threads and calls, even when the read fails: get_platform_type() sets  *)
(* init under platform_mutex before it reads.                             *)
THEOREM ReadOnce == Spec => []OneFileRead
<1>1. IdInv => OneFileRead
  BY DEF IdInv, OnceRead, OneFileRead
<1>2. QED
  BY <1>1, IdInit, IdStep, PTL DEF Spec

(* All callers of get_platform_type() observe one value and every value   *)
(* get_platform_data() returns is that type's table entry, however the    *)
(* first calls of any number of threads interleave.                       *)
THEOREM CachesAgree == Spec => []CallersAgree
<1>1. ASSUME IdInv PROVE CallersAgree
  <2>1. type_results \subseteq {platform_type}
    BY <1>1 DEF IdInv, TypeAgree
  <2>2. IsFiniteSet({platform_type}) /\ Cardinality({platform_type}) = 1
    BY FS_Singleton
  <2>3. Cardinality(type_results) <= 1
    BY <2>1, <2>2, FS_Subset
  <2>4. \A d \in data_results, ty \in type_results :
          d = IF ty = NoPlatform THEN 0 ELSE LookupPlatform(ty)
    BY <1>1, <2>1 DEF IdInv, DataAgree, Val
  <2>5. QED
    BY <2>3, <2>4 DEF CallersAgree
<1>2. QED
  BY <1>1, IdInit, IdStep, PTL DEF Spec

(* Both caches keep their types under every interleaving: the type is     *)
(* NULL or a first line of product_name without its '\n', each thread's   *)
(* copy likewise, the cached entry and every entry returned index the     *)
(* table (or are NULL), and the calls stay within their bound.            *)
THEOREM IdTypeCorrect == Spec => []TypeOK
<1>1. ASSUME IdInv PROVE TypeOK
  <2>1. TypeValues \subseteq Seq(LineChars) \cup {NoPlatform}
    BY FirstLineType DEF TypeValues
  <2>2. Len(platform_data_map) = 7
    BY DEF platform_data_map
  <2>3. Val(platform_type) \in 0..Len(platform_data_map)
    BY <2>2, LookupRange DEF Val
  <2>4. platform_data \in {0, Val(platform_type)}
    BY <1>1 DEF IdInv, DataAgree
  <2>5. data_results \subseteq {Val(platform_type)}
    BY <1>1 DEF IdInv, DataAgree
  <2>6. reads \in Nat
    BY <1>1 DEF IdInv, OnceRead
  <2>7. QED
    BY <1>1, <2>1, <2>2, <2>3, <2>4, <2>5, <2>6 DEF IdInv, ControlOK, TypeOK
<1>2. QED
  BY <1>1, IdInit, IdStep, PTL DEF Spec
=============================================================================
