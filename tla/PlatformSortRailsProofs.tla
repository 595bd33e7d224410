----------------------- MODULE PlatformSortRailsProofs -----------------------
(***************************************************************************)
(* Proofs about platform_sort_rails() for every num_rails, list length and *)
(* vector of VF indexes.                                                   *)
(***************************************************************************)
EXTENDS PlatformSortRails, FiniteSetTheorems, TLAPS

(* The cell rail_map gives rail k: its rank among the rails of its VF,   *)
(* from 0 for VF 0 and from 2 for VF 1.                                   *)
Slot(k) == IF vf_idx[k] = 0 THEN Count(k - 1, 0) ELSE 2 + Count(k - 1, 1)

(* The cells the loop has filled: the first rail_map[1] cells, and those *)
(* from 2 up to rail_map[2].                                              *)
Filled(p) == p < rail_map[1] \/ (2 <= p /\ p < rail_map[2])

Cells == 0..num_rails - 1

(* While the loop runs, the counters count the rails placed so far, each  *)
(* placed rail sits in its slot, and the filled cells hold placed rails.  *)
LoopInv ==
  /\ 0 < num_rails /\ i <= list_len
  /\ sorted \in [Cells -> Rails \cup {NULL}]
  /\ info_list = InList
  /\ \A k \in 1..i : vf_idx[k] \in 0..NumVfs-1
  /\ rail_map[1] = Count(i, 0) /\ rail_map[2] = 2 + Count(i, 1)
  /\ Count(i, 1) > 0 => Count(i, 0) <= 2 /\ rail_map[2] <= num_rails
  /\ \A k \in 1..i : Slot(k) \in Cells /\ sorted[Slot(k)] = k
  /\ \A p \in Cells : sorted[p] # NULL <=> Filled(p)
  /\ \A p \in Cells : sorted[p] # NULL => sorted[p] \in 1..i /\ Slot(sorted[p]) = p

SortInv ==
  /\ TypeOK
  /\ phase = "start" => i = 0 /\ rail_map = <<0, 2>> /\ info_list = InList
  /\ phase = "loop" => LoopInv
  /\ phase \in {"failed", "ub"} => info_list = InList
  /\ phase \in {"failed", "ub"} => ~LayoutFits
  /\ phase = "sorted" =>
       IF LayoutFits THEN info_list = ReferenceOrder ELSE info_list = InList

-----------------------------------------------------------------------------
USE DEF NumVfs, Cells

(* The rails of VF v among the first n form a finite set of at most n.    *)
LEMMA CountType ==
  ASSUME NEW n \in Nat, NEW v
  PROVE  /\ IsFiniteSet({k \in 1..n : vf_idx[k] = v})
         /\ Count(n, v) \in 0..n
<1>1. IsFiniteSet(1..n) /\ Cardinality(1..n) = n
  BY FS_Interval
<1>2. {k \in 1..n : vf_idx[k] = v} \in SUBSET (1..n)
  OBVIOUS
<1>3. /\ IsFiniteSet({k \in 1..n : vf_idx[k] = v})
      /\ Cardinality({k \in 1..n : vf_idx[k] = v}) <= n
  BY <1>1, <1>2, FS_Subset
<1>4. Cardinality({k \in 1..n : vf_idx[k] = v}) \in Nat
  BY <1>3, FS_CardinalityType
<1>5. QED
  BY <1>3, <1>4 DEF Count

(* Counting one more rail adds one exactly when it is on VF v.            *)
LEMMA CountStep ==
  ASSUME NEW n \in Nat, NEW v
  PROVE  Count(n + 1, v) = Count(n, v) + (IF vf_idx[n + 1] = v THEN 1 ELSE 0)
<1> DEFINE S == {k \in 1..n : vf_idx[k] = v}
<1>1. IsFiniteSet(S)
  BY CountType
<1>2. n + 1 \notin S
  OBVIOUS
<1>3. CASE vf_idx[n + 1] = v
  <2>1. {k \in 1..n + 1 : vf_idx[k] = v} = S \cup {n + 1}
    BY <1>3
  <2>2. QED
    BY <1>1, <1>2, <1>3, <2>1, FS_AddElement DEF Count
<1>4. CASE vf_idx[n + 1] # v
  <2>1. {k \in 1..n + 1 : vf_idx[k] = v} = S
    BY <1>4
  <2>2. Count(n, v) \in 0..n
    BY CountType
  <2>3. Count(n + 1, v) = Count(n, v)
    BY <2>1, Zenon DEF Count
  <2>4. QED
    BY <1>4, <2>2, <2>3
<1>5. QED
  BY <1>3, <1>4

(* More rails never count fewer.                                           *)
LEMMA CountMono ==
  ASSUME NEW m \in Nat, NEW n \in Nat, m <= n, NEW v
  PROVE  Count(m, v) <= Count(n, v)
<1>1. IsFiniteSet({k \in 1..n : vf_idx[k] = v})
  BY CountType
<1>2. {k \in 1..m : vf_idx[k] = v} \in SUBSET {k \in 1..n : vf_idx[k] = v}
  OBVIOUS
<1>3. QED
  BY <1>1, <1>2, FS_Subset DEF Count

(* A rail on VF v among the first n makes the count positive.            *)
LEMMA CountPos ==
  ASSUME NEW n \in Nat, NEW k \in 1..n, NEW v, vf_idx[k] = v
  PROVE  Count(n, v) >= 1
<1>0. k - 1 \in Nat /\ (k - 1) + 1 = k
  OBVIOUS
<1>1. Count((k - 1) + 1, v) = Count(k - 1, v) + (IF vf_idx[(k - 1) + 1] = v THEN 1 ELSE 0)
  BY <1>0, CountStep, Zenon
<1>2. Count(k - 1, v) \in 0..(k - 1)
  BY <1>0, CountType, Zenon
<1>3. Count(k, v) <= Count(n, v)
  BY CountMono
<1>4. Count(k, v) = Count(k - 1, v) + 1
  BY <1>0, <1>1, Zenon
<1>5. Count(n, v) \in 0..n
  BY CountType, Zenon
<1>6. QED
  BY <1>2, <1>3, <1>4, <1>5

(* When every one of the first n rails is on VF 0 or 1, the two counts    *)
(* add up to n.                                                            *)
LEMMA CountSum ==
  ASSUME NEW n \in Nat, \A k \in 1..n : vf_idx[k] \in 0..1
  PROVE  Count(n, 0) + Count(n, 1) = n
<1> DEFINE S0 == {k \in 1..n : vf_idx[k] = 0}
           S1 == {k \in 1..n : vf_idx[k] = 1}
<1>1. IsFiniteSet(S0) /\ IsFiniteSet(S1)
  BY CountType
<1>2. S0 \cup S1 = 1..n /\ S0 \cap S1 = {}
  OBVIOUS
<1>3. Cardinality(S0 \cup S1) = Cardinality(S0) + Cardinality(S1) - Cardinality(S0 \cap S1)
  BY <1>1, FS_Union
<1>4. Cardinality(1..n) = n /\ Cardinality({}) = 0
  BY FS_Interval, FS_EmptySet
<1>5. Cardinality(S0) \in Nat /\ Cardinality(S1) \in Nat
  BY <1>1, FS_CardinalityType
<1>6. Count(n, 0) = Cardinality(S0) /\ Count(n, 1) = Cardinality(S1)
  BY DEF Count
<1>7. Cardinality(S0 \cup S1) = n /\ Cardinality(S0 \cap S1) = 0
  BY <1>2, <1>4, Zenon
<1>8. QED
  BY <1>3, <1>5, <1>6, <1>7

(* No rail is counted among the first 0.                                   *)
LEMMA CountZero ==
  ASSUME NEW v
  PROVE  Count(0, v) = 0
<1>1. {k \in 1..0 : vf_idx[k] = v} = {}
  OBVIOUS
<1>2. QED
  BY <1>1, FS_EmptySet, Zenon DEF Count

(* Every step leaves the call's inputs alone, and with them everything   *)
(* the reference order and the slots are computed from.                   *)
LEMMA Frozen ==
  ASSUME num_rails' = num_rails, list_len' = list_len, vf_idx' = vf_idx
  PROVE  /\ InList' = InList
         /\ LayoutFits' = LayoutFits
         /\ ReferenceOrder' = ReferenceOrder
         /\ \A n, v : Count(n, v)' = Count(n, v)
         /\ \A k : Slot(k)' = Slot(k)
<1>1. InList' = InList
  BY DEF InList
<1>2. \A n, v : Count(n, v)' = Count(n, v)
  BY DEF Count
<1>3. \A k : Slot(k)' = Slot(k)
  BY <1>2 DEF Slot
<1>4. LayoutFits' = LayoutFits
  BY <1>2 DEF LayoutFits
<1>5. \A k : RefPos(k)' = RefPos(k)
  BY <1>2 DEF RefPos
<1>6. ReferenceOrder' = ReferenceOrder
  BY <1>5 DEF ReferenceOrder
<1>7. QED
  BY <1>1, <1>2, <1>3, <1>4, <1>6

-----------------------------------------------------------------------------
(* The initial state satisfies the invariant.                             *)
LEMMA SortInit == Init => SortInv
<1> SUFFICES ASSUME Init PROVE SortInv
  OBVIOUS
<1>1. InList \in Seq(Rails)
  BY MaxRailsAssumption DEF Init, InList, Rails
<1>2. rail_map \in [1..NumVfs -> Nat]
  BY DEF Init
<1>3. QED
  BY <1>1, <1>2 DEF Init, SortInv, TypeOK, Phases

(* Begin: no rails leaves the list alone; otherwise the loop starts with *)
(* no rail counted and every cell empty.                                  *)
LEMMA BeginStep ==
  ASSUME SortInv, Begin
  PROVE  SortInv'
<1> USE DEF SortInv, Begin
<1>1. InList' = InList /\ LayoutFits' = LayoutFits
  BY Frozen
<1>2. TypeOK'
  BY DEF TypeOK, Phases
<1>3. CASE num_rails <= 0
  BY <1>1, <1>2, <1>3 DEF LayoutFits, TypeOK
<1>4. CASE ~(num_rails <= 0)
  <2>1. Count(0, 0) = 0 /\ Count(0, 1) = 0
    BY CountZero
  <2>2. \A n, v : Count(n, v)' = Count(n, v)
    BY Frozen
  <2>3. LoopInv'
    BY <1>1, <2>1, <2>2, <1>4 DEF LoopInv, Filled, TypeOK
  <2>4. QED
    BY <1>1, <1>2, <1>4, <2>3
<1>5. QED
  BY <1>3, <1>4

(* The list ends early, or a rail's VF is bad: the layout cannot fit and *)
(* the list is left as it was.                                            *)
LEMMA EndsEarlyStep ==
  ASSUME SortInv, ListEndsEarly
  PROVE  SortInv'
<1> USE DEF SortInv, ListEndsEarly
<1>1. InList' = InList /\ LayoutFits' = LayoutFits
  BY Frozen
<1>2. ~LayoutFits
  BY DEF LayoutFits, TypeOK
<1>3. QED
  BY <1>1, <1>2 DEF TypeOK, LoopInv, Phases

LEMMA RejectVfIdxStep ==
  ASSUME SortInv, RejectVfIdx
  PROVE  SortInv'
<1> USE DEF SortInv, RejectVfIdx
<1>1. InList' = InList /\ LayoutFits' = LayoutFits
  BY Frozen
<1>2. ~LayoutFits
  BY DEF LayoutFits, TypeOK, InLoop, CurVfIdx
<1>3. QED
  BY <1>1, <1>2 DEF TypeOK, LoopInv, InLoop, Phases

(* PlaceRail: rail i+1 goes to its slot, which is still free; the other   *)
(* rails keep theirs, and the counters and the filled cells move with it. *)
(* A VF 0 rail past the second is never placed once a VF 1 rail is, since *)
(* its cell, 2, is then taken.                                            *)
LEMMA PlaceRailStep ==
  ASSUME SortInv, PlaceRail
  PROVE  SortInv'
<1> DEFINE v == vf_idx[i + 1]
           r == rail_map[v + 1]
           C0 == Count(i, 0)
           C1 == Count(i, 1)
<1>1. LoopInv /\ TypeOK /\ phase = "loop"
  BY DEF SortInv, PlaceRail, InLoop
<1>2. /\ i \in Nat /\ num_rails \in Nat /\ i < num_rails /\ i < list_len
      /\ num_rails <= MaxRails /\ rail_map \in [1..2 -> Nat] /\ list_len \in Nat
  BY <1>1 DEF PlaceRail, InLoop, TypeOK
<1>3. /\ v \in 0..1
      /\ r < num_rails
      /\ sorted[r] = NULL
      /\ rail_map' = [rail_map EXCEPT ![v + 1] = @ + 1]
      /\ sorted' = [sorted EXCEPT ![r] = i + 1]
      /\ i' = i + 1
      /\ UNCHANGED <<num_rails, list_len, vf_idx, info_list, phase>>
  BY DEF PlaceRail, TakeRailIdx, CurVfIdx, RailIdx
<1>4. C0 \in 0..i /\ C1 \in 0..i
  BY <1>2, CountType, Zenon
<1>5. /\ Count(i + 1, 0) = C0 + (IF v = 0 THEN 1 ELSE 0)
      /\ Count(i + 1, 1) = C1 + (IF v = 1 THEN 1 ELSE 0)
  BY <1>2, CountStep, Zenon
<1>6. /\ rail_map[1] = C0 /\ rail_map[2] = 2 + C1
      /\ C1 > 0 => C0 <= 2 /\ rail_map[2] <= num_rails
      /\ sorted \in [Cells -> Rails \cup {NULL}]
      /\ \A k \in 1..i : Slot(k) \in Cells /\ sorted[Slot(k)] = k
      /\ \A p \in Cells : sorted[p] # NULL <=> Filled(p)
      /\ \A p \in Cells : sorted[p] # NULL => sorted[p] \in 1..i /\ Slot(sorted[p]) = p
  BY <1>1 DEF LoopInv
<1>7. r = Slot(i + 1) /\ r \in Cells
  <2>1. Slot(i + 1) = IF v = 0 THEN C0 ELSE 2 + C1
    BY <1>2 DEF Slot
  <2>2. QED
    BY <1>2, <1>3, <1>4, <1>6, <2>1
<1>8. \A n, vf : Count(n, vf)' = Count(n, vf)
  BY <1>2, <1>3, Frozen
<1>9. \A k : Slot(k)' = Slot(k)
  BY <1>2, <1>3, Frozen
<1>10. InList' = InList
  BY <1>2, <1>3, Frozen
<1>11. (Count(i, 1) > 0 => Count(i, 0) <= 2 /\ rail_map[2] <= num_rails)'
  <2>1. Count(i, 0)' = Count(i + 1, 0) /\ Count(i, 1)' = Count(i + 1, 1)
    BY <1>2, <1>3, <1>8, Zenon
  <2>2. CASE v = 0
    <3>1. C0 = 2 /\ C1 > 0 => FALSE
      <4> SUFFICES ASSUME C0 = 2, C1 > 0 PROVE FALSE
        OBVIOUS
      <4>1. r = 2 /\ 2 \in Cells
        BY <1>2, <1>3, <1>6, <2>2
      <4>2. Filled(2)
        BY <1>2, <1>6, <1>4 DEF Filled
      <4>3. QED
        BY <1>2, <1>3, <1>6, <4>1, <4>2
    <3>2. QED
      BY <1>2, <1>3, <1>4, <1>5, <1>6, <2>1, <2>2, <3>1
  <2>3. CASE v = 1
    <3>1. C1 = 0 /\ C0 > 2 => FALSE
      <4> SUFFICES ASSUME C1 = 0, C0 > 2 PROVE FALSE
        OBVIOUS
      <4>1. r = 2 /\ 2 \in Cells
        BY <1>2, <1>3, <1>6, <2>3
      <4>2. Filled(2)
        BY <1>2, <1>6, <1>4 DEF Filled
      <4>3. QED
        BY <1>2, <1>3, <1>6, <4>1, <4>2
    <3>2. QED
      BY <1>2, <1>3, <1>4, <1>5, <1>6, <2>1, <2>3, <3>1
  <2>4. QED
    BY <1>2, <1>3, <2>2, <2>3
<1>12. (\A k \in 1..i : Slot(k) \in Cells /\ sorted[Slot(k)] = k)'
  <2>1. SUFFICES ASSUME NEW k \in 1..i + 1
                 PROVE  Slot(k) \in Cells /\ sorted'[Slot(k)] = k
    BY <1>2, <1>3, <1>9
  <2>2. CASE k = i + 1
    BY <1>2, <1>3, <1>6, <1>7, <2>2
  <2>3. CASE k \in 1..i
    <3>1. Slot(k) \in Cells /\ sorted[Slot(k)] = k
      BY <1>2, <1>6, <2>3
    <3>2. Slot(k) # r
      BY <1>2, <1>3, <3>1, NullAssumption
    <3>3. QED
      BY <1>2, <1>3, <1>6, <3>1, <3>2
  <2>4. QED
    BY <1>2, <2>2, <2>3
<1>13. (\A p \in Cells : sorted[p] # NULL <=> Filled(p))'
  <2>1. SUFFICES ASSUME NEW p \in Cells
                 PROVE  sorted'[p] # NULL <=> Filled(p)'
    BY <1>2, <1>3
  <2>2. Filled(p)' <=> p < rail_map'[1] \/ (2 <= p /\ p < rail_map'[2])
    BY DEF Filled
  <2>3. CASE p = r
    BY <1>2, <1>3, <1>4, <1>6, <1>7, <2>2, <2>3, NullAssumption
  <2>4. CASE p # r
    <3>1. sorted'[p] = sorted[p]
      BY <1>2, <1>3, <1>6, <2>4
    <3>2. Filled(p)' <=> Filled(p)
      BY <1>2, <1>3, <1>4, <1>6, <2>2, <2>4 DEF Filled
    <3>3. QED
      BY <1>2, <1>6, <3>1, <3>2
  <2>5. QED
    BY <2>3, <2>4
<1>14. (\A p \in Cells : sorted[p] # NULL => sorted[p] \in 1..i /\ Slot(sorted[p]) = p)'
  <2>1. SUFFICES ASSUME NEW p \in Cells, sorted'[p] # NULL
                 PROVE  sorted'[p] \in 1..i + 1 /\ Slot(sorted'[p]) = p
    BY <1>2, <1>3, <1>9
  <2>2. CASE p = r
    BY <1>2, <1>3, <1>6, <1>7, <2>2
  <2>3. CASE p # r
    BY <1>2, <1>3, <1>6, <2>1, <2>3
  <2>4. QED
    BY <2>2, <2>3
<1>15. (/\ rail_map[1] = Count(i, 0) /\ rail_map[2] = 2 + Count(i, 1))'
  <2>1. Count(i, 0)' = Count(i + 1, 0) /\ Count(i, 1)' = Count(i + 1, 1)
    BY <1>2, <1>3, <1>8, Zenon
  <2>2. rail_map'[1] = Count(i + 1, 0) /\ rail_map'[2] = 2 + Count(i + 1, 1)
    BY <1>2, <1>3, <1>4, <1>5, <1>6
  <2>3. QED
    BY <2>1, <2>2, Zenon
<1>16. (sorted \in [Cells -> Rails \cup {NULL}])'
  <2>1. i + 1 \in Rails
    BY <1>2, MaxRailsAssumption DEF Rails
  <2>2. sorted' \in [Cells -> Rails \cup {NULL}]
    BY <1>3, <1>6, <2>1
  <2>3. QED
    BY <1>3, <2>2
<1>17. (\A k \in 1..i : vf_idx[k] \in 0..NumVfs-1)'
  <2>1. \A k \in 1..i : vf_idx[k] \in 0..1
    BY <1>1 DEF LoopInv
  <2>2. QED
    BY <1>2, <1>3, <2>1
<1>18. LoopInv'
  <2>0. 0 < num_rails /\ info_list = InList
    BY <1>1 DEF LoopInv
  <2>1. (0 < num_rails /\ i <= list_len)'
    BY <1>2, <1>3, <2>0
  <2>3. (info_list = InList)'
    BY <1>3, <1>10, <2>0, Zenon
  <2>2. QED
    BY <2>1, <2>3, <1>11, <1>12, <1>13, <1>14, <1>15, <1>16, <1>17 DEF LoopInv
<1>19. TypeOK'
  BY <1>1, <1>2, <1>3, <1>4, <1>6, <1>16 DEF TypeOK
<1>20. phase' = "loop"
  BY <1>1, <1>3
<1>21. QED
  BY <1>18, <1>19, <1>20 DEF SortInv
(* What a loop step knows of the rail it takes: its VF, the cell the     *)
(* counter gives it (its slot), and the counts after it.                  *)
TakeFactsHold ==
  /\ LoopInv /\ TypeOK
  /\ i \in Nat /\ num_rails \in Nat /\ list_len \in Nat
  /\ i < num_rails /\ i < list_len
  /\ rail_map \in [1..2 -> Nat]
  /\ CurVfIdx \in 0..1
  /\ Count(i, 0) \in 0..i /\ Count(i, 1) \in 0..i
  /\ RailIdx = IF CurVfIdx = 0 THEN Count(i, 0) ELSE 2 + Count(i, 1)
  /\ RailIdx = Slot(i + 1)
  /\ Count(i + 1, 0) = Count(i, 0) + (IF CurVfIdx = 0 THEN 1 ELSE 0)
  /\ Count(i + 1, 1) = Count(i, 1) + (IF CurVfIdx = 1 THEN 1 ELSE 0)

LEMMA TakeFacts ==
  ASSUME SortInv, InLoop, TakeRailIdx
  PROVE  TakeFactsHold
<1>1. LoopInv /\ TypeOK
  BY DEF SortInv, InLoop
<1>2. /\ i \in Nat /\ num_rails \in Nat /\ list_len \in Nat
      /\ i < num_rails /\ i < list_len
      /\ rail_map \in [1..2 -> Nat]
  BY <1>1 DEF InLoop, TypeOK
<1>3. CurVfIdx \in 0..1
  BY DEF TakeRailIdx
<1>4. Count(i, 0) \in 0..i /\ Count(i, 1) \in 0..i
  BY <1>2, CountType, Zenon
<1>5. RailIdx = IF CurVfIdx = 0 THEN Count(i, 0) ELSE 2 + Count(i, 1)
  BY <1>1, <1>3 DEF LoopInv, RailIdx
<1>6. RailIdx = Slot(i + 1)
  BY <1>2, <1>5 DEF Slot, CurVfIdx
<1>7. /\ Count(i + 1, 0) = Count(i, 0) + (IF CurVfIdx = 0 THEN 1 ELSE 0)
      /\ Count(i + 1, 1) = Count(i, 1) + (IF CurVfIdx = 1 THEN 1 ELSE 0)
  BY <1>2, CountStep, Zenon DEF CurVfIdx
<1>8. QED
  BY <1>1, <1>2, <1>3, <1>4, <1>5, <1>6, <1>7 DEF TakeFactsHold

(* A rail whose cell is taken: the layout does not fit, the list is left. *)
(* The cell holds a rail only if three rails are on VF 0 and one on VF 1.  *)
LEMMA RejectDuplicateStep ==
  ASSUME SortInv, RejectDuplicate
  PROVE  SortInv'
<1>1. TakeFactsHold
  BY TakeFacts DEF RejectDuplicate
<1> USE DEF TakeFactsHold
<1> DEFINE v == CurVfIdx
           r == RailIdx
           C0 == Count(i, 0)
           C1 == Count(i, 1)
<1>2. r \in Cells /\ sorted[r] # NULL
  BY <1>1 DEF RejectDuplicate
<1>3. Filled(r)
  BY <1>1, <1>2 DEF LoopInv
<1>4. Count(i + 1, 0) >= 3 /\ Count(i + 1, 1) >= 1
  <2>1. rail_map[1] = C0 /\ rail_map[2] = 2 + C1
    BY <1>1 DEF LoopInv
  <2>2. CASE v = 0
    BY <1>1, <1>3, <2>1, <2>2 DEF Filled
  <2>3. CASE v = 1
    BY <1>1, <1>3, <2>1, <2>3 DEF Filled
  <2>4. QED
    BY <1>1, <2>2, <2>3
<1>5. ~LayoutFits
  <2> SUFFICES ASSUME LayoutFits PROVE FALSE
    OBVIOUS
  <2>1. i + 1 \in Nat /\ i + 1 <= num_rails
    BY <1>1
  <2>2. Count(i + 1, 0) <= Count(num_rails, 0) /\ Count(i + 1, 1) <= Count(num_rails, 1)
    BY <1>1, <2>1, CountMono, Zenon
  <2>3. Count(num_rails, 0) \in 0..num_rails /\ Count(num_rails, 1) \in 0..num_rails
    BY <1>1, CountType, Zenon
  <2>4. QED
    BY <1>1, <1>4, <2>2, <2>3 DEF LayoutFits
<1>6. LayoutFits' = LayoutFits /\ InList' = InList
  BY Frozen DEF RejectDuplicate
<1>7. TypeOK'
  BY <1>1 DEF RejectDuplicate, TakeRailIdx, TypeOK, Phases
<1>8. QED
  BY <1>1, <1>5, <1>6, <1>7 DEF RejectDuplicate, SortInv, LoopInv
(* A rail whose counter runs past the array: the call fails or the write  *)
(* goes out of bounds, the list untouched either way.  Either happens     *)
(* only when the layout does not fit: with two VF 0 rails and the rest on *)
(* VF 1 the VF 1 counter ends exactly at num_rails.                       *)
LEMMA OutOfBoundsStep ==
  ASSUME SortInv, OutOfBoundsRailIdx
  PROVE  SortInv'
<1>1. TakeFactsHold
  BY TakeFacts DEF OutOfBoundsRailIdx
<1> USE DEF TakeFactsHold
<1>2. RailIdx >= num_rails
  BY DEF OutOfBoundsRailIdx
<1>3. ~LayoutFits
  <2> SUFFICES ASSUME LayoutFits PROVE FALSE
    OBVIOUS
  <2>1. CASE CurVfIdx = 0
    BY <1>1, <1>2, <2>1
  <2>2. CASE CurVfIdx = 1
    <3>1. \A k \in 1..num_rails : vf_idx[k] \in 0..1
      BY DEF LayoutFits
    <3>2. Count(num_rails, 0) + Count(num_rails, 1) = num_rails
      BY <1>1, <3>1, CountSum, Zenon
    <3>3. i + 1 \in Nat /\ i + 1 <= num_rails
      BY <1>1
    <3>4. Count(i + 1, 1) <= Count(num_rails, 1)
      BY <1>1, <3>3, CountMono, Zenon
    <3>5. Count(num_rails, 0) \in 0..num_rails /\ Count(num_rails, 1) \in 0..num_rails
      BY <1>1, CountType, Zenon
    <3>6. QED
      BY <1>1, <1>2, <2>2, <3>2, <3>4, <3>5 DEF LayoutFits
  <2>3. QED
    BY <1>1, <2>1, <2>2
<1>4. LayoutFits' = LayoutFits /\ InList' = InList
  BY Frozen DEF OutOfBoundsRailIdx
<1>5. TypeOK'
  <2>1. phase' \in Phases
    BY DEF OutOfBoundsRailIdx, Phases
  <2>2. rail_map' \in [1..NumVfs -> Nat]
    BY <1>1 DEF OutOfBoundsRailIdx, TakeRailIdx
  <2>3. QED
    BY <1>1, <2>1, <2>2 DEF OutOfBoundsRailIdx, TypeOK
<1>6. QED
  BY <1>1, <1>3, <1>4, <1>5 DEF OutOfBoundsRailIdx, SortInv, LoopInv
(* Relink, once all num_rails rails are placed: the layout fits, every   *)
(* cell is filled, and the rail in cell j-1 is the one the reference     *)
(* order puts at j, since a rail's slot is its reference position and no  *)
(* two rails share a slot.                                                *)
LEMMA RelinkStep ==
  ASSUME SortInv, Relink
  PROVE  SortInv'
<1> DEFINE n == num_rails
           C0 == Count(num_rails, 0)
           C1 == Count(num_rails, 1)
<1>1. LoopInv /\ TypeOK /\ i = n
  BY DEF SortInv, Relink
<1>2. /\ n \in Nat /\ 0 < n /\ list_len \in Nat /\ n <= list_len
      /\ rail_map \in [1..2 -> Nat]
      /\ sorted \in [Cells -> Rails \cup {NULL}]
  BY <1>1 DEF LoopInv, TypeOK
<1>3. \A k \in 1..n : vf_idx[k] \in 0..1
  BY <1>1 DEF LoopInv
<1>4. C0 + C1 = n
  BY <1>2, <1>3, CountSum, Zenon
<1>5. C0 \in 0..n /\ C1 \in 0..n
  BY <1>2, CountType, Zenon
<1>6. /\ rail_map[1] = C0 /\ rail_map[2] = 2 + C1
      /\ C1 > 0 => C0 <= 2 /\ rail_map[2] <= n
  BY <1>1 DEF LoopInv
<1>7. C1 = 0 \/ C0 = 2
  BY <1>4, <1>5, <1>6
<1>8. LayoutFits
  BY <1>2, <1>3, <1>7 DEF LayoutFits
<1>9. \A p \in Cells : sorted[p] \in 1..n /\ Slot(sorted[p]) = p
  <2>1. \A p \in Cells : Filled(p)
    BY <1>2, <1>4, <1>5, <1>6, <1>7 DEF Filled
  <2>2. QED
    BY <1>1, <2>1 DEF LoopInv
<1>10. \A k \in 1..n : RefPos(k) = Slot(k)
  <2>1. SUFFICES ASSUME NEW k \in 1..n PROVE RefPos(k) = Slot(k)
    OBVIOUS
  <2>2. CASE vf_idx[k] = 0
    BY <2>2 DEF RefPos, Slot
  <2>3. CASE vf_idx[k] = 1
    <3>1. C1 >= 1
      BY <1>2, <2>3, CountPos, Zenon
    <3>2. C0 = 2
      BY <1>4, <1>5, <1>6, <3>1
    <3>3. QED
      BY <2>3, <3>2 DEF RefPos, Slot
  <2>4. QED
    BY <1>3, <2>2, <2>3
<1>11. \A j \in 1..n : ReferenceOrder[j] = sorted[j - 1]
  <2>1. SUFFICES ASSUME NEW j \in 1..n PROVE ReferenceOrder[j] = sorted[j - 1]
    OBVIOUS
  <2> DEFINE k0 == sorted[j - 1]
  <2>2. j - 1 \in Cells
    BY <1>2
  <2>3. k0 \in 1..n /\ RefPos(k0) = j - 1
    BY <1>9, <1>10, <2>2
  <2>4. \A k \in 1..n : RefPos(k) = j - 1 => k = k0
    BY <1>1, <1>10 DEF LoopInv
  <2>5. (CHOOSE k \in 1..n : RefPos(k) = j - 1) = k0
    BY <2>3, <2>4
  <2>6. QED
    BY <2>5 DEF ReferenceOrder
<1>12. info_list' = ReferenceOrder
  BY <1>11 DEF Relink, ReferenceOrder
<1>13. LayoutFits' = LayoutFits /\ ReferenceOrder' = ReferenceOrder
  BY Frozen DEF Relink
<1>14. TypeOK'
  <2>1. info_list' \in Seq(Rails)
    <3>1. \A k \in 1..n : sorted[k - 1] \in Rails
      BY <1>1, <1>2, <1>9, MaxRailsAssumption DEF Rails, TypeOK
    <3>2. info_list' \in [1..n -> Rails]
      BY <3>1 DEF Relink
    <3>3. QED
      BY <1>2, <3>2
  <2>2. QED
    BY <1>1, <2>1 DEF Relink, TypeOK, Phases
<1>15. QED
  BY <1>8, <1>12, <1>13, <1>14 DEF Relink, SortInv
(* A step that changes nothing keeps the invariant.                       *)
LEMMA StutterStep ==
  ASSUME SortInv, UNCHANGED vars
  PROVE  SortInv'
<1>1. /\ num_rails' = num_rails /\ list_len' = list_len /\ vf_idx' = vf_idx
      /\ info_list' = info_list /\ i' = i /\ rail_map' = rail_map
      /\ sorted' = sorted /\ phase' = phase
  BY DEF vars
<1>2. /\ InList' = InList
      /\ LayoutFits' = LayoutFits
      /\ ReferenceOrder' = ReferenceOrder
      /\ \A n, v : Count(n, v)' = Count(n, v)
      /\ \A k : Slot(k)' = Slot(k)
  BY <1>1, Frozen
<1>3. TypeOK'
  BY <1>1 DEF SortInv, TypeOK
<1>4. LoopInv' = LoopInv
  BY <1>1, <1>2, Zenon DEF LoopInv, Filled
<1>5. QED
  BY <1>1, <1>2, <1>3, <1>4 DEF SortInv

(* SortInv is inductive.                                                  *)
LEMMA SortStep == SortInv /\ [Next]_vars => SortInv'
<1> SUFFICES ASSUME SortInv, [Next]_vars PROVE SortInv'
  OBVIOUS
<1>1. CASE Begin
  BY <1>1, BeginStep
<1>2. CASE ListEndsEarly
  BY <1>2, EndsEarlyStep
<1>3. CASE RejectVfIdx
  BY <1>3, RejectVfIdxStep
<1>4. CASE PlaceRail
  BY <1>4, PlaceRailStep
<1>5. CASE RejectDuplicate
  BY <1>5, RejectDuplicateStep
<1>6. CASE OutOfBoundsRailIdx
  BY <1>6, OutOfBoundsStep
<1>7. CASE Relink
  BY <1>7, RelinkStep
<1>8. CASE Returned \/ UNCHANGED vars
  BY <1>8, StutterStep DEF Returned
<1>9. QED
  BY <1>1, <1>2, <1>3, <1>4, <1>5, <1>6, <1>7, <1>8 DEF Next

(* SortInv holds in every reachable state.                                *)
LEMMA SortInvariant == Spec => []SortInv
BY SortInit, SortStep, PTL DEF Spec

-----------------------------------------------------------------------------
(* platform_sort_rails() never leaves the list half-sorted: whenever it    *)
(* returns 0 or an error, the list is the reference order (VF 0 rails,    *)
(* then VF 1 rails, each in discovery order) exactly when num_rails > 0   *)
(* rails are on the list in a layout the rail_map counters {0, 2} can     *)
(* place, and is the caller's list unchanged otherwise.  This holds for   *)
(* every num_rails, list length and vector of VF indexes.                  *)
THEOREM SortOutcomeHolds == Spec => []SortOutcome
<1>1. SortInv => SortOutcome
  BY DEF SortInv, SortOutcome
<1>2. QED
  BY <1>1, SortInvariant, PTL

(* Every variable of the sort keeps its type in every reachable state:   *)
(* in particular sorted_info_array holds only rails or NULL and the      *)
(* relinked list is a sequence of rails.                                  *)
THEOREM SortTypeCorrect == Spec => []TypeOK
<1>1. SortInv => TypeOK
  BY DEF SortInv
<1>2. QED
  BY <1>1, SortInvariant, PTL
(* The stack write past sorted_info_array happens only for a layout the   *)
(* rail_map counters {0, 2} cannot place, for every num_rails, list       *)
(* length and vector of VF indexes: on a fitting list each index          *)
(* rail_map[vf_idx]++ stays below num_rails.                              *)
THEOREM UndefinedOnlyOnMisfitHolds == Spec => []UndefinedOnlyOnMisfit
<1>1. SortInv => UndefinedOnlyOnMisfit
  BY DEF SortInv, UndefinedOnlyOnMisfit
<1>2. QED
  BY <1>1, SortInvariant, PTL

-----------------------------------------------------------------------------
(* The abstract RailOrder's notions, read on the sort's inputs.           *)

(* RailOrder counts with the Cardinality of FiniteSets, as this module.   *)
LEMMA AbstractCardinality ==
  ASSUME NEW S
  PROVE  Abstract!Cardinality(S) = Cardinality(S)
BY DEF Abstract!Cardinality, Cardinality

(* The layouts RailOrder promises to sort are the ones the rail_map       *)
(* counters place.                                                        *)
LEMMA FitsIsLayoutFits ==
  ASSUME num_rails \in Nat
  PROVE  Abstract!Fits = LayoutFits
<1>1. \A v : Abstract!OnVf(v) = {k \in 1..num_rails : vf_idx[k] = v}
  BY DEF Abstract!OnVf
<1>2. \A v : IsFiniteSet({k \in 1..num_rails : vf_idx[k] = v})
  BY CountType
<1>3. (Abstract!OnVf(1) = {}) <=> (Count(num_rails, 1) = 0)
  BY <1>1, <1>2, FS_EmptySet DEF Count
<1>4. Abstract!Cardinality(Abstract!OnVf(0)) = Count(num_rails, 0)
  BY <1>1, AbstractCardinality, Zenon DEF Count
<1>5. 0..NumVfs - 1 = 0..1
  OBVIOUS
<1>6. QED
  BY <1>3, <1>4, <1>5, Zenon DEF Abstract!Fits, LayoutFits

(* On a list whose first num_rails rails are on VF 0 or 1, a rail's rank *)
(* in a stable sort by VF is its reference position.                      *)
LEMMA RankIsRefPos ==
  ASSUME num_rails \in Nat, \A r \in 1..num_rails : vf_idx[r] \in 0..1,
         NEW k \in 1..num_rails
  PROVE  Abstract!Rank(k) = RefPos(k)
<1> DEFINE n == num_rails
           Before == {r \in 1..n : vf_idx[r] < vf_idx[k] \/ (vf_idx[r] = vf_idx[k] /\ r < k)}
<1>1. Abstract!Rank(k) = Cardinality(Before)
  BY AbstractCardinality, Zenon DEF Abstract!Rank
<1>2. CASE vf_idx[k] = 0
  <2>1. Before = {r \in 1..k - 1 : vf_idx[r] = 0}
    BY <1>2
  <2>2. QED
    BY <1>1, <1>2, <2>1 DEF RefPos, Count
<1>3. CASE vf_idx[k] = 1
  <2> DEFINE S0 == {r \in 1..n : vf_idx[r] = 0}
             S1 == {r \in 1..k - 1 : vf_idx[r] = 1}
  <2>1. Before = S0 \cup S1 /\ S0 \cap S1 = {}
    BY <1>3
  <2>0. k - 1 \in Nat
    OBVIOUS
  <2>2. IsFiniteSet(S0) /\ IsFiniteSet(S1)
    BY <2>0, CountType, Zenon
  <2>3. Cardinality(S0 \cup S1) = Cardinality(S0) + Cardinality(S1) - Cardinality(S0 \cap S1)
    BY <2>2, FS_Union
  <2>4. Cardinality(S0) \in Nat /\ Cardinality(S1) \in Nat /\ Cardinality({}) = 0
    BY <2>2, FS_CardinalityType, FS_EmptySet
  <2>5. Cardinality(Before) = Cardinality(S0 \cup S1) /\ Cardinality(S0 \cap S1) = 0
    BY <2>1, <2>4, Zenon
  <2>6. Cardinality(Before) = Cardinality(S0) + Cardinality(S1)
    BY <2>3, <2>4, <2>5
  <2>7. QED
    BY <1>1, <1>3, <2>6 DEF RefPos, Count
<1>4. QED
  BY <1>2, <1>3

(* The order RailOrder promises is the reference order of the model.     *)
LEMMA OrderIsReference ==
  ASSUME num_rails \in Nat, \A r \in 1..num_rails : vf_idx[r] \in 0..1
  PROVE  Abstract!Order = ReferenceOrder
<1>1. \A j \in 1..num_rails :
        (CHOOSE k \in 1..num_rails : Abstract!Rank(k) = j - 1)
          = (CHOOSE k \in 1..num_rails : RefPos(k) = j - 1)
  <2>1. \A k \in 1..num_rails : Abstract!Rank(k) = RefPos(k)
    BY RankIsRefPos
  <2>2. QED
    BY <2>1, Zenon
<1>2. QED
  BY <1>1 DEF Abstract!Order, ReferenceOrder

-----------------------------------------------------------------------------
(* How a step of the sort looks to the caller.  The inputs never change.  *)
Frozen3 == num_rails' = num_rails /\ list_len' = list_len /\ vf_idx' = vf_idx

(* A step that leaves the list and the outcome alone is a stutter.        *)
LEMMA MapStutter ==
  ASSUME Frozen3, info_list' = info_list, Outcome' = Outcome
  PROVE  UNCHANGED Abstract!vars
BY DEF Frozen3, Abstract!vars

(* Returning, failing or going undefined on a misfit, with the list      *)
(* untouched, is RailOrder's Leave.                                       *)
LEMMA MapLeave ==
  ASSUME Frozen3, num_rails \in Nat, info_list' = info_list, ~LayoutFits,
         Outcome = "running", Outcome' \in {"sorted", "failed", "ub"}
  PROVE  Abstract!Leave
BY FitsIsLayoutFits DEF Frozen3, Abstract!Leave

(* Returning with the reference order on a fitting layout is Sort.        *)
LEMMA MapSort ==
  ASSUME Frozen3, num_rails \in Nat, LayoutFits, info_list' = ReferenceOrder,
         Outcome = "running", Outcome' = "sorted"
  PROVE  Abstract!Sort
<1>1. \A r \in 1..num_rails : vf_idx[r] \in 0..1
  BY DEF LayoutFits
<1>2. Abstract!Fits /\ Abstract!Order = ReferenceOrder
  BY <1>1, FitsIsLayoutFits, OrderIsReference
<1>3. QED
  BY <1>2 DEF Frozen3, Abstract!Sort

(* A failure, or the undefined write, is a Leave: the layout cannot have  *)
(* fitted, and the list is untouched.                                     *)
LEMMA FailIsLeave ==
  ASSUME SortInv, SortInv', Frozen3, phase = "loop",
         phase' \in {"failed", "ub"}, info_list' = info_list
  PROVE  Abstract!Next
<1>1. ~LayoutFits
  BY Frozen DEF SortInv, Frozen3
<1>2. num_rails \in Nat /\ Outcome = "running" /\ Outcome' \in {"sorted", "failed", "ub"}
  BY DEF SortInv, TypeOK, Outcome
<1>3. QED
  BY <1>1, <1>2, MapLeave DEF Abstract!Next

(* Every step of platform_sort_rails, between two states of the          *)
(* invariant, is a step of RailOrder or leaves what the caller sees alone. *)
LEMMA RefinementStep ==
  SortInv /\ SortInv' /\ [Next]_vars => [Abstract!Next]_Abstract!vars
<1> SUFFICES ASSUME SortInv, SortInv', [Next]_vars
             PROVE  [Abstract!Next]_Abstract!vars
  OBVIOUS
<1>0. Frozen3 /\ num_rails \in Nat
  BY DEF Next, vars, Begin, ListEndsEarly, RejectVfIdx, PlaceRail,
         RejectDuplicate, OutOfBoundsRailIdx, Relink, Returned,
         Frozen3, SortInv, TypeOK
<1>1. CASE Begin
  <2>1. CASE num_rails <= 0
    <3>1. ~LayoutFits /\ Outcome = "running" /\ Outcome' = "sorted"
      BY <1>0, <1>1, <2>1 DEF Begin, LayoutFits, Outcome
    <3>2. QED
      BY <1>0, <1>1, <3>1, MapLeave DEF Begin, Abstract!Next
  <2>2. CASE ~(num_rails <= 0)
    <3>1. Outcome' = Outcome
      BY <1>1, <2>2 DEF Begin, Outcome
    <3>2. QED
      BY <1>0, <1>1, <3>1, MapStutter DEF Begin
  <2>3. QED
    BY <2>1, <2>2
<1>2. CASE ListEndsEarly
  BY <1>0, <1>2, FailIsLeave DEF ListEndsEarly
<1>3. CASE RejectVfIdx
  BY <1>0, <1>3, FailIsLeave DEF RejectVfIdx, InLoop
<1>4. CASE RejectDuplicate
  BY <1>0, <1>4, FailIsLeave DEF RejectDuplicate, InLoop
<1>5. CASE OutOfBoundsRailIdx
  BY <1>0, <1>5, FailIsLeave DEF OutOfBoundsRailIdx, InLoop
<1>6. CASE PlaceRail
  <2>1. info_list' = info_list /\ Outcome' = Outcome
    BY <1>6 DEF PlaceRail, Outcome
  <2>2. QED
    BY <1>0, <2>1, MapStutter
<1>7. CASE Relink
  <2>1. Outcome = "running" /\ Outcome' = "sorted" /\ phase' = "sorted"
    BY <1>7 DEF Relink, Outcome
  <2>2. IF LayoutFits THEN info_list' = ReferenceOrder ELSE info_list' = InList
    BY <1>0, <2>1, Frozen DEF SortInv, Frozen3
  <2>3. CASE LayoutFits
    BY <1>0, <2>1, <2>2, <2>3, MapSort DEF Abstract!Next
  <2>4. CASE ~LayoutFits
    <3>1. info_list = InList
      BY <1>7 DEF Relink, SortInv, LoopInv
    <3>2. QED
      BY <1>0, <2>1, <2>2, <2>4, <3>1, MapLeave DEF Abstract!Next
  <2>7. QED
    BY <2>3, <2>4
<1>8. CASE Returned \/ UNCHANGED vars
  <2>1. info_list' = info_list /\ Outcome' = Outcome
    BY <1>8 DEF Returned, vars, Outcome
  <2>2. QED
    BY <1>0, <2>1, MapStutter
<1>9. QED
  BY <1>1, <1>2, <1>3, <1>4, <1>5, <1>6, <1>7, <1>8 DEF Next

(* The caller sees platform_sort_rails as RailOrder: the list changes at *)
(* most once, when the call returns, from the list it passed to the VF 0 *)
(* then VF 1 order of its first num_rails rails, and only for a layout   *)
(* the rail_map counters can place.                                       *)
THEOREM SortRefinement == Spec => RefinesRailOrder
<1>1. Init => Abstract!Init
  <2> SUFFICES ASSUME Init PROVE Abstract!Init
    OBVIOUS
  <2>1. num_rails \in Nat /\ list_len \in Nat
    BY MaxRailsAssumption DEF Init
  <2>2. vf_idx \in [1..list_len -> Int]
    <3>1. vf_idx \in [1..list_len -> VfIdxValues]
      BY DEF Init
    <3>2. QED
      BY <3>1, VfIdxAssumption, Zenon
  <2>3. info_list = Abstract!InputList /\ Outcome = "running"
    BY DEF Init, Abstract!InputList, InList, Outcome
  <2>4. QED
    BY <2>1, <2>2, <2>3 DEF Abstract!Init
<1>2. SortInv /\ SortInv' /\ [Next]_vars => [Abstract!Next]_Abstract!vars
  BY RefinementStep
<1>3. QED
  BY <1>1, <1>2, SortInvariant, PTL DEF Spec, RefinesRailOrder, Abstract!Spec
=============================================================================
