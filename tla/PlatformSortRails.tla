--------------------------- MODULE PlatformSortRails ---------------------------
(***************************************************************************)
(* platform_sort_rails() of src/platform-aws.c: reorders the fi_info list  *)
(* of one logical connection by the virtual-function index found in the   *)
(* low byte of each NIC's node GUID.  The loop fills a scratch array of    *)
(* num_rails cells (alloca) at positions rail_map[vf_idx]++, with          *)
(* rail_map = {0, 2}; only when every rail is placed is the list relinked  *)
(* in array order.  Any failure returns, leaving the list as it was.       *)
(*                                                                         *)
(* Rail k is the k-th fi_info of the input list, which has list_len      *)
(* elements whatever num_rails says; the value get_rail_vf_idx() returns  *)
(* for it is an input chosen in Init (negative for its -EIO / -EINVAL     *)
(* errors).                                                                *)
(***************************************************************************)
EXTENDS Naturals, Integers, Sequences, FiniteSets

CONSTANTS
  MaxRails,     \* largest num_rails considered
  VfIdxValues,  \* values get_rail_vf_idx() may return
  NULL          \* an empty cell of sorted_info_array

ASSUME MaxRailsAssumption == MaxRails \in Nat
ASSUME VfIdxAssumption == VfIdxValues \subseteq Int
ASSUME NullAssumption == NULL \notin Int

NumVfs == 2   \* int rail_map[2] = {0, 2}

Phases == {"start", "loop", "sorted", "failed", "ub"}

VARIABLES
  num_rails,      \* the num_rails argument
  list_len,       \* the number of fi_info reached through next
  vf_idx,         \* vf_idx[k]: what get_rail_vf_idx returns for rail k
  info_list,      \* *info_list, read as the sequence reached through next
  i,              \* loop counter
  rail_map,       \* next free position of each VF
  sorted,         \* sorted_info_array[0 .. num_rails-1]
  phase           \* "ub": an out-of-bounds write, undefined from here on

vars == <<num_rails, list_len, vf_idx, info_list, i, rail_map, sorted, phase>>

(* The list the caller passed in: rails in discovery order.                *)
InList == [k \in 1..list_len |-> k]

Rails == 1..MaxRails

-----------------------------------------------------------------------------
Init ==
  /\ num_rails \in 0..MaxRails
  /\ list_len \in 0..MaxRails
  /\ vf_idx \in [1..list_len -> VfIdxValues]
  /\ info_list = InList
  /\ i = 0
  /\ rail_map = <<0, 2>>
  /\ sorted = <<>>
  /\ phase = "start"

(* Mutant: the scratch array has one cell too many.                      *)
BeginOneTooMany ==
  /\ phase = "start"
  /\ phase' = IF num_rails <= 0 THEN "sorted" ELSE "loop"
  /\ sorted' = [p \in 0..num_rails |-> NULL]
  /\ UNCHANGED <<num_rails, list_len, vf_idx, info_list, i, rail_map>>

(* Lines 804-812: return on num_rails <= 0, else clear the scratch array. *)
Begin ==
  /\ phase = "start"
  /\ phase' = IF num_rails <= 0 THEN "sorted" ELSE "loop"
  /\ sorted' = [p \in 0..num_rails-1 |-> NULL]
  /\ UNCHANGED <<num_rails, list_len, vf_idx, info_list, i, rail_map>>

(* The loop body for the (i+1)-th rail, lines 815-837, while info_list_in *)
(* (the (i+1)-th element of the list) is not NULL.                        *)
CurVfIdx == vf_idx[i + 1]

(* Mutant: ++rail_map[vf_idx], the index taken after the increment.       *)
RailIdxPreIncrement == rail_map[CurVfIdx + 1] + 1

RailIdx == rail_map[CurVfIdx + 1]

InLoop == phase = "loop" /\ i < num_rails /\ i < list_len

(* Lines 816-818: the list ended before num_rails rails were placed.     *)
ListEndsEarly ==
  /\ phase = "loop" /\ i < num_rails /\ i = list_len
  /\ phase' = "failed"
  /\ UNCHANGED <<num_rails, list_len, vf_idx, info_list, i, rail_map, sorted>>

(* Lines 819-823: get_rail_vf_idx failed or returned a VF beyond 1.        *)
RejectVfIdx ==
  /\ InLoop
  /\ CurVfIdx \notin 0..NumVfs-1
  /\ phase' = "failed"
  /\ UNCHANGED <<num_rails, list_len, vf_idx, info_list, i, rail_map, sorted>>

(* Lines 825-826: rail_idx = rail_map[vf_idx]++.                          *)
TakeRailIdx ==
  /\ CurVfIdx \in 0..NumVfs-1
  /\ rail_map' = [rail_map EXCEPT ![CurVfIdx + 1] = @ + 1]

(* Mutant: the occupied-cell check is missing, a rail overwrites another. *)
PlaceRailOverwrite ==
  /\ InLoop
  /\ TakeRailIdx
  /\ RailIdx < num_rails
  /\ sorted' = [sorted EXCEPT ![RailIdx] = i + 1]
  /\ i' = i + 1
  /\ UNCHANGED <<num_rails, list_len, vf_idx, info_list, phase>>

(* Lines 831-837: the cell is free; place the rail and advance.           *)
PlaceRail ==
  /\ InLoop
  /\ TakeRailIdx
  /\ RailIdx < num_rails
  /\ sorted[RailIdx] = NULL
  /\ sorted' = [sorted EXCEPT ![RailIdx] = i + 1]
  /\ i' = i + 1
  /\ UNCHANGED <<num_rails, list_len, vf_idx, info_list, phase>>

(* Lines 831-834: the cell already holds a rail.                          *)
RejectDuplicate ==
  /\ InLoop
  /\ TakeRailIdx
  /\ RailIdx < num_rails
  /\ sorted[RailIdx] # NULL
  /\ phase' = "failed"
  /\ UNCHANGED <<num_rails, list_len, vf_idx, info_list, i, sorted>>

(* Lines 831-835 with rail_idx >= num_rails: sorted_info_array[rail_idx]  *)
(* lies past the alloca'd array.  The read sees whatever is there: a      *)
(* non-NULL word makes the call fail, a NULL one lets the write go out of *)
(* bounds, which is undefined behaviour.                                  *)
OutOfBoundsRailIdx ==
  /\ InLoop
  /\ TakeRailIdx
  /\ RailIdx >= num_rails
  /\ phase' \in {"failed", "ub"}
  /\ UNCHANGED <<num_rails, list_len, vf_idx, info_list, i, sorted>>

(* Mutant: the last sorted rail's next is not cleared, so the list keeps  *)
(* the rails past num_rails after the sorted ones.                        *)
RelinkKeepTail ==
  /\ phase = "loop"
  /\ i = num_rails
  /\ info_list' = [k \in 1..list_len |-> IF k <= num_rails THEN sorted[k - 1] ELSE k]
  /\ phase' = "sorted"
  /\ UNCHANGED <<num_rails, list_len, vf_idx, i, rail_map, sorted>>

(* Lines 840-852: every rail is placed; relink the list in array order,  *)
(* the last element's next set to NULL (so a longer list loses its tail). *)
Relink ==
  /\ phase = "loop"
  /\ i = num_rails
  /\ info_list' = [k \in 1..num_rails |-> sorted[k - 1]]
  /\ phase' = "sorted"
  /\ UNCHANGED <<num_rails, list_len, vf_idx, i, rail_map, sorted>>

(* The call has returned (or gone undefined): nothing more happens.       *)
Returned ==
  /\ phase \in {"sorted", "failed", "ub"}
  /\ UNCHANGED vars

Next ==
  \/ Begin
  \/ ListEndsEarly \/ RejectVfIdx \/ PlaceRail \/ RejectDuplicate \/ OutOfBoundsRailIdx
  \/ Relink
  \/ Returned

Spec == Init /\ [][Next]_vars

-----------------------------------------------------------------------------
TypeOK ==
  /\ num_rails \in 0..MaxRails
  /\ list_len \in 0..MaxRails
  /\ vf_idx \in [1..list_len -> VfIdxValues]
  /\ info_list \in Seq(Rails)
  /\ i \in 0..num_rails
  /\ rail_map \in [1..NumVfs -> Nat]
  /\ sorted \in [0..num_rails-1 -> Rails \cup {NULL}] \/ sorted = <<>>
  /\ phase \in Phases

(* The rails of VF v among the first n rails of the list.                *)
Count(upto, vf) == Cardinality({r \in 1..upto : vf_idx[r] = vf})

(* Reference order of the first num_rails rails: those of VF 0 in        *)
(* discovery order, then those of VF 1 in discovery order.  Rail k goes  *)
(* to the 0-based position RefPos(k), its rank among the rails of its VF *)
(* (after every VF 0 rail when it is on VF 1).                            *)
RefPos(k) == IF vf_idx[k] = 0 THEN Count(k - 1, 0)
             ELSE Count(num_rails, 0) + Count(k - 1, 1)

ReferenceOrder == [j \in 1..num_rails |-> CHOOSE k \in 1..num_rails : RefPos(k) = j - 1]

(* The rails of VF v, in discovery order.                                 *)
OnVf(v) == SelectSeq(SubSeq(InList, 1, num_rails), LAMBDA k : vf_idx[k] = v)

(* There are rails to sort, the list holds num_rails of them, and they   *)
(* are in a layout the two counters can place: every rail on VF 0, or     *)
(* exactly two on VF 0 and the rest on VF 1.                              *)
LayoutFits ==
  /\ 0 < num_rails /\ num_rails <= list_len
  /\ \A k \in 1..num_rails : vf_idx[k] \in 0..NumVfs-1
  /\ Count(num_rails, 1) = 0 \/ Count(num_rails, 0) = 2

(* When platform_sort_rails returns normally, the list is the reference   *)
(* order if it holds num_rails > 0 rails whose VF layout fits the        *)
(* rail_map counters, and is left exactly as it was otherwise (nothing to *)
(* sort, a short list, a bad GUID, a duplicate): the call never           *)
(* duplicates or half-reorders a rail.                                    *)
SortOutcome ==
  phase \in {"sorted", "failed"} =>
    IF LayoutFits THEN phase = "sorted" /\ info_list = ReferenceOrder
                  ELSE info_list = InList

(* The out-of-bounds access of rail_map[vf_idx]++ is confined to layouts  *)
(* the counters cannot place: when num_rails rails on VF 0 and 1 are all   *)
(* on VF 0, or two on VF 0 and the rest on VF 1, every index stays inside  *)
(* the num_rails cells and the call never goes undefined.                  *)
UndefinedOnlyOnMisfit == phase = "ub" => ~LayoutFits

(* Refinement mapping to RailOrder: the inputs are the arguments, and the *)
(* call is running until it returns, fails or goes undefined.             *)
Outcome == IF phase \in {"start", "loop"} THEN "running" ELSE phase

Abstract == INSTANCE RailOrder
              WITH n <- num_rails, len <- list_len, vf <- vf_idx,
                   list <- info_list, outcome <- Outcome

(* platform_sort_rails implements RailOrder: the caller's list changes at *)
(* most once, when the call returns, and then from the list it passed to *)
(* the VF 0 then VF 1 order of its first num_rails rails; the scratch    *)
(* array and the counters never show through a half-sorted list.         *)
RefinesRailOrder == Abstract!Spec

(* No rail index computed by rail_map falls outside the num_rails cells   *)
(* of sorted_info_array (an out-of-bounds stack write otherwise).         *)
NoOutOfBoundsRailIndex == phase # "ub"

(* spec.md section 8: for N = 4 with two rails on each VF, the VF 0 rails *)
(* take positions {0, 2} and the VF 1 rails {1, 3} (interleaved).        *)
SpecInterleavedOrder ==
  (phase = "sorted" /\ num_rails = 4 /\ Len(OnVf(0)) = 2 /\ Len(OnVf(1)) = 2) =>
    /\ info_list[1] = OnVf(0)[1] /\ info_list[3] = OnVf(0)[2]
    /\ info_list[2] = OnVf(1)[1] /\ info_list[4] = OnVf(1)[2]

=============================================================================
