------------------------------ MODULE RailOrder ------------------------------
(***************************************************************************)
(* What platform_sort_rails() promises its caller, stated without the     *)
(* scratch array or the rail_map counters: in one step, as the caller     *)
(* sees it, the call either puts the first n rails in order of their VF   *)
(* (VF 0 first, discovery order within a VF), or leaves the list as it    *)
(* was.  The sort is promised only for layouts the two counters can place *)
(* (every rail on VF 0, or two on VF 0 and the rest on VF 1); any other   *)
(* input is left alone, and only such an input may end undefined.        *)
(*                                                                         *)
(*  n, len, vf : the rail count, the list length, each rail's VF index    *)
(*  list       : the caller's list, as rail numbers in list order         *)
(*  outcome    : "running", or how the call ended                         *)
(***************************************************************************)
EXTENDS Integers, FiniteSets

VARIABLES n, len, vf, list, outcome

vars == <<n, len, vf, list, outcome>>

InputList == [k \in 1..len |-> k]

(* The position of rail k in a stable sort of rails 1..n by VF index: the *)
(* rails on a smaller VF, and the earlier rails on its own VF, precede it. *)
Rank(k) == Cardinality({r \in 1..n : vf[r] < vf[k] \/ (vf[r] = vf[k] /\ r < k)})

Order == [j \in 1..n |-> CHOOSE k \in 1..n : Rank(k) = j - 1]

OnVf(v) == {r \in 1..n : vf[r] = v}

Fits ==
  /\ 0 < n /\ n <= len
  /\ \A k \in 1..n : vf[k] \in 0..1
  /\ OnVf(1) = {} \/ Cardinality(OnVf(0)) = 2

Init ==
  /\ n \in Nat /\ len \in Nat /\ vf \in [1..len -> Int]
  /\ list = InputList
  /\ outcome = "running"

(* A layout the counters place is sorted, and the call returns.           *)
Sort ==
  /\ outcome = "running"
  /\ Fits
  /\ list' = Order
  /\ outcome' = "sorted"
  /\ UNCHANGED <<n, len, vf>>

(* Any other input is left as it was: the call returns, fails or goes     *)
(* undefined.                                                              *)
Leave ==
  /\ outcome = "running"
  /\ ~Fits
  /\ outcome' \in {"sorted", "failed", "ub"}
  /\ UNCHANGED <<n, len, vf, list>>

Next == Sort \/ Leave

Spec == Init /\ [][Next]_vars

=============================================================================
