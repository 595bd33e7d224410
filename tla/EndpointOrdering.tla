-------------------------- MODULE EndpointOrdering --------------------------
(***************************************************************************)
(* What platform_config_endpoint() promises NCCL about in-order delivery, *)
(* stated without threads, locks or transport answers (spec.md 4.3 and    *)
(* section 6): the process decides once whether EFA endpoints deliver in  *)
(* order, and every endpoint handed out afterwards has that setting.      *)
(*                                                                         *)
(*  decision: Undecided, or the setting recorded                           *)
(*  handed  : the settings of the endpoints handed out so far              *)
(***************************************************************************)

Undecided == "undecided"
Settings == {"ordered", "unordered"}

VARIABLES decision, handed

vars == <<decision, handed>>

Init ==
  /\ decision = Undecided
  /\ handed = {}

(* The first configuration records its outcome; the endpoint that made   *)
(* it is handed out with that setting, or the call fails after recording. *)
Decide(o) ==
  /\ decision = Undecided
  /\ decision' = o
  /\ handed' \in {handed, handed \cup {o}}

(* A later endpoint is handed out with the recorded setting.              *)
HandOut ==
  /\ decision # Undecided
  /\ handed' = handed \cup {decision}
  /\ UNCHANGED decision

Next == (\E o \in Settings : Decide(o)) \/ HandOut

Spec == Init /\ [][Next]_vars

=============================================================================
