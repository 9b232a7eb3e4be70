---------------------------- MODULE WitnessDraw ----------------------------
(***************************************************************************)
(* What a caller of the three-layer sampler is promised, whatever layers,  *)
(* weights, searches and retries are inside: one answer per call, which is *)
(* a genuine witness chain of the root or the news that none was drawn.    *)
(* A build with overflow checks may abort instead, but only for a root     *)
(* whose first layer is empty, so that no answer is lost by it.            *)
(***************************************************************************)
EXTENDS Chains

CONSTANT Roots   \* the root numbers a call may be made with

VARIABLES root, outcome

Init == root \in Roots /\ outcome = Pending

Answer ==
  /\ outcome = Pending
  /\ \/ outcome' = NoWitness
     \/ outcome' = Witness(outcome'.layers) /\ IsChain(root, outcome'.layers)
  /\ UNCHANGED root

Abort ==
  /\ outcome = Pending
  /\ outcome' = Panicked
  /\ GenerateRepresentationFamily(root) = {}
  /\ UNCHANGED root

Next == Answer \/ Abort

Spec == Init /\ [][Next]_<<root, outcome>>

=============================================================================
