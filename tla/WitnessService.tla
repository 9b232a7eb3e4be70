--------------------------- MODULE WitnessService ---------------------------
(***************************************************************************)
(* What generating witnesses and alibis promises, for plain witnesses      *)
(* (src/security/witness.rs) and temporal ones (src/security/              *)
(* witness_supergrid.rs) alike: one witness for each request, whenever and *)
(* however often it is made; a tag that vouches for one chain; and alibis  *)
(* that are members of the same space, other chains, and under no tag that *)
(* vouches for anything.  Modules Witness and TemporalWitness implement    *)
(* it.                                                                     *)
(***************************************************************************)

CONSTANT Member(_, _)   \* whether a chain is in a witness space

VARIABLES
  issued,   \* the witnesses: the request, the space, the chain and the tag
  alibis    \* the alibis: the space, the chain, the tag, and the chain replaced

Init == issued = {} /\ alibis = {}

\* A witness is handed out, for the first time or again.
Issue ==
  /\ \E w \in issued' :
       /\ issued' = issued \cup {w}
       /\ Member(w.space, w.chain)
       /\ \A i \in issued :
            /\ i.request = w.request => i = w
            /\ i.tag = w.tag => i.chain = w.chain
       /\ \A x \in alibis : x.tag # w.tag
  /\ UNCHANGED alibis

\* An alibi is handed out for a witness.
Stand ==
  /\ \E x \in alibis' :
       /\ alibis' = alibis \cup {x}
       /\ Member(x.space, x.chain)
       /\ \E i \in issued : i.space = x.space /\ i.chain = x.of /\ i.chain # x.chain
       /\ \A i \in issued : i.tag # x.tag
  /\ UNCHANGED issued

Next == Issue \/ Stand

Spec == Init /\ [][Next]_<<issued, alibis>>
=============================================================================
