---------------------------- MODULE Diophantine ----------------------------
(***************************************************************************)
(* The number theory shared by the whole crate: digital roots, anchors,    *)
(* and the families of pairs (A, B) with 19 A + 9 B = N.                   *)
(*                                                                         *)
(* src/core/diophantine.rs takes the positive anchor A_0 = dr(N), in 1..9; *)
(* src/forest/ takes the anchor N % 9, in 0..8.  Both are modelled here    *)
(* because the clock KDF uses the second and every sampler the first.      *)
(*                                                                         *)
(* Numbers are natural numbers.  Every function below is called with       *)
(* arguments for which the u64 (core) or u128 (forest) arithmetic of the   *)
(* code does not wrap: the products are 19*A_0 <= 171, and every other     *)
(* value is at most N.                                                     *)
(***************************************************************************)
EXTENDS Integers

Pair(a, b) == [a |-> a, b |-> b]

DigitalRoot(n) == IF n = 0 THEN 0 ELSE 1 + ((n - 1) % 9)

CheckFrobeniusBound(n) == n > 143

-----------------------------------------------------------------------------
(* Slips of the code that the properties must notice; no definition uses them. *)

CardinalityWithoutAnchor(n) ==
  LET s == 19 * DigitalRoot(n) IN IF n < s THEN 0 ELSE (n - s) \div 171

-----------------------------------------------------------------------------
(* core::diophantine *)

CalculateAnchor(n) == DigitalRoot(n)

CalculatePopoviciuCardinality(n) ==
  LET subtrahend == 19 * CalculateAnchor(n)
  IN  IF n < subtrahend THEN 0 ELSE (n - subtrahend) \div 171 + 1

ValidateTriangleCondition(b, x) ==
  DigitalRoot(b) = DigitalRoot(2 * DigitalRoot(x))

\* The k-th pair of the loop body common to both generators.
RepresentationAt(n, k) ==
  LET a == CalculateAnchor(n) + 9 * k
  IN  Pair(a, (n - 19 * a) \div 9)

\* The two Vecs are built in increasing k, so as sets they lose nothing: the
\* order and the multiplicity are those of k.
GenerateRepresentationFamilyUnfiltered(n) ==
  {RepresentationAt(n, k) : k \in 0 .. CalculatePopoviciuCardinality(n) - 1}

GenerateRepresentationFamily(n) ==
  {p \in GenerateRepresentationFamilyUnfiltered(n) :
     ValidateTriangleCondition(p.b, n)}

-----------------------------------------------------------------------------
(* forest::primitives and forest::node *)

ForestAnchor(n) == n % 9

ForestB0(n) == (n - 19 * ForestAnchor(n)) \div 9

ForestCount(n) ==
  IF 19 * ForestAnchor(n) > n THEN 0 ELSE ForestB0(n) \div 19 + 1

\* ForestNode::branch(k); callers only reach it with k < ForestCount(n).
ForestBranch(n, k) == Pair(ForestAnchor(n) + 9 * k, ForestB0(n) - 19 * k)

\* ForestNode::all(cap)
ForestAll(n, cap) ==
  {ForestBranch(n, k) :
     k \in 0 .. (IF ForestCount(n) < cap THEN ForestCount(n) ELSE cap) - 1}

=============================================================================
