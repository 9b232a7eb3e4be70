------------------------------ MODULE Chains -------------------------------
(***************************************************************************)
(* What the crate calls a witness: a chain of three pairs in which each    *)
(* pair decomposes the A of the pair before it.                            *)
(***************************************************************************)
EXTENDS Diophantine, Sequences

Depth == 3

Zero == Pair(0, 0)

\* The Option<MrsChain> a call returns, and the two ways it has none to show:
\* it is still running, or it was aborted by an overflow check.
Outcome(status, layers) == [status |-> status, layers |-> layers]
Pending    == Outcome("pending", << >>)
Panicked   == Outcome("panicked", << >>)
NoWitness  == Outcome("none", << >>)
Witness(c) == Outcome("some", c)

\* verify_descent: every A is smaller than the number it was derived from.
VerifyDescent(c, n) ==
  /\ Len(c) = Depth
  /\ n > c[1].a /\ c[1].a > c[2].a /\ c[2].a > c[3].a

\* A layer of n: a positive pair that represents n and meets the triangle
\* condition with it.
IsLayer(n, p) ==
  /\ p.a >= 1 /\ p.b >= 1
  /\ 19 * p.a + 9 * p.b = n
  /\ ValidateTriangleCondition(p.b, n)

\* A witness chain of n.
IsChain(n, c) ==
  /\ VerifyDescent(c, n)
  /\ IsLayer(n, c[1]) /\ IsLayer(c[1].a, c[2]) /\ IsLayer(c[2].a, c[3])

=============================================================================
