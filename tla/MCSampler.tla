----------------------------- MODULE MCSampler -----------------------------
(***************************************************************************)
(* Instances of Sampler for TLC.                                           *)
(***************************************************************************)
EXTENDS Sampler

\* Every small root: with a candidate (37), with one whose B is 0 (171), with
\* a first step beyond k_max (163), too small for its anchor (9).  None of
\* them has a chain.
SmallRoots == {1, 9, 28, 37, 56, 162, 163, 164, 170, 171, 180}

\* 569296 is the smallest root with a chain (it has 2), 570835 has 4, and
\* 700000 has first layers but no chain.
LargeRoots == {569296, 570835, 700000}

AllRoots == SmallRoots \cup LargeRoots

SmallWord == 2^20

-----------------------------------------------------------------------------
(* What the crate's comments and documents say and the code does not do. *)

\* cdf_sampler.rs: a root without any chain always returns None, "regardless
\* of rng": it does not abort the call either.
NeverPanics == outcome # Panicked
=============================================================================
