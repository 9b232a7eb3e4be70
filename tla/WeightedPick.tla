---------------------------- MODULE WeightedPick ----------------------------
(***************************************************************************)
(* The pick of a candidate in a weighted layer (src/sampler/               *)
(* cdf_sampler.rs): ct_binary_search over prefix_weight_ct, which runs one *)
(* iteration per bit of a word whatever the width of the interval, and     *)
(* goes on when the interval is down to one candidate.                     *)
(*                                                                         *)
(* This module takes the sum that prefix_weight_ct asks of floor_sum_ct    *)
(* from its definition, which is what the theorems about the search need;  *)
(* in module LayerDraw the search runs on the sums of module FloorSum.     *)
(***************************************************************************)
EXTENDS Sums

CONSTANTS
  Word,     \* the number of values of a machine word, 2^64 in the code
  Steps,    \* the iterations of the search, 64 in the code
  Span,     \* Span[i]: how wide an interval can be after i steps, 2^(Steps - i) - 1
  Layers    \* the parameters [tFilter, tMax, ePrime] of the layers

\* Halving a word Steps times leaves nothing of it.  Of the parameters, weight_params_ct
\* computes a tFilter of at most 39 (t_skip is at most 3 and need at most 323), and tMax
\* counts steps of 81 or 90 below a word, so the two add up to much less than one.
ASSUME PickAssumption ==
  /\ Word \in Nat /\ Word >= 2
  /\ Steps \in Nat
  /\ Span \in [0 .. Steps -> Nat]
  /\ Span[0] = Word - 1 /\ Span[Steps] = 0
  /\ \A i \in 0 .. Steps - 1 : Span[i] = 2 * Span[i + 1] + 1
  /\ Layers \subseteq [tFilter : 0 .. Word - 1, tMax : 0 .. Word - 1, ePrime : Nat]
  /\ \A l \in Layers : l.tFilter + l.tMax + 1 < Word

VARIABLES layer, r, lo, hi, step

pickVars == <<layer, r, lo, hi, step>>

\* The number of candidates up to t, capped at tMax.  For a filter beyond tMax it
\* wraps.
Terms(l, t) ==
  LET end == IF t > l.tMax THEN l.tMax ELSE t
  IN  IF t >= l.tFilter THEN (end - l.tFilter + 1) % Word ELSE 0

\* prefix_weight_ct: the weight of these candidates.
PrefixWeight(l, t) == SumOfFloors(Terms(l, t), 171, 9, l.ePrime) + Terms(l, t)

TotalWeight(l) == PrefixWeight(l, l.tMax)

\* What uniform_below_u128_ct returns for a total: a number below it, or 0.
Drawn(total) == IF total = 0 THEN {0} ELSE 0 .. total - 1

\* Slips of the code that the properties below must notice; no specification
\* uses them.
WeighsLess(prefix) == prefix < r

Searching == step < Steps

Mid(x, y) == (x + ((y - x) % Word) \div 2) % Word

\* The predicate the caller passes: a prefix of this weight is too light.
Below(prefix) == prefix <= r

-----------------------------------------------------------------------------
PickInit ==
  /\ layer \in Layers
  /\ r \in Drawn(TotalWeight(layer))
  /\ lo = layer.tFilter
  /\ hi = layer.tMax
  /\ step = 0

\* One iteration, with the weight of the candidates up to the middle.
Narrow(prefix) ==
  LET mid == Mid(lo, hi)
  IN  /\ Searching
      /\ IF Below(prefix)
         THEN lo' = (mid + 1) % Word /\ hi' = hi
         ELSE lo' = lo /\ hi' = mid
      /\ step' = step + 1
      /\ UNCHANGED <<layer, r>>

Search == Narrow(PrefixWeight(layer, Mid(lo, hi)))

PickNext == Search

PickSpec == PickInit /\ [][PickNext]_pickVars

-----------------------------------------------------------------------------
PickTypeOK ==
  /\ layer \in Layers
  /\ r \in Nat
  /\ lo \in 0 .. Word - 1 /\ hi \in 0 .. Word - 1
  /\ step \in 0 .. Steps

\* What the sampler checks of a layer before it trusts the pick.
HasWeight(l) == l.tFilter <= l.tMax /\ TotalWeight(l) > 0

\* The candidate t is the one whose slice of the total weight r falls in.
InSlice(l, t) ==
  /\ l.tFilter <= t /\ t <= l.tMax
  /\ r < PrefixWeight(l, t)
  /\ t = l.tFilter \/ PrefixWeight(l, t - 1) <= r

\* In a layer with weight the answer stays inside the interval: everything
\* below lo weighs too little and hi weighs enough, on the phantom iterations
\* too, so no difference ever wraps.
Bracketed ==
  HasWeight(layer) =>
    /\ layer.tFilter <= lo /\ lo <= hi /\ hi <= layer.tMax
    /\ lo = layer.tFilter \/ PrefixWeight(layer, lo - 1) <= r
    /\ r < PrefixWeight(layer, hi)

\* The search ends, in the steps it has, on the candidate whose slice r falls
\* in: a candidate is picked by as many values of r as its weight says.
PickHasItsSlice == step = Steps /\ HasWeight(layer) => InSlice(layer, lo)

\* In a layer whose filter leaves nothing the search runs over an inverted
\* interval and ends on one of its two ends, as the sampler assumes.
EmptyLayerEndsOnAnEnd ==
  step = Steps /\ ~HasWeight(layer) =>
    lo = IF layer.tFilter = layer.tMax + 1 THEN layer.tMax ELSE layer.tFilter

=============================================================================
