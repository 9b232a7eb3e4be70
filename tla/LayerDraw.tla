----------------------------- MODULE LayerDraw -----------------------------
(***************************************************************************)
(* The choice of a candidate in a weighted layer, as the loop body of      *)
(* sample_three_layers_ct_raw (src/sampler/cdf_sampler.rs) puts it         *)
(* together: floor_sum_ct weighs the whole layer, uniform_below_u128_ct    *)
(* draws below that weight, and ct_binary_search looks for the candidate,  *)
(* with another call of floor_sum_ct in each of its iterations.            *)
(***************************************************************************)
EXTENDS UniformDraw, FloorSum, WeightedPick

VARIABLE phase    \* which of the three is running: "weigh", "draw" or "search"

vars == <<phase, drawVars, sumVars, pickVars>>

\* The call of floor_sum_ct for the candidates up to t.
SumCall(t) == [n |-> Terms(layer, t), m |-> 171, a |-> 9, b |-> layer.ePrime]

\* What prefix_weight_ct returns once its sum is complete.
Weight == ans + call.n

\* The call of prefix_weight_ct for t starts.
Weigh(t) ==
  /\ call' = SumCall(t)
  /\ n' = call'.n /\ m' = call'.m /\ a' = call'.a /\ b' = call'.b
  /\ ans' = 0 /\ done' = FALSE /\ iteration' = 0

\* Two iterations are enough for m = 171 and a = 9, and the code has 64; the arguments of
\* a call are words, which in the code are those of the numbers; a weight is a u128 that
\* does not wrap, and the words drawn for it are of that width.
ASSUME LayerDrawAssumption ==
  /\ Iterations >= 2
  /\ 171 < ArgWord /\ Word <= ArgWord
  /\ \A l \in Layers : l.ePrime < ArgWord
  /\ \A l \in Layers : TotalWeight(l) < RandomWord

-----------------------------------------------------------------------------
Init ==
  /\ phase = "weigh"
  /\ layer \in Layers
  /\ StartsWith(SumCall(layer.tMax))
  /\ bound = 0 /\ drawn = 0 /\ result = 0 /\ found = FALSE
  /\ r = 0 /\ lo = layer.tFilter /\ hi = layer.tMax /\ step = 0

\* An iteration of floor_sum_ct.
SumUp ==
  /\ SumNext
  /\ UNCHANGED <<phase, drawVars, pickVars>>

\* total_weight
TakeTotal ==
  /\ phase = "weigh" /\ ~Iterating
  /\ phase' = "draw"
  /\ bound' = Weight
  /\ UNCHANGED <<drawn, result, found, sumVars, pickVars>>

\* An iteration of uniform_below_u128_ct.
DrawWord ==
  /\ phase = "draw"
  /\ DrawNext
  /\ UNCHANGED <<phase, sumVars, pickVars>>

\* (r, r_ok), and the first iteration of the search asks for a weight.
TakeDrawn ==
  /\ phase = "draw" /\ drawn = Tries
  /\ phase' = "search"
  /\ r' = result
  /\ Weigh(Mid(lo, hi))
  /\ UNCHANGED <<drawVars, layer, lo, hi, step>>

\* The rest of an iteration of ct_binary_search, up to the weight that the next
\* one needs.
SearchStep ==
  /\ phase = "search" /\ ~Iterating
  /\ Narrow(Weight)
  /\ IF step' < Steps THEN Weigh(Mid(lo', hi')) ELSE UNCHANGED sumVars
  /\ UNCHANGED <<phase, drawVars>>

Next == SumUp \/ TakeTotal \/ DrawWord \/ TakeDrawn \/ SearchStep

Spec == Init /\ [][Next]_vars

-----------------------------------------------------------------------------
\* The words that are accepted and reduced to a number from x up to y.
WordsWithin(x, y) == {w \in 0 .. RandomWord - 1 : Accept(bound, w) /\ Reduce(bound, w) \in x .. y - 1}

\* A candidate is picked with a probability proportional to its weight: over all
\* that the three loops do together, each unit of weight in the layer has the same
\* number of accepted words, and those of a candidate's slice end on it.
PickIsWeighted ==
  step = Steps /\ HasWeight(layer) =>
    LET before == IF lo = layer.tFilter THEN 0 ELSE PrefixWeight(layer, lo - 1)
        upTo   == PrefixWeight(layer, lo)
        share  == Limit(bound) \div TotalWeight(layer)
    IN  /\ r \in before .. upTo - 1
        /\ share > 0 /\ Cardinality(WordsWithin(before, upTo)) = share * (upTo - before)
=============================================================================
