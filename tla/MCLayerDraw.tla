---------------------------- MODULE MCLayerDraw ----------------------------
(***************************************************************************)
(* Instances of LayerDraw for TLC.                                         *)
(***************************************************************************)
EXTENDS LayerDraw

L == INSTANCE LayerMath WITH Word <- 2^20

\* The layers of numbers without a weighted candidate, with a few, and with so
\* many that the interval takes several steps.  The word of the search is much
\* smaller than that of the numbers, as it only has to hold the t.
Numbers == {500, 9000, 28000, 29000, 29900} \cup (29902 .. 29940)
           \cup (58650 .. 58660) \cup (90000 .. 90008) \cup {200000}

LayersOf(S) ==
  { [tFilter |-> L!WeightParams(L!LayerParams(k)).tFilter,
     tMax    |-> L!LayerParams(k).tMax,
     ePrime  |-> L!WeightParams(L!LayerParams(k)).ePrime] :
    k \in {x \in S : L!LayerParams(x).valid} }

SmallLayers == LayersOf(Numbers)

SpanOf256 == [i \in 0 .. 8 |-> 2^(8 - i) - 1]

=============================================================================
