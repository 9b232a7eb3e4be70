----------------------------- MODULE Supergrid -----------------------------
(***************************************************************************)
(* The arithmetic of src/sampler/supergrid.rs: a timestamp is floored to   *)
(* its window of MicroAnchor seconds, the floor is scaled by 90, and every *)
(* layer is drawn at the base scale and scaled again.                      *)
(***************************************************************************)
EXTENDS Diophantine, Sequences

CONSTANT Word   \* 2^64 in the code

ASSUME SupergridAssumption == Word \in Nat \ {0}

ScaleFactor == 90
MicroAnchor == 366
SuperGridN  == 2520

Zero == Pair(0, 0)

\* The window a timestamp falls into, and the root number of that window.
Window(timestamp) == timestamp \div MicroAnchor
TemporalRoot(timestamp) == MicroAnchor * Window(timestamp)
TransformToSupergrid(n) == (n * ScaleFactor) % Word
ScaledRoot(timestamp) == TransformToSupergrid(TemporalRoot(timestamp))

\* What sample_layer_scaled computes before it draws.
Layer(nScaled) ==
  LET base == nScaled \div ScaleFactor
      a0   == 1 + (((base + Word - 1) % Word) % 9)
      b0   == (base - 19 * a0) \div 9
  IN  [a0 |-> a0, b0 |-> b0, kMax |-> b0 \div 19, some |-> base >= 19 * a0 /\ b0 \div 19 # 0]

\* The values rand_val % (k_max + 1) can take.
DrawsOf(nScaled) == 0 .. Layer(nScaled).kMax

Scaled(p) == Pair(p.a * ScaleFactor, p.b * ScaleFactor)

\* Some(pair) for every draw, or no pair: None, before anything is drawn.  The
\* checked products never fail, a and b being at most n_scaled / 90.
SampleLayerScaled(nScaled) ==
  LET l == Layer(nScaled)
  IN  {Scaled(Pair(l.a0 + 9 * t, l.b0 - 19 * t)) : t \in {u \in DrawsOf(nScaled) : l.some}}

\* The chains sample_three_layers_scaled_raw returns with its bit set.  When a
\* layer fails its bit is cleared for good, whatever the layers after it.
ScaledChains(root) ==
  UNION {UNION {{<<p, q, r>> : r \in SampleLayerScaled(q.a)} :
                  q \in SampleLayerScaled(p.a)} :
           p \in SampleLayerScaled(root)}

LevelOf(root) == IF root % SuperGridN = 0 THEN "SuperGrid" ELSE "TemporalAnchor"

NineHomogeneous(p) == DigitalRoot(p.a) = 9 /\ DigitalRoot(p.b) = 9

\* verify_temporal_chain: only the first layer's equation is tested, and the
\* homogeneity of every layer unless the chain calls itself raw.
VerifyTemporalChain(c, level, root) ==
  /\ Len(c) = 3
  /\ (19 * c[1].a + 9 * c[1].b) % Word = root
  /\ level = "Raw" \/ \A i \in 1 .. 3 : NineHomogeneous(c[i])
=============================================================================
