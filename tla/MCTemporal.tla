----------------------------- MODULE MCTemporal -----------------------------
(***************************************************************************)
(* An instance of TemporalWitness for TLC, with a word in which the scaled *)
(* roots of the later times wrap.                                          *)
(***************************************************************************)
EXTENDS TemporalWitness, TLC

MyWord == 2^23

\* A time in window 225, at which a clock that is behind may stand; the last
\* second of window 227, which has 10 chains, 6 of them with a B of 0; the last
\* and the first second at which its witness is and is not accepted; and a time
\* in window 989, whose scaled root wraps and has chains that no check accepts.
MyTimes == {82700, 83447, 83813, 83814, 362000}

\* The chains of the scaled roots, at the base scale; that these are all is the
\* assumption TemporalAssumption.
Base(a1, b1, a2, b2, a3, b3) ==
  <<Scaled(Pair(a1, b1)), Scaled(Pair(a2, b2)), Scaled(Pair(a3, b3))>>

MyChains ==
  7477380 :> {
      Base(4332, 86, 228, 0, 3, 19),
      Base(4332, 86, 228, 0, 12, 0),
      Base(4341, 67, 228, 1, 3, 19),
      Base(4341, 67, 228, 1, 12, 0),
      Base(4350, 48, 228, 2, 3, 19),
      Base(4350, 48, 228, 2, 12, 0),
      Base(4359, 29, 228, 3, 3, 19),
      Base(4359, 29, 228, 3, 12, 0),
      Base(4368, 10, 228, 4, 3, 19),
      Base(4368, 10, 228, 4, 12, 0)} @@
  7411836 :> {
      Base(4332, 5, 228, 0, 3, 19),
      Base(4332, 5, 228, 0, 12, 0)} @@
  7411500 :> {} @@ 7510320 :> {} @@ 7543260 :> {}
=============================================================================
