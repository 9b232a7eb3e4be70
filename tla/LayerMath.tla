----------------------------- MODULE LayerMath -----------------------------
(***************************************************************************)
(* The closed forms of src/sampler/cdf_sampler.rs for one layer of a       *)
(* chain: the triangle-valid pairs of N in arithmetic progression, and the *)
(* parameters of the weighted pick over them.                              *)
(*                                                                         *)
(* The code computes on u64 with wrapping subtractions and masks the       *)
(* result with a Choice; Word stands for 2^64, and the subtractions that   *)
(* do wrap on an infeasible N wrap here as well.                           *)
(***************************************************************************)
EXTENDS Diophantine

CONSTANT Word   \* the number of values of a machine word, 2^64 in the code

\* Large enough that no constant of the closed forms reaches it: t_filter is at
\* most 38, which puts 19 * k at most at 6650.
ASSUME WordAssumption == Word \in Nat /\ Word >= 8192

\* Slips of the code that the properties must notice; no definition uses them.
FirstStepOfAnchor(n, b0)         == (b0 + 9 - DigitalRoot(n)) % 9
KMaxOfB(b0)                      == b0
FilterStepsRoundedDown(b0Val, c3) ==
  LET need == 171 + 19 * c3 - b0Val IN IF need <= 0 THEN 0 ELSE need \div 9
WeightWithoutOne(w, t)           == (9 * (t - w.tFilter) + w.ePrime) \div 171

\* u64::wrapping_sub
WrappingSub(x, y) == (x - y) % Word

\* The first step, in units of k, at which dr(B) meets the triangle target.
FirstStep(n, b0) == (b0 + 9 - DigitalRoot(2 * CalculateAnchor(n))) % 9

\* The last k at which B = b0 - 19*k is not negative.
KMax(b0) == b0 \div 19

LayerParams(n) ==
  LET a0   == CalculateAnchor(n)
      b0   == WrappingSub(n, 19 * a0) \div 9
      kMax == KMax(b0)
      k0   == FirstStep(n, b0)
  IN  [ a0    |-> a0,
        b0    |-> b0,
        k0    |-> k0,
        tMax  |-> WrappingSub(kMax, k0) \div 9,
        valid |-> 19 * a0 <= n /\ k0 <= kMax ]

CountTriangleFilteredClosedForm(n) ==
  LET lp == LayerParams(n) IN IF lp.valid THEN lp.tMax + 1 ELSE 0

CheckAheadValid(a) == CountTriangleFilteredClosedForm(a) >= 2

\* k = k0 + 9*t, then a_at_ct and b_at_ct in a build without overflow checks.
StepAt(lp, t) == lp.k0 + 9 * t
AAt(lp, t) == (lp.a0 + 9 * StepAt(lp, t)) % Word
BAt(lp, t) == WrappingSub(lp.b0, 19 * StepAt(lp, t))

\* The same two functions contain unchecked `*` and `+`, which abort the call
\* in a build with overflow checks (every cargo build except --release).
Overflows(lp, t) == 19 * StepAt(lp, t) >= Word

\* weight_params_ct.  The candidates of a layer grow by 81 per t and share their
\* digital root d; tSkip is the first t whose candidate reaches 19*d.
TSkip(lp, d) ==
  LET first == lp.a0 + 9 * lp.k0             \* a_at_ct(0)
  IN  IF first < 19 * d THEN (19 * d - first + 80) \div 81 ELSE 0

\* b0_val: the B that the anchor of the candidate t leaves.
B0Val(lp, d, t) == (lp.a0 + 9 * lp.k0 + 81 * t - 19 * d) \div 9

\* The steps of t after tSkip until a child has two candidates of its own.
FilterSteps(b0Val, c3) ==
  LET need == 171 + 19 * c3 - b0Val
  IN  IF need <= 0 THEN 0 ELSE (need + 8) \div 9

WeightParams(lp) ==
  LET d       == DigitalRoot(lp.a0 + 9 * lp.k0)
      tSkip   == TSkip(lp, d)
      b0Val   == B0Val(lp, d, tSkip)
      c3      == (b0Val + 9 - DigitalRoot(2 * d)) % 9
      tFilter == tSkip + FilterSteps(b0Val, c3)
      ePrime  == 9 * tFilter + b0Val - 19 * c3
  IN  [ tSkip   |-> tSkip,
        tFilter |-> tFilter,
        ePrime  |-> ePrime,
        valid   |-> lp.valid /\ ePrime >= 171 /\ tFilter <= lp.tMax ]

\* The terms of the prefix sum: prefix_weight_ct(t) is the sum of the weights
\* of t_filter .. t, and the i-th of them is floor((9*i + e') / 171) + 1.
WeightOf(w, t) == (9 * (t - w.tFilter) + w.ePrime) \div 171 + 1

=============================================================================
