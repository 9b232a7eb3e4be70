---------------------------- MODULE LayerCheck -----------------------------
(***************************************************************************)
(* What the closed forms of Diophantine, LayerMath and Clock compute, for  *)
(* every N of MinN .. Dense and every Stride-th one up to MaxN, against    *)
(* definitions by enumeration.  The state machine does nothing but walk    *)
(* through the inputs.  N = 0 is left out: its digital root is 0, so it    *)
(* has no positive anchor.                                                 *)
(***************************************************************************)
EXTENDS LayerMath, Clock

CONSTANTS
  MinN, MaxN,   \* the range of the inputs that are checked
  Dense,        \* up to here every input is checked,
  Stride        \* and from here on one in Stride

ASSUME RangeAssumption ==
  /\ MinN \in 1 .. MaxN /\ MaxN \in Nat /\ MaxN < Word
  /\ Dense \in Nat /\ Stride \in Nat \ {0}

VARIABLE input

WalkInit == input = MinN
WalkNext ==
  /\ input < MaxN /\ input' \in input + 1 .. MaxN
  /\ input' = input + (IF input < Dense THEN 1 ELSE Stride)
WalkSpec == WalkInit /\ [][WalkNext]_input

InputInRange == input \in MinN .. MaxN

-----------------------------------------------------------------------------
\* All solutions of 19A + 9B = m in naturals with A >= lo.
Solutions(m, lo) ==
  {Pair(a, (m - 19 * a) \div 9) :
     a \in {x \in lo .. m \div 19 : (m - 19 * x) % 9 = 0}}

Representations(lo) == Solutions(input, lo)

\* The pairs the sampler can pick from, over the whole range of t.
Candidates ==
  LET lp == LayerParams(input)
  IN  {Pair(AAt(lp, t), BAt(lp, t)) : t \in {u \in 0 .. lp.tMax : lp.valid}}

\* generate_representation_family lists exactly the solutions with A >= 1 that
\* meet the triangle condition with their own A, although it derives them from
\* an anchor and a cardinality formula and filters with N.  The other anchor of
\* the crate describes the same forest: ForestNode::all lists the solutions with
\* A >= 0, one more when 9 divides N.
FamilyIsExact ==
  /\ GenerateRepresentationFamilyUnfiltered(input) = Representations(1)
  /\ GenerateRepresentationFamily(input) =
       {p \in Representations(1) : ValidateTriangleCondition(p.b, p.a)}
  /\ ForestAll(input, ForestCount(input)) = Representations(0)
  /\ ForestCount(input) = CalculatePopoviciuCardinality(input) + (IF input % 9 = 0 THEN 1 ELSE 0)

\* README, "Frobenius boundary (Positive Anchor)": 162 is the largest N whose
\* cardinality is 0.
BoundaryIs162 ==
  /\ input > 162 => CalculatePopoviciuCardinality(input) > 0
  /\ input = 162 => CalculatePopoviciuCardinality(input) = 0

\* The sampler's arithmetic progression over t is the triangle-filtered family
\* of the core module; the one pair they can disagree on has B = 0, where the
\* closed form takes 0 for a number of digital root 9.
ProgressionIsFamily ==
  {p \in Candidates : p.b # 0} = GenerateRepresentationFamily(input)

\* weight_params_ct: the range t_filter .. t_max of a non-final layer holds
\* exactly the candidates that have at least two candidates below them, so the
\* check_ahead test that follows the pick rejects none and none is left out.  The
\* comment above that test (cdf_sampler.rs:549-554) says that t_filter guarantees
\* a count of 1 only and that candidates with a single child slip through: the
\* rounding of t_filter is for 2, and none does.
FilterIsCheckAhead ==
  LET lp == LayerParams(input)
      w  == WeightParams(lp)
  IN  lp.valid => \A t \in 0 .. lp.tMax :
         CheckAheadValid(AAt(lp, t)) <=> t >= w.tFilter

\* The weight of a candidate is the number of candidates of the pair tSkip
\* places further on: the child count itself whenever nothing is skipped.
WeightIsShiftedChildCount ==
  LET lp == LayerParams(input)
      w  == WeightParams(lp)
  IN  w.valid => \A t \in w.tFilter .. lp.tMax :
         AAt(lp, t) + 81 * w.tSkip < Word =>
           WeightOf(w, t) = CountTriangleFilteredClosedForm(AAt(lp, t) + 81 * w.tSkip)

\* In a build with overflow checks, a_at_ct and b_at_ct never overflow on an N
\* that has candidates.
NoOverflowOnCandidates ==
  LET lp == LayerParams(input)
  IN  lp.valid => ~Overflows(lp, lp.tMax)

\* derive_key_from_clock: whatever the first hash, the number it becomes has a
\* representation, and over the second hash the key reaches every one of them
\* and nothing else: no pair with a B that went below 0, none left out.  They are
\* the representations with A >= 0, those of the anchor N % 9, and not the
\* A >= 1 that README.md:128 and COMPARISON.md:189 speak of: 153 has A = 0 only.
ClockReachesForest ==
  LET m == ClockNumber(input)
  IN  {ClockPoint(m, hash) : hash \in 0 .. PointCount(m)} = Solutions(m, 0)

\* The clock reading that goes into the key names one number only: its fields
\* stay in their ranges and give the number back.  The second number reaches
\* past a day.
ClockReadingIsExact ==
  \A m \in {input, 34567 * input} :
    LET c == Decompose(m)
    IN  /\ c.d * DayMs + c.h * HourMs + c.m * MinMs + c.s * SecMs + c.ms = m
        /\ c.h < 24 /\ c.m < 60 /\ c.s < 60 /\ c.ms < 1000
=============================================================================
