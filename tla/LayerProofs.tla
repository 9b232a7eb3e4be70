---------------------------- MODULE LayerProofs ----------------------------
(***************************************************************************)
(* Facts about the closed forms of Diophantine and LayerMath that hold for *)
(* every number below the word size, and with them the invariants of       *)
(* LayerCheck, for every input and not only for those TLC walks through.   *)
(* The theorems about the sampler rest on the same facts.                  *)
(***************************************************************************)
EXTENDS LayerCheck, TLAPS

-----------------------------------------------------------------------------
(* Digital roots. *)

\* The digital root of a positive number is its residue in 1 .. 9.
LEMMA DigitalRootIsResidue ==
  \A x \in Nat \ {0} : DigitalRoot(x) \in 1 .. 9 /\ DigitalRoot(x) % 9 = x % 9
  BY SMT DEF DigitalRoot

\* A positive number with the residue of d in 1 .. 9 has digital root d.
LEMMA ResidueIsDigitalRoot ==
  \A x \in Nat \ {0}, d \in 1 .. 9 : x % 9 = d % 9 => DigitalRoot(x) = d
  BY SMT DEF DigitalRoot

\* The triangle condition of a positive pair is a congruence: B = 2N mod 9.
LEMMA TriangleIsCongruence ==
  \A b \in Nat \ {0}, x \in Nat \ {0} :
    ValidateTriangleCondition(b, x) <=> b % 9 = (2 * x) % 9
  BY SMT DEF ValidateTriangleCondition, DigitalRoot

\* A difference that does not go below zero does not wrap.
LEMMA NoWrap ==
  \A x \in Nat, y \in Nat : y <= x /\ x < Word => WrappingSub(x, y) = x - y
  BY WordAssumption, SMT DEF WrappingSub

LEMMA NoWrapMod == \A x \in Nat : x < Word => x % Word = x
  BY WordAssumption, SMT

-----------------------------------------------------------------------------
(* The layer parameters without the modulus. *)

\* What new_ct computes of an N that has candidates, and that no product in
\* a_at_ct or b_at_ct overflows on its range of t.
LEMMA ParamsOfValid ==
  ASSUME NEW x \in 1 .. Word - 1, LayerParams(x).valid
  PROVE  LET lp == LayerParams(x) IN
         /\ lp.a0 \in 1 .. 9 /\ lp.a0 = DigitalRoot(x)
         /\ lp.b0 \in Nat /\ 9 * lp.b0 = x - 19 * lp.a0
         /\ lp.k0 \in 0 .. 8
         /\ (lp.b0 - lp.k0 - 2 * x) % 9 = 0
         /\ lp.tMax \in Nat /\ lp.tMax = (lp.b0 \div 19 - lp.k0) \div 9
         /\ 19 * (lp.k0 + 9 * lp.tMax) <= lp.b0
         /\ lp.b0 < 19 * (lp.k0 + 9 * lp.tMax + 9)
<1> DEFINE a0 == DigitalRoot(x)
           b0 == (x - 19 * a0) \div 9
           k0 == (b0 + 9 - DigitalRoot(2 * a0)) % 9
<1>1. a0 \in 1 .. 9 /\ a0 % 9 = x % 9
  BY DigitalRootIsResidue, WordAssumption, SMT
<1>2. 19 * a0 <= x
  BY DEF LayerParams, KMax, CalculateAnchor
<1>3. WrappingSub(x, 19 * a0) = x - 19 * a0
  BY <1>1, <1>2, NoWrap, WordAssumption, SMT
<1>4. b0 \in Nat /\ 9 * b0 = x - 19 * a0
  <2> HIDE DEF a0
  <2> QED BY <1>1, <1>2, WordAssumption, SMT
<1>5. DigitalRoot(2 * a0) \in 1 .. 9 /\ DigitalRoot(2 * a0) % 9 = (2 * a0) % 9
  BY <1>1, DigitalRootIsResidue, SMT
<1>6. k0 \in 0 .. 8 /\ (b0 - k0 - 2 * x) % 9 = 0
  <2> DEFINE d == DigitalRoot(2 * a0)
  <2>1. d \in 1 .. 9 /\ d % 9 = (2 * a0) % 9
    BY <1>5
  <2> HIDE DEF a0, b0, d
  <2>2. k0 \in 0 .. 8 /\ (b0 - k0 - d) % 9 = 0
    <3>1. k0 = (b0 + 9 - d) % 9
      BY DEF d
    <3> HIDE DEF k0
    <3> QED BY <3>1, <2>1, <1>4, SMT
  <2>3. (d - 2 * x) % 9 = 0
    BY <1>1, <2>1, WordAssumption, SMT
  <2> HIDE DEF k0
  <2> QED BY <1>4, <2>1, <2>2, <2>3, WordAssumption, SMT
<1>7. LayerParams(x).a0 = a0 /\ LayerParams(x).b0 = b0 /\ LayerParams(x).k0 = k0
  BY <1>3 DEF LayerParams, KMax, CalculateAnchor, FirstStep
<1>8. k0 <= b0 \div 19
  BY <1>3 DEF LayerParams, KMax, CalculateAnchor, FirstStep
<1>9. WrappingSub(b0 \div 19, k0) = b0 \div 19 - k0
  <2>1. b0 \div 19 \in Nat /\ b0 \div 19 < Word
    <3> HIDE DEF a0, b0
    <3> QED BY <1>1, <1>4, WordAssumption, SMT
  <2> QED BY <2>1, <1>6, <1>8, NoWrap, SMT
<1>10. LayerParams(x).tMax = (b0 \div 19 - k0) \div 9
  BY <1>3, <1>9 DEF LayerParams, KMax, CalculateAnchor, FirstStep
<1> HIDE DEF a0, b0, k0
<1>11. LET t == (b0 \div 19 - k0) \div 9 IN
         t \in Nat /\ 19 * (k0 + 9 * t) <= b0 /\ b0 < 19 * (k0 + 9 * t + 9)
  BY <1>4, <1>6, <1>8, SMT
<1> QED BY <1>1, <1>4, <1>6, <1>7, <1>10, <1>11, SMT DEF a0

-----------------------------------------------------------------------------
(* A candidate of a layer. *)

\* Every pick t of an N that has candidates is a solution of 19A + 9B = N with
\* a positive A below N and a B in the residue class of the triangle condition,
\* computed without overflow.
LEMMA CandidateIsSolution ==
  ASSUME NEW x \in 1 .. Word - 1, LayerParams(x).valid,
         NEW t \in 0 .. LayerParams(x).tMax
  PROVE  LET lp == LayerParams(x) IN
         /\ AAt(lp, t) = lp.a0 + 9 * StepAt(lp, t)
         /\ BAt(lp, t) = lp.b0 - 19 * StepAt(lp, t)
         /\ AAt(lp, t) \in 1 .. Word - 1 /\ BAt(lp, t) \in Nat
         /\ 19 * AAt(lp, t) + 9 * BAt(lp, t) = x
         /\ AAt(lp, t) < x
         /\ BAt(lp, t) % 9 = (2 * x) % 9
         /\ AAt(lp, t) % 9 = x % 9
         /\ ~Overflows(lp, t)
<1> DEFINE lp == LayerParams(x)
           a0 == lp.a0
           b0 == lp.b0
           k0 == lp.k0
           k  == k0 + 9 * t
<1>1. /\ a0 \in 1 .. 9 /\ a0 = DigitalRoot(x)
      /\ b0 \in Nat /\ 9 * b0 = x - 19 * a0
      /\ k0 \in 0 .. 8 /\ (b0 - k0 - 2 * x) % 9 = 0
      /\ lp.tMax \in Nat /\ 19 * (k0 + 9 * lp.tMax) <= b0
  BY ParamsOfValid
<1>2. x \in Nat \ {0} /\ x < Word /\ t \in Nat /\ t <= lp.tMax
  BY <1>1, WordAssumption, SMT
<1>3. a0 % 9 = x % 9
  BY <1>1, <1>2, DigitalRootIsResidue
<1>4. StepAt(lp, t) = k
  BY DEF StepAt
<1> HIDE DEF lp, a0, b0, k0
<1>5. k \in Nat /\ 19 * k <= b0 /\ (b0 - k - 2 * x) % 9 = 0
  BY <1>1, <1>2, SMT
<1> HIDE DEF k
<1>6. b0 < Word /\ a0 + 9 * k \in 1 .. Word - 1 /\ a0 + 9 * k < x
  BY <1>1, <1>2, <1>5, WordAssumption, SMT
<1>7. AAt(lp, t) = a0 + 9 * k
  BY <1>4, <1>6, NoWrapMod, WordAssumption, SMT DEF AAt, a0
<1>8. BAt(lp, t) = b0 - 19 * k
  BY <1>1, <1>4, <1>5, <1>6, NoWrap, WordAssumption, SMT DEF BAt, b0
<1>9. (b0 - 19 * k) % 9 = (2 * x) % 9
  BY <1>1, <1>2, <1>5, SMT
<1>10. (a0 + 9 * k) % 9 = x % 9
  BY <1>1, <1>2, <1>3, <1>5, SMT
<1>11. ~Overflows(lp, t)
  BY <1>1, <1>4, <1>5, <1>6, WordAssumption, SMT DEF Overflows
<1>12. 19 * (a0 + 9 * k) + 9 * (b0 - 19 * k) = x
  <2>1. a0 \in Int /\ b0 \in Int /\ k \in Int /\ x \in Int
    BY <1>1, <1>2, <1>5, SMT
  <2>2. 9 * b0 = x - 19 * a0
    BY <1>1
  <2>3. 19 * (a0 + 9 * k) + 9 * (b0 - 19 * k) = 19 * a0 + 9 * b0
    BY <2>1, SMT
  <2> QED BY <2>1, <2>2, <2>3, SMT
<1>13. b0 - 19 * k \in Nat
  BY <1>1, <1>5, SMT
<1> QED
  BY <1>4, <1>6, <1>7, <1>8, <1>9, <1>10, <1>11, <1>12, <1>13 DEF lp, a0, b0

\* The number of candidates when the anchor leaves b and the first step is c.
CountFrom(b, c) == (b - 19 * c) \div 171 + 1

\* A number has two candidates when B of its anchor reaches one full period of
\* nine steps beyond the first valid one.
LEMMA CheckAheadIsBound ==
  ASSUME NEW y \in 1 .. Word - 1, NEW b \in Int, y - 19 * DigitalRoot(y) = 9 * b
  PROVE  LET c == (b + 9 - DigitalRoot(2 * DigitalRoot(y))) % 9
         IN  /\ CheckAheadValid(y) <=> b >= 19 * c + 171
             /\ b >= 19 * c + 171 =>
                  CountTriangleFilteredClosedForm(y) = CountFrom(b, c)
<1> DEFINE d == DigitalRoot(y)
           d2 == DigitalRoot(2 * d)
           c == (b + 9 - d2) % 9
<1> SUFFICES /\ CheckAheadValid(y) <=> b >= 19 * c + 171
             /\ b >= 19 * c + 171 =>
                  CountTriangleFilteredClosedForm(y) = CountFrom(b, c)
  OBVIOUS
<1>3. d \in 1 .. 9
  BY DigitalRootIsResidue, WordAssumption, SMT
<1>4. d2 \in 1 .. 9
  <2> HIDE DEF d
  <2> QED BY <1>3, DigitalRootIsResidue, SMT
<1>5. c \in 0 .. 8
  <2> HIDE DEF d2
  <2> QED BY <1>4, SMT
<1> HIDE DEF c
<1>1. CASE b < 0
  <2>1. ~ (19 * d <= y)
    BY <1>1, <1>3, WordAssumption, SMT
  <2>2. ~ LayerParams(y).valid
    BY <2>1 DEF LayerParams, KMax, CalculateAnchor
  <2> QED
    BY <1>1, <1>5, <2>2, SMT DEF CheckAheadValid, CountTriangleFilteredClosedForm
<1>2. CASE b >= 0
  <2>1. 19 * d <= y
    BY <1>2, <1>3, WordAssumption, SMT
  <2>2. WrappingSub(y, 19 * d) \div 9 = b
    BY <1>2, <1>3, <2>1, NoWrap, WordAssumption, SMT
  <2>3. /\ LayerParams(y).valid <=> c <= b \div 19
        /\ LayerParams(y).tMax = WrappingSub(b \div 19, c) \div 9
    BY <2>1, <2>2 DEF LayerParams, KMax, CalculateAnchor, FirstStep, c
  <2>4. CASE c <= b \div 19
    <3>1. b \div 19 \in Nat /\ b \div 19 < Word
      BY <1>2, <1>3, WordAssumption, SMT
    <3>2. LayerParams(y).tMax = (b \div 19 - c) \div 9
      BY <1>5, <2>3, <2>4, <3>1, NoWrap, SMT
    <3>3. CountTriangleFilteredClosedForm(y) = (b \div 19 - c) \div 9 + 1
      BY <2>3, <2>4, <3>2 DEF CountTriangleFilteredClosedForm
    <3>4. (b \div 19 - c) \div 9 = (b - 19 * c) \div 171
      <4> DEFINE q == b \div 19
                 u == (q - c) \div 9
      <4>1. q \in Nat /\ 19 * q <= b /\ b < 19 * q + 19
        BY <1>2, SMT
      <4>2. q >= c
        BY <2>4
      <4> HIDE DEF q
      <4>3. u \in Nat /\ 9 * u <= q - c /\ q - c < 9 * u + 9
        BY <1>5, <4>1, <4>2, SMT
      <4> HIDE DEF u
      <4>4. 171 * u <= b - 19 * c /\ b - 19 * c < 171 * u + 171
        BY <1>5, <4>1, <4>3, SMT
      <4>5. (b - 19 * c) \div 171 = u
        BY <1>5, <4>3, <4>4, SMT
      <4> QED BY <4>5 DEF u, q
    <3>5. ((b \div 19 - c) \div 9 + 1 >= 2) <=> b >= 19 * c + 171
      BY <1>2, <1>5, <2>4, SMT
    <3> QED BY <3>3, <3>4, <3>5 DEF CheckAheadValid, CountFrom
  <2>5. CASE ~ (c <= b \div 19)
    <3>1. CountTriangleFilteredClosedForm(y) = 0
      BY <2>3, <2>5 DEF CountTriangleFilteredClosedForm
    <3>2. b < 19 * c + 171
      BY <1>2, <1>5, <2>5, SMT
    <3> QED BY <1>5, <3>1, <3>2, SMT DEF CheckAheadValid
  <2> QED BY <2>4, <2>5
<1> QED BY <1>1, <1>2, SMT

-----------------------------------------------------------------------------
(* The filter and the weights of a non-final layer. *)

\* What weight_params_ct computes, and the count of the candidate it is about,
\* in terms of one sequence: b(t) = k0 - 2*a0 + 9*t, the B that the anchor of
\* the candidate t leaves.
LEMMA WeightParamsOfValid ==
  ASSUME NEW x \in 1 .. Word - 1, LayerParams(x).valid
  PROVE  LET lp == LayerParams(x)
             w  == WeightParams(lp)
             b0 == lp.k0 - 2 * lp.a0
             c  == (b0 + 9 - DigitalRoot(2 * lp.a0)) % 9
         IN  /\ c \in 0 .. 8
             /\ w.tSkip \in Nat /\ w.tFilter \in Nat
             /\ \A t \in Nat : t >= w.tFilter <=> b0 + 9 * t >= 19 * c + 171
             /\ w.ePrime = 9 * w.tFilter + b0 + 9 * w.tSkip - 19 * c
<1> DEFINE lp == LayerParams(x)
           w  == WeightParams(lp)
           a0 == lp.a0
           k0 == lp.k0
           d2 == DigitalRoot(2 * a0)
           ts == w.tSkip
           tf == w.tFilter
           b0 == k0 - 2 * a0
           c  == (b0 + 9 - d2) % 9
           s  == IF 9 * b0 < 0 THEN (80 - 9 * b0) \div 81 ELSE 0
           bs == b0 + 9 * s
           need == 171 + 19 * c - bs
<1>1. a0 \in 1 .. 9 /\ k0 \in 0 .. 8
  BY ParamsOfValid
<1>2. DigitalRoot(a0 + 9 * k0) = a0
  <2> HIDE DEF lp, a0, k0
  <2> QED BY <1>1, ResidueIsDigitalRoot, SMT
<1>3. d2 \in 1 .. 9
  <2> HIDE DEF lp, a0, k0
  <2> QED BY <1>1, DigitalRootIsResidue, SMT
<1>4. /\ ts = TSkip(lp, a0)
      /\ tf = ts + FilterSteps(B0Val(lp, a0, ts), (B0Val(lp, a0, ts) + 9 - d2) % 9)
      /\ w.ePrime = 9 * tf + B0Val(lp, a0, ts) - 19 * ((B0Val(lp, a0, ts) + 9 - d2) % 9)
  <2> HIDE DEF lp
  <2> QED BY <1>2 DEF WeightParams
<1>5. ts = s
  <2>1. ts = IF a0 + 9 * k0 < 19 * a0 THEN (19 * a0 - (a0 + 9 * k0) + 80) \div 81 ELSE 0
    BY <1>4 DEF TSkip
  <2> HIDE DEF lp, a0, k0, ts
  <2>2. 19 * a0 - (a0 + 9 * k0) + 80 = 80 - 9 * b0 /\ (a0 + 9 * k0 < 19 * a0 <=> 9 * b0 < 0)
    BY <1>1, SMT
  <2> QED BY <2>1, <2>2
<1>6. B0Val(lp, a0, ts) = bs
  <2>1. B0Val(lp, a0, ts) = (a0 + 9 * k0 + 81 * ts - 19 * a0) \div 9
    BY DEF B0Val
  <2> HIDE DEF lp, a0, k0, ts
  <2>2. s \in Nat
    BY <1>1, SMT
  <2> HIDE DEF s
  <2> QED BY <1>1, <1>5, <2>1, <2>2, SMT
<1>7. (bs + 9 - d2) % 9 = c
  <2> HIDE DEF lp, a0, k0, ts, d2
  <2>1. s \in Nat
    BY <1>1, SMT
  <2> HIDE DEF s
  <2> QED BY <1>1, <1>3, <2>1, SMT
<1>8. /\ tf = ts + (IF need <= 0 THEN 0 ELSE (need + 8) \div 9)
      /\ w.ePrime = 9 * tf + bs - 19 * c
  <2> HIDE DEF lp, w, a0, k0, ts, tf, d2, bs, c
  <2> QED BY <1>4, <1>6, <1>7 DEF FilterSteps
<1> HIDE DEF lp, w, a0, k0, ts, tf, d2
<1>9. b0 \in -18 .. 6 /\ c \in 0 .. 8
  BY <1>1, <1>3, SMT
<1> HIDE DEF b0, c
<1>10. s \in Nat /\ bs >= 0 /\ (s # 0 => bs < 9)
  BY <1>9, SMT
<1> HIDE DEF s
<1>11. ts \in Nat /\ tf \in Nat
  BY <1>5, <1>8, <1>9, <1>10, SMT
<1>12. \A t \in Nat : t >= tf <=> b0 + 9 * t >= 19 * c + 171
  <2> TAKE t \in Nat
  <2>1. CASE need <= 0
    <3>1. s = 0
      BY <2>1, <1>9, <1>10, SMT
    <3> QED BY <2>1, <3>1, <1>5, <1>8, <1>9, SMT
  <2>2. CASE need > 0
    <3> QED BY <2>2, <1>5, <1>8, <1>9, <1>10, SMT
  <2> QED BY <2>1, <2>2, <1>9, <1>10, SMT
<1>13. w.ePrime = 9 * tf + b0 + 9 * ts - 19 * c
  BY <1>5, <1>8, <1>9, <1>10, <1>11, SMT
<1> QED BY <1>9, <1>11, <1>12, <1>13 DEF lp, w, a0, k0, ts, tf, b0, c, d2

\* The candidate t of x leaves b(t) at its own anchor, which is that of x.
LEMMA ChildOfCandidate ==
  ASSUME NEW x \in 1 .. Word - 1, LayerParams(x).valid,
         NEW t \in Nat,
         NEW y \in 1 .. Word - 1,
         y = LayerParams(x).a0 + 9 * (LayerParams(x).k0 + 9 * t)
  PROVE  LET lp == LayerParams(x)
             b0 == lp.k0 - 2 * lp.a0
             c  == (b0 + 9 - DigitalRoot(2 * lp.a0)) % 9
             b  == b0 + 9 * t
         IN  /\ CheckAheadValid(y) <=> b >= 19 * c + 171
             /\ b >= 19 * c + 171 =>
                  CountTriangleFilteredClosedForm(y) = CountFrom(b, c)
<1> DEFINE a0 == LayerParams(x).a0
           k0 == LayerParams(x).k0
           d2 == DigitalRoot(2 * a0)
           b0 == k0 - 2 * a0
           b  == b0 + 9 * t
           c  == (b0 + 9 - d2) % 9
<1>1. a0 \in 1 .. 9 /\ k0 \in 0 .. 8
  BY ParamsOfValid
<1>2. y = a0 + 9 * (k0 + 9 * t)
  OBVIOUS
<1> HIDE DEF a0, k0
<1>3. DigitalRoot(y) = a0
  BY <1>1, <1>2, ResidueIsDigitalRoot, WordAssumption, SMT
<1>4. d2 \in 1 .. 9
  BY <1>1, DigitalRootIsResidue, SMT
<1>5. y - 19 * DigitalRoot(y) = 9 * b /\ b \in Int
  BY <1>1, <1>2, <1>3, SMT
<1>6. c = (b + 9 - DigitalRoot(2 * DigitalRoot(y))) % 9
  <2>1. c = (b + 9 - d2) % 9
    <3> HIDE DEF d2
    <3> QED BY <1>1, <1>4, SMT
  <2> HIDE DEF b, c
  <2> QED BY <2>1, <1>3
<1> HIDE DEF b, c
<1>7. /\ CheckAheadValid(y) <=> b >= 19 * c + 171
      /\ b >= 19 * c + 171 =>
           CountTriangleFilteredClosedForm(y) = CountFrom(b, c)
  BY <1>5, <1>6, CheckAheadIsBound
<1> QED BY <1>7 DEF a0, k0, d2, b, c

-----------------------------------------------------------------------------
(* When there is no candidate, and when an overflow is possible. *)

\* The filter of a layer with candidates is a small constant.
LEMMA FilterIsSmall ==
  ASSUME NEW x \in 1 .. Word - 1, LayerParams(x).valid
  PROVE  WeightParams(LayerParams(x)).tFilter \in 0 .. 38
<1> DEFINE lp == LayerParams(x)
           tf == WeightParams(lp).tFilter
           b0 == lp.k0 - 2 * lp.a0
           c  == (b0 + 9 - DigitalRoot(2 * lp.a0)) % 9
<1>1. lp.a0 \in 1 .. 9 /\ lp.k0 \in 0 .. 8
  BY ParamsOfValid
<1>2. c \in 0 .. 8 /\ tf \in Nat /\ \A t \in Nat : t >= tf <=> b0 + 9 * t >= 19 * c + 171
  BY WeightParamsOfValid
<1>3. b0 \in -18 .. 6
  <2> HIDE DEF lp
  <2> QED BY <1>1, SMT
<1> HIDE DEF b0, c, tf
<1>4. b0 + 9 * 38 >= 19 * c + 171
  BY <1>2, <1>3, SMT
<1>5. 38 >= tf
  <2>1. 38 \in Nat
    BY SMT
  <2>2. 38 >= tf <=> b0 + 9 * 38 >= 19 * c + 171
    BY <1>2, <2>1, Zenon
  <2> QED BY <1>4, <2>2, Zenon
<1> QED BY <1>2, <1>5, SMT DEF tf

\* Nor can a pick at the filter overflow, even past t_max.
LEMMA FilterDoesNotOverflow ==
  ASSUME NEW x \in 1 .. Word - 1, LayerParams(x).valid
  PROVE  ~Overflows(LayerParams(x), WeightParams(LayerParams(x)).tFilter)
<1> DEFINE tf == WeightParams(LayerParams(x)).tFilter
           k0 == LayerParams(x).k0
<1>1. tf \in 0 .. 38 /\ k0 \in 0 .. 8
  BY FilterIsSmall, ParamsOfValid
<1> HIDE DEF tf, k0
<1>2. 19 * (k0 + 9 * tf) < Word
  BY <1>1, WordAssumption, SMT
<1> QED BY <1>1, <1>2, WordAssumption, SMT DEF Overflows, StepAt, tf, k0

\* A number whose layer parameters are invalid has an empty family.
LEMMA InvalidHasNoFamily ==
  ASSUME NEW x \in 1 .. Word - 1, ~LayerParams(x).valid
  PROVE  GenerateRepresentationFamily(x) = {}
<1> SUFFICES ASSUME NEW k \in 0 .. CalculatePopoviciuCardinality(x) - 1,
                    ValidateTriangleCondition(RepresentationAt(x, k).b, x)
             PROVE  FALSE
  BY DEF GenerateRepresentationFamily, GenerateRepresentationFamilyUnfiltered
<1> DEFINE a0 == DigitalRoot(x)
           b0 == (x - 19 * a0) \div 9
           d2 == DigitalRoot(2 * a0)
           k0 == (b0 + 9 - d2) % 9
           b  == (x - 19 * (a0 + 9 * k)) \div 9
<1>1. x \in Nat \ {0} /\ a0 \in 1 .. 9 /\ a0 % 9 = x % 9
  BY DigitalRootIsResidue, WordAssumption, SMT
<1>2. d2 \in 1 .. 9 /\ d2 % 9 = (2 * a0) % 9
  <2> HIDE DEF a0
  <2> QED BY <1>1, DigitalRootIsResidue, SMT
<1>3. 19 * a0 <= x /\ k \in Nat /\ 171 * k <= x - 19 * a0
  <2>1. CalculatePopoviciuCardinality(x) =
          IF x < 19 * a0 THEN 0 ELSE (x - 19 * a0) \div 171 + 1
    BY DEF CalculatePopoviciuCardinality, CalculateAnchor
  <2> HIDE DEF a0
  <2> QED BY <1>1, <2>1, SMT
<1>4. b0 \in Nat /\ 9 * b0 = x - 19 * a0 /\ b0 < Word
  <2> HIDE DEF a0
  <2> QED BY <1>1, <1>3, WordAssumption, SMT
<1>5. b = b0 - 19 * k /\ b \in Nat
  <2> HIDE DEF a0
  <2>1. b \in Int /\ b = b0 - 19 * k
    <3>1. x - 19 * (a0 + 9 * k) = 9 * (b0 - 19 * k)
      <4>1. 19 * (a0 + 9 * k) = 19 * a0 + 9 * (19 * k)
        BY <1>1, <1>3, SMT
      <4> HIDE DEF b0
      <4> QED BY <1>1, <1>3, <1>4, <4>1, SMT
    <3> HIDE DEF b0
    <3> QED BY <1>3, <1>4, <3>1, SMT
  <2> HIDE DEF b, b0
  <2> QED BY <1>3, <1>4, <2>1, SMT
<1>6. DigitalRoot(b) = d2
  BY DEF RepresentationAt, Pair, ValidateTriangleCondition, CalculateAnchor
<1>7. ~ (k0 <= b0 \div 19)
  <2>1. WrappingSub(x, 19 * a0) = x - 19 * a0
    BY <1>1, <1>3, NoWrap, WordAssumption, SMT
  <2> QED BY <1>3, <2>1 DEF LayerParams, KMax, CalculateAnchor, FirstStep
<1> HIDE DEF a0, b0, d2, b
<1>8. b # 0 /\ b % 9 = d2 % 9
  <2>1. b # 0
    BY <1>2, <1>6, SMT DEF DigitalRoot
  <2> QED BY <1>5, <1>6, <2>1, DigitalRootIsResidue, SMT
<1>9. (b0 - k - d2) % 9 = 0
  BY <1>2, <1>3, <1>4, <1>5, <1>8, SMT
<1>10. k0 <= k
  BY <1>2, <1>3, <1>4, <1>9, SMT
<1>11. k <= b0 \div 19
  BY <1>3, <1>4, <1>5, SMT
<1>12. b0 \div 19 \in Nat /\ k0 \in Nat
  BY <1>2, <1>4, SMT
<1> HIDE DEF k0
<1> QED BY <1>3, <1>7, <1>10, <1>11, <1>12, SMT

-----------------------------------------------------------------------------
(* The invariants of LayerCheck. *)


\* The walk stays in its range.
THEOREM WalkStaysInRange == WalkSpec => []InputInRange
<1>1. WalkInit => InputInRange
  BY RangeAssumption, SMT DEF WalkInit, InputInRange
<1>2. InputInRange /\ [WalkNext]_input => InputInRange'
  BY RangeAssumption, SMT DEF WalkNext, InputInRange
<1> QED BY <1>1, <1>2, PTL DEF WalkSpec

\* An input fits the word, and is positive.
LEMMA InputInWord == InputInRange => input \in 1 .. Word - 1 /\ input \in Nat \ {0}
  BY RangeAssumption, WordAssumption, SMT DEF InputInRange

\* 162 is the largest number without a positive-anchor representation.
THEOREM BoundaryCorrect == WalkSpec => []BoundaryIs162
<1>1. InputInRange => BoundaryIs162
  <2> SUFFICES ASSUME InputInRange PROVE BoundaryIs162
    OBVIOUS
  <2>1. input \in Nat \ {0} /\ DigitalRoot(input) \in 1 .. 9
    BY InputInWord, DigitalRootIsResidue
  <2>2. DigitalRoot(162) = 9
    BY SMT DEF DigitalRoot
  <2>3. DigitalRoot(input) % 9 = input % 9
    BY <2>1, DigitalRootIsResidue
  <2>4. input > 162 => input >= 19 * DigitalRoot(input)
    <3> DEFINE d == DigitalRoot(input)
    <3> HIDE DEF d
    <3> QED BY <2>1, <2>3, SMT DEF d
  <2> QED BY <2>1, <2>2, <2>4, SMT
        DEF BoundaryIs162, CalculatePopoviciuCardinality, CalculateAnchor
<1> QED BY <1>1, WalkStaysInRange, PTL

\* The filter of a weighted layer keeps exactly the candidates that leave two.
THEOREM FilterCorrect == WalkSpec => []FilterIsCheckAhead
<1>1. InputInRange => FilterIsCheckAhead
  <2> SUFFICES ASSUME InputInRange, LayerParams(input).valid,
                      NEW t \in 0 .. LayerParams(input).tMax
               PROVE  CheckAheadValid(AAt(LayerParams(input), t))
                        <=> t >= WeightParams(LayerParams(input)).tFilter
    BY DEF FilterIsCheckAhead
  <2>1. input \in 1 .. Word - 1
    BY InputInWord
  <2>2. LayerParams(input).tMax \in Nat
    BY <2>1, ParamsOfValid
  <2>3. t \in Nat
    BY <2>2, SMT
  <2>4. /\ AAt(LayerParams(input), t) \in 1 .. Word - 1
        /\ AAt(LayerParams(input), t) = LayerParams(input).a0 + 9 * (LayerParams(input).k0 + 9 * t)
    BY <2>1, CandidateIsSolution DEF StepAt
  <2> QED BY <2>1, <2>3, <2>4, ChildOfCandidate, WeightParamsOfValid
<1> QED BY <1>1, WalkStaysInRange, PTL

\* The weight of a pick counts the candidates of the pair tSkip places on.
THEOREM WeightsCorrect == WalkSpec => []WeightIsShiftedChildCount
<1>1. InputInRange => WeightIsShiftedChildCount
  <2> DEFINE lp == LayerParams(input)
             w  == WeightParams(lp)
  <2> SUFFICES ASSUME InputInRange, w.valid, NEW t \in w.tFilter .. lp.tMax,
                      AAt(lp, t) + 81 * w.tSkip < Word
               PROVE  WeightOf(w, t) =
                        CountTriangleFilteredClosedForm(AAt(lp, t) + 81 * w.tSkip)
    BY DEF WeightIsShiftedChildCount
  <2>1. input \in 1 .. Word - 1
    BY InputInWord
  <2>2. lp.valid
    BY DEF WeightParams
  <2> DEFINE a0 == lp.a0
             k0 == lp.k0
             b0 == k0 - 2 * a0
             c  == (b0 + 9 - DigitalRoot(2 * a0)) % 9
             u  == t + w.tSkip
             y  == a0 + 9 * (k0 + 9 * u)
  <2>3. /\ a0 \in 1 .. 9 /\ k0 \in 0 .. 8 /\ lp.tMax \in Nat
        /\ c \in 0 .. 8
        /\ w.tSkip \in Nat /\ w.tFilter \in Nat
        /\ \A v \in Nat : v >= w.tFilter <=> b0 + 9 * v >= 19 * c + 171
        /\ w.ePrime = 9 * w.tFilter + b0 + 9 * w.tSkip - 19 * c
    BY <2>1, <2>2, ParamsOfValid, WeightParamsOfValid
  <2>4. t \in Nat /\ t \in 0 .. lp.tMax /\ t >= w.tFilter
    <3> HIDE DEF lp, w
    <3> QED BY <2>3, SMT
  <2>5. AAt(lp, t) = a0 + 9 * (k0 + 9 * t)
    BY <2>1, <2>2, <2>4, CandidateIsSolution DEF StepAt
  <2>6. u \in Nat /\ y = AAt(lp, t) + 81 * w.tSkip /\ y \in 1 .. Word - 1
    <3> HIDE DEF lp, w, a0, k0
    <3>1. u \in Nat
      BY <2>3, <2>4, SMT
    <3>2. y = AAt(lp, t) + 81 * w.tSkip
      BY <2>3, <2>4, <2>5, SMT
    <3>3. y \in Int /\ y >= 1
      BY <2>3, <3>1, SMT
    <3> HIDE DEF y
    <3> QED BY <3>1, <3>2, <3>3, WordAssumption, SMT
  <2>7. b0 + 9 * u >= 19 * c + 171 =>
          CountTriangleFilteredClosedForm(y) = CountFrom(b0 + 9 * u, c)
    <3>1. y = LayerParams(input).a0 + 9 * (LayerParams(input).k0 + 9 * u)
      OBVIOUS
    <3>2. LayerParams(input).valid /\ u \in Nat /\ y \in 1 .. Word - 1
      BY <2>2, <2>6
    <3> HIDE DEF u, y
    <3> HIDE DEF u, y
    <3> QED BY <2>1, <3>1, <3>2, ChildOfCandidate
  <2>8. b0 + 9 * t >= 19 * c + 171
    BY <2>3, <2>4
  <2> HIDE DEF lp, w, a0, k0, c, y
  <2>9. b0 + 9 * u >= 19 * c + 171
    BY <2>3, <2>4, <2>8, SMT
  <2>10. 9 * (t - w.tFilter) + w.ePrime = (b0 + 9 * u) - 19 * c
    BY <2>3, <2>4, SMT
  <2>11. CountTriangleFilteredClosedForm(y) = CountFrom(b0 + 9 * u, c)
    BY <2>7, <2>9
  <2>12. WeightOf(w, t) = CountFrom(b0 + 9 * u, c)
    <3> HIDE DEF b0, u
    <3> QED BY <2>10 DEF WeightOf, CountFrom
  <2> QED BY <2>6, <2>11, <2>12
<1> QED BY <1>1, WalkStaysInRange, PTL

\* No pick of an N with candidates overflows, in any build.
THEOREM OverflowFree == WalkSpec => []NoOverflowOnCandidates
<1>1. InputInRange => NoOverflowOnCandidates
  <2> SUFFICES ASSUME InputInRange, LayerParams(input).valid
               PROVE  ~Overflows(LayerParams(input), LayerParams(input).tMax)
    BY DEF NoOverflowOnCandidates
  <2>1. input \in 1 .. Word - 1
    BY InputInWord
  <2>2. LayerParams(input).tMax \in Nat
    BY <2>1, ParamsOfValid
  <2>3. LayerParams(input).tMax \in 0 .. LayerParams(input).tMax
    BY <2>2, SMT
  <2> QED BY <2>1, <2>3, CandidateIsSolution
<1> QED BY <1>1, WalkStaysInRange, PTL

-----------------------------------------------------------------------------
(* The arithmetic of the clock key. *)

\* Splitting a number by a unit and the rest by a smaller unit loses nothing.
LEMMA SplitIsExact ==
  ASSUME NEW m \in Nat
  PROVE  LET c == Decompose(m)
         IN  /\ c.d * DayMs + c.h * HourMs + c.m * MinMs + c.s * SecMs + c.ms = m
             /\ c.h < 24 /\ c.m < 60 /\ c.s < 60 /\ c.ms < 1000
<1> DEFINE rem == m % DayMs
           hour == rem % HourMs
           min  == hour % MinMs
<1>1. /\ m = DayMs * (m \div DayMs) + rem /\ m \div DayMs \in Nat
      /\ rem \in Nat /\ rem < DayMs
  <2>1. \A x \in Nat : /\ x = DayMs * (x \div DayMs) + (x % DayMs)
                       /\ x \div DayMs \in Nat
                       /\ x % DayMs \in Nat /\ x % DayMs < DayMs
    BY SMT DEF DayMs, HourMs, MinMs, SecMs
  <2> QED BY <2>1, Zenon
<1>2. /\ rem = HourMs * (rem \div HourMs) + hour
      /\ rem \div HourMs \in Nat /\ rem \div HourMs < 24
      /\ hour \in Nat /\ hour < HourMs
  <2>1. \A x \in Nat : x < DayMs =>
          /\ x = HourMs * (x \div HourMs) + (x % HourMs)
          /\ x \div HourMs \in Nat /\ x \div HourMs < 24
          /\ x % HourMs \in Nat /\ x % HourMs < HourMs
    BY SMT DEF DayMs, HourMs, MinMs, SecMs
  <2> HIDE DEF rem
  <2> QED BY <1>1, <2>1, Zenon
<1>3. /\ hour = MinMs * (hour \div MinMs) + min
      /\ hour \div MinMs \in Nat /\ hour \div MinMs < 60
      /\ min \in Nat /\ min < MinMs
  <2>1. \A x \in Nat : x < HourMs =>
          /\ x = MinMs * (x \div MinMs) + (x % MinMs)
          /\ x \div MinMs \in Nat /\ x \div MinMs < 60
          /\ x % MinMs \in Nat /\ x % MinMs < MinMs
    BY SMT DEF DayMs, HourMs, MinMs, SecMs
  <2> HIDE DEF rem, hour
  <2> QED BY <1>2, <2>1, Zenon
<1>4. min = rem % MinMs
  <2>1. \A x \in Nat : (x % HourMs) % MinMs = x % MinMs
    BY SMT DEF DayMs, HourMs, MinMs, SecMs
  <2> HIDE DEF rem
  <2> QED BY <1>1, <2>1, Zenon
<1>5. /\ min = SecMs * (min \div SecMs) + (min % SecMs)
      /\ min \div SecMs \in Nat /\ min \div SecMs < 60
      /\ min % SecMs \in Nat /\ min % SecMs < SecMs
  <2>1. \A x \in Nat : x < MinMs =>
          /\ x = SecMs * (x \div SecMs) + (x % SecMs)
          /\ x \div SecMs \in Nat /\ x \div SecMs < 60
          /\ x % SecMs \in Nat /\ x % SecMs < SecMs
    BY SMT DEF DayMs, HourMs, MinMs, SecMs
  <2> HIDE DEF rem, hour, min
  <2> QED BY <1>3, <2>1, Zenon
\* The code takes the milliseconds from the number itself, not from the rest.
<1>6. min % SecMs = m % SecMs
  <2>1. \A x \in Nat : ((x % DayMs) % MinMs) % SecMs = x % SecMs
    BY SMT DEF DayMs, HourMs, MinMs, SecMs
  <2> QED BY <1>4, <2>1, Zenon
<1>7. Decompose(m) = [d |-> m \div DayMs, h |-> rem \div HourMs,
                      m |-> hour \div MinMs, s |-> min \div SecMs,
                      ms |-> m % SecMs]
  <2>1. (rem % MinMs) \div SecMs = min \div SecMs
    BY <1>4, Zenon
  <2> QED BY <2>1, Zenon DEF Decompose
<1> HIDE DEF rem, hour, min
<1> DEFINE c == Decompose(m)
<1>8. /\ c.d = m \div DayMs /\ c.h = rem \div HourMs
      /\ c.m = hour \div MinMs /\ c.s = min \div SecMs /\ c.ms = m % SecMs
  BY <1>7
<1>9. DayMs \in Nat /\ HourMs \in Nat /\ MinMs \in Nat /\ SecMs = 1000
  BY SMT DEF DayMs, HourMs, MinMs, SecMs
<1> HIDE DEF c
<1>10. /\ c.d \in Nat /\ c.h \in Nat /\ c.m \in Nat /\ c.s \in Nat /\ c.ms \in Nat
       /\ c.h < 24 /\ c.m < 60 /\ c.s < 60 /\ c.ms < SecMs
  BY <1>1, <1>2, <1>3, <1>5, <1>6, <1>8, Zenon
<1>11. c.d * DayMs + c.h * HourMs + c.m * MinMs + c.s * SecMs + c.ms = m
  <2> DEFINE d == c.d
             h == c.h
             i == c.m
             s == c.s
             u == c.ms
  <2>1. /\ m = DayMs * d + rem /\ rem = HourMs * h + hour
        /\ hour = MinMs * i + min /\ min = SecMs * s + u
    BY <1>1, <1>2, <1>3, <1>5, <1>6, <1>8, Zenon
  <2>2. d \in Nat /\ h \in Nat /\ i \in Nat /\ s \in Nat /\ u \in Nat
    BY <1>10, Zenon
  <2> HIDE DEF d, h, i, s, u
  <2>3. d * DayMs + h * HourMs + i * MinMs + s * SecMs + u = m
    BY <1>1, <1>2, <1>3, <2>1, <2>2, SMT DEF DayMs, HourMs, MinMs, SecMs
  <2> QED BY <2>3, Zenon DEF d, h, i, s, u
<1> QED BY <1>9, <1>10, <1>11, Zenon DEF c

\* The clock reading is exact, for every number.
THEOREM ClockReadingCorrect == WalkSpec => []ClockReadingIsExact
<1>1. InputInRange => ClockReadingIsExact
  <2> SUFFICES ASSUME InputInRange, NEW m \in {input, 34567 * input}
               PROVE  LET c == Decompose(m)
                      IN  /\ c.d * DayMs + c.h * HourMs + c.m * MinMs + c.s * SecMs + c.ms = m
                          /\ c.h < 24 /\ c.m < 60 /\ c.s < 60 /\ c.ms < 1000
    BY DEF ClockReadingIsExact
  <2>1. m \in Nat
    BY RangeAssumption, SMT DEF InputInRange
  <2> QED BY <2>1, SplitIsExact
<1> QED BY <1>1, WalkStaysInRange, PTL

\* From 144 on there is a point, and the largest k is the one whose B is last.
LEMMA PointRange ==
  ASSUME NEW m \in Nat, m >= 144
  PROVE  /\ ForestAnchor(m) \in Nat /\ ForestAnchor(m) < 9
         /\ ForestB0(m) \in Nat /\ m = 19 * ForestAnchor(m) + 9 * ForestB0(m)
         /\ PointCount(m) \in Nat \ {0}
         /\ \A k \in Nat : k < PointCount(m) <=> 19 * k <= ForestB0(m)
<1> DEFINE a == m % 9
           b == (m - 19 * a) \div 9
<1>1. a \in Nat /\ a < 9 /\ 19 * a <= m /\ b \in Nat /\ m = 19 * a + 9 * b
  BY SMT
<1>2. ForestAnchor(m) = a /\ ForestB0(m) = b
  BY DEF ForestAnchor, ForestB0
<1> HIDE DEF a, b
<1>3. PointCount(m) = b \div 19 + 1 /\ b \div 19 + 1 \in Nat \ {0}
  <2>1. ~(19 * a > m) /\ b \div 19 + 1 \in Nat \ {0} /\ b \div 19 + 1 # 0
    BY <1>1, SMT
  <2> QED BY <1>2, <2>1, Zenon DEF PointCount, ForestCount
<1>4. \A k \in Nat : k < b \div 19 + 1 <=> 19 * k <= b
  BY <1>1, SMT
<1> QED BY <1>1, <1>2, <1>3, <1>4, Zenon

\* The remainder by a count of points is an index of a point, and every index
\* is its own remainder.
LEMMA RemainderIsIndex ==
  \A c \in Nat \ {0} : \A h \in Nat :
    h % c \in Nat /\ h % c < c /\ (h < c => h % c = h)
<1> SUFFICES ASSUME NEW c \in Nat \ {0}, NEW h \in Nat
             PROVE  h % c \in Nat /\ h % c < c /\ (h < c => h % c = h)
  OBVIOUS
<1> QED BY SMT

\* The clock's point is always a representation of the clock's number, and
\* every representation is the point of some hash, for every drawn number.
THEOREM ClockReachesCorrect == WalkSpec => []ClockReachesForest
<1>1. InputInRange => ClockReachesForest
  <2> SUFFICES ASSUME InputInRange PROVE ClockReachesForest
    OBVIOUS
  <2> DEFINE m == ClockNumber(input)
             a == ForestAnchor(m)
             b == ForestB0(m)
             c == PointCount(m)
  <2>1. m \in Nat /\ m >= 144
    BY RangeAssumption, SMT DEF InputInRange, ClockNumber, MinNumber
  <2> HIDE DEF m
  <2>2. /\ a \in Nat /\ a < 9 /\ b \in Nat /\ m = 19 * a + 9 * b
        /\ c \in Nat \ {0} /\ \A k \in Nat : k < c <=> 19 * k <= b
    BY <2>1, PointRange
  <2>3. \A hash : ClockPoint(m, hash) = Pair(a + 9 * (hash % c), b - 19 * (hash % c))
    BY DEF ClockPoint, Representation
  <2> HIDE DEF a, b, c
  <2>4. ASSUME NEW hash \in 0 .. c
        PROVE  ClockPoint(m, hash) \in Solutions(m, 0)
    <3> DEFINE k == hash % c
    <3>1. k \in Nat /\ 19 * k <= b
      <4>1. hash \in Nat
        BY <2>2, SMT
      <4> QED BY <2>2, <4>1, RemainderIsIndex
    <3> HIDE DEF k
    <3> DEFINE x == a + 9 * k
    <3>2. /\ x \in 0 .. m \div 19 /\ (m - 19 * x) % 9 = 0
          /\ (m - 19 * x) \div 9 = b - 19 * k
      <4>1. m - 19 * x = 9 * (b - 19 * k) /\ b - 19 * k \in Nat /\ x \in Nat
        BY <2>1, <2>2, <3>1, SMT
      <4>2. \A y, z \in Nat : y = 9 * z => y % 9 = 0 /\ y \div 9 = z
        BY SMT
      <4>3. m - 19 * x \in Nat
        BY <4>1, SMT
      <4>4. x <= m \div 19
        BY <2>1, <4>1, <4>3, SMT
      <4> HIDE DEF x
      <4>5. x \in 0 .. m \div 19
        BY <2>1, <4>1, <4>4, SMT
      <4> QED BY <4>1, <4>2, <4>3, <4>5, Zenon
    <3>3. ClockPoint(m, hash) = Pair(x, (m - 19 * x) \div 9)
      BY <2>3, <3>2, Zenon DEF k
    <3> HIDE DEF x
    <3> QED BY <3>2, <3>3, Zenon DEF Solutions
  <2>5. ASSUME NEW x \in 0 .. m \div 19, (m - 19 * x) % 9 = 0
        PROVE  \E hash \in 0 .. c :
                 Pair(x, (m - 19 * x) \div 9) = ClockPoint(m, hash)
    <3> DEFINE k == (x - a) \div 9
    <3>1. x \in Nat /\ 19 * x <= m
      BY <2>1, SMT
    <3>2. x % 9 = m % 9
      BY <2>1, <2>5, <3>1, SMT
    <3>3. a = m % 9
      BY DEF a, ForestAnchor
    <3>4. k \in Nat /\ x = a + 9 * k
      BY <2>1, <3>1, <3>2, <3>3, SMT
    <3> HIDE DEF k
    <3>5. m - 19 * x = 9 * (b - 19 * k) /\ b - 19 * k \in Nat
      BY <2>1, <2>2, <3>1, <3>4, SMT
    <3>6. (m - 19 * x) \div 9 = b - 19 * k
      <4>1. \A y, z \in Nat : y = 9 * z => y \div 9 = z
        BY SMT
      <4>2. m - 19 * x \in Nat
        BY <2>1, <3>1, SMT
      <4> QED BY <3>5, <4>1, <4>2, Zenon
    <3>7. 19 * k <= b
      BY <2>2, <3>4, <3>5, SMT
    <3>8. k < c /\ k % c = k
      BY <2>2, <3>4, <3>7, RemainderIsIndex
    <3>9. k \in 0 .. c
      BY <2>2, <3>4, <3>8, SMT
    <3>10. ClockPoint(m, k) = Pair(x, (m - 19 * x) \div 9)
      BY <2>3, <3>4, <3>6, <3>8, Zenon
    <3> QED BY <3>9, <3>10, Zenon
  <2>6. {ClockPoint(m, hash) : hash \in 0 .. c} = Solutions(m, 0)
    BY <2>4, <2>5, Zenon DEF Solutions
  <2> QED BY <2>6, Zenon DEF ClockReachesForest, m, c
<1> QED BY <1>1, WalkStaysInRange, PTL

-----------------------------------------------------------------------------
(* The families. *)

\* Steps of nine from the anchor reach every solution and nothing else, whichever
\* of the two anchors is taken.
LEMMA ProgressionSolves ==
  ASSUME NEW x \in Nat, NEW lo \in {0, 1}, NEW a \in lo .. lo + 8, a % 9 = x % 9,
         NEW c \in Nat, \A k \in Nat : k < c <=> 19 * (a + 9 * k) <= x
  PROVE  {Pair(a + 9 * k, (x - 19 * (a + 9 * k)) \div 9) : k \in 0 .. c - 1} = Solutions(x, lo)
<1> DEFINE at(y) == Pair(y, (x - 19 * y) \div 9)
           left  == {at(a + 9 * k) : k \in 0 .. c - 1}
<1>1. ASSUME NEW k \in 0 .. c - 1
      PROVE  at(a + 9 * k) \in Solutions(x, lo)
  <2> DEFINE y == a + 9 * k
  <2>1. k \in Nat /\ k < c
    BY SMT
  <2>2. 19 * y <= x
    BY <2>1
  <2>3. y \in lo .. x \div 19 /\ (x - 19 * y) % 9 = 0
    <3>1. y \in Nat /\ y >= lo /\ y % 9 = x % 9
      BY <2>1, SMT
    <3> HIDE DEF y
    <3> QED BY <2>2, <3>1, SMT
  <2> HIDE DEF y
  <2>4. at(y) \in Solutions(x, lo)
    BY <2>3 DEF Solutions
  <2> QED BY <2>4 DEF y
<1>2. ASSUME NEW y \in lo .. x \div 19, (x - 19 * y) % 9 = 0
      PROVE  at(y) \in left
  <2> DEFINE k == (y - a) \div 9
  <2>1. y \in Nat /\ 19 * y <= x /\ y % 9 = x % 9
    BY <1>2, SMT
  <2>2. k \in Nat /\ y = a + 9 * k
    BY <2>1, SMT
  <2> HIDE DEF k
  <2>3. k < c
    BY <2>1, <2>2
  <2>4. k \in 0 .. c - 1
    BY <2>2, <2>3, SMT
  <2> HIDE DEF at
  <2> QED BY <2>2, <2>4
<1> HIDE DEF at
<1>3. \A p \in left : p \in Solutions(x, lo)
  BY <1>1
<1>4. \A p \in Solutions(x, lo) : p \in left
  BY <1>2 DEF Solutions, at
<1>5. left = Solutions(x, lo)
  BY <1>3, <1>4
<1> QED BY <1>5 DEF at

\* The cardinality counts the steps from the positive anchor, the forest's those
\* from the remainder.
LEMMA CountsAreExact ==
  ASSUME NEW x \in Nat \ {0}
  PROVE  /\ CalculatePopoviciuCardinality(x) \in Nat
         /\ \A k \in Nat : k < CalculatePopoviciuCardinality(x)
                             <=> 19 * (DigitalRoot(x) + 9 * k) <= x
         /\ ForestCount(x) \in Nat
         /\ \A k \in Nat : k < ForestCount(x) <=> 19 * (ForestAnchor(x) + 9 * k) <= x
         /\ ForestCount(x) = CalculatePopoviciuCardinality(x) + (IF x % 9 = 0 THEN 1 ELSE 0)
<1> DEFINE d == DigitalRoot(x)
           card == IF x < 19 * d THEN 0 ELSE (x - 19 * d) \div 171 + 1
           r == x % 9
           count == IF 19 * r > x THEN 0 ELSE ((x - 19 * r) \div 9) \div 19 + 1
<1>1. d \in 1 .. 9 /\ d % 9 = r
  BY DigitalRootIsResidue
<1>2. CalculatePopoviciuCardinality(x) = card
  BY DEF CalculatePopoviciuCardinality, CalculateAnchor
<1>3. ForestCount(x) = count
  BY DEF ForestCount, ForestB0, ForestAnchor
<1>4. r \in 0 .. 8
  BY SMT
<1>5. card \in Nat /\ \A k \in Nat : k < card <=> 19 * (d + 9 * k) <= x
  <2> HIDE DEF d
  <2>1. card \in Nat
    BY <1>1, SMT
  <2> QED BY <1>1, <2>1, SMT
<1>6. \A y \in Nat : y % 9 = 0 => /\ (y \div 9) \div 19 = y \div 171 /\ y \div 171 \in Nat
                                  /\ \A k \in Nat : k < y \div 171 + 1 <=> 171 * k <= y
  BY SMT
<1>7. 19 * r <= x => x - 19 * r \in Nat /\ (x - 19 * r) % 9 = 0
  <2>1. x % 9 = r
    OBVIOUS
  <2> HIDE DEF r
  <2> QED BY <1>4, <2>1, SMT
<1>8. count \in Nat /\ \A k \in Nat : k < count <=> 19 * (r + 9 * k) <= x
  <2>1. CASE 19 * r <= x
    <3> DEFINE y == x - 19 * r
    <3>1. y \in Nat /\ y % 9 = 0
      BY <1>7, <2>1
    <3>2. count = (y \div 9) \div 19 + 1
      <4>1. ~(19 * r > x)
        BY <1>4, <2>1, SMT
      <4> QED BY <4>1
    <3>3. \A k \in Nat : 19 * (r + 9 * k) <= x <=> 171 * k <= y
      <4> HIDE DEF r
      <4> QED BY <1>4, SMT
    <3> HIDE DEF y, r, count
    <3>4. count = y \div 171 + 1 /\ y \div 171 \in Nat
      BY <1>6, <3>1, <3>2
    <3>5. \A k \in Nat : k < y \div 171 + 1 <=> 171 * k <= y
      BY <1>6, <3>1
    <3>6. count \in Nat
      BY <3>4, SMT
    <3> QED BY <3>3, <3>4, <3>5, <3>6
  <2>2. CASE 19 * r > x
    <3>1. count = 0
      BY <2>2
    <3> HIDE DEF r, count
    <3> QED BY <1>4, <2>2, <3>1, SMT
  <2>3. 19 * r <= x \/ 19 * r > x
    BY <1>4, SMT
  <2> QED BY <2>1, <2>2, <2>3
<1>9. count = card + (IF r = 0 THEN 1 ELSE 0)
  <2>1. \A k \in Nat : k < card <=> 19 * (d + 9 * k) <= x
    BY <1>5
  <2>2. CASE r = 0
    <3>1. d = 9
      BY <1>1, <2>2, SMT
    <3>2. count \in Nat /\ card \in Nat
      BY <1>5, <1>8
    <3>3. \A k \in Nat : k < card <=> k + 1 < count
      <4>1. ASSUME NEW k \in Nat PROVE 19 * (d + 9 * k) <= x <=> 19 * (r + 9 * (k + 1)) <= x
        <5> HIDE DEF d, r
        <5> QED BY <2>2, <3>1, SMT
      <4>2. ASSUME NEW k \in Nat PROVE k + 1 < count <=> 19 * (r + 9 * (k + 1)) <= x
        <5> DEFINE l == k + 1
        <5>1. l \in Nat
          OBVIOUS
        <5> HIDE DEF l, count, r
        <5>2. l < count <=> 19 * (r + 9 * l) <= x
          BY <1>8, <5>1
        <5> QED BY <5>2 DEF l
      <4> HIDE DEF d, r, card, count
      <4> QED BY <2>1, <4>1, <4>2
    <3>4. 0 < count
      <4>1. 0 \in Nat /\ 19 * (r + 9 * 0) <= x
        <5> HIDE DEF r
        <5> QED BY <2>2, SMT
      <4> HIDE DEF count, r
      <4> QED BY <1>8, <4>1
    <3> HIDE DEF card, count
    <3>5. count = card + 1
      <4>1. card >= count - 1
        <5>1. CASE card < count - 1
          <6>1. card + 1 < count
            BY <3>2, <5>1, SMT
          <6>2. card < card
            BY <3>2, <3>3, <6>1
          <6> QED BY <3>2, <6>2, SMT
        <5> QED BY <3>2, <5>1, SMT
      <4>2. card <= count - 1
        <5>1. CASE card > count - 1
          <6> DEFINE k == count - 1
          <6>1. k \in Nat /\ k < card
            BY <3>2, <3>4, <5>1, SMT
          <6>2. k + 1 < count
            BY <3>3, <6>1
          <6> QED BY <3>2, <6>2, SMT
        <5> QED BY <3>2, <5>1, SMT
      <4> QED BY <3>2, <4>1, <4>2, SMT
    <3> QED BY <2>2, <3>5
  <2>3. CASE r # 0
    <3>1. d = r
      <4> HIDE DEF d, r
      <4> QED BY <1>1, <1>4, <2>3, SMT
    <3>2. count \in Nat /\ card \in Nat /\ \A k \in Nat : k < card <=> k < count
      <4> HIDE DEF d, r, card, count
      <4> QED BY <1>5, <1>8, <3>1
    <3> HIDE DEF card, count
    <3>3. count = card
      <4>1. ~(card < count) /\ ~(count < card)
        BY <3>2, SMT
      <4> QED BY <3>2, <4>1, SMT
    <3> QED BY <2>3, <3>2, <3>3, SMT
  <2> QED BY <2>2, <2>3
<1> HIDE DEF d, card, count, r
<1> QED BY <1>2, <1>3, <1>5, <1>8, <1>9 DEF d, r, ForestAnchor

\* The unfiltered family is the set of solutions with a positive A.
LEMMA UnfilteredIsSolutions ==
  ASSUME NEW x \in Nat \ {0}
  PROVE  GenerateRepresentationFamilyUnfiltered(x) = Solutions(x, 1)
<1> DEFINE a == DigitalRoot(x)
           c == CalculatePopoviciuCardinality(x)
<1>1. a \in 1 .. 1 + 8 /\ a % 9 = x % 9
  BY DigitalRootIsResidue, SMT
<1>2. c \in Nat /\ \A k \in Nat : k < c <=> 19 * (a + 9 * k) <= x
  BY CountsAreExact
<1>3. GenerateRepresentationFamilyUnfiltered(x)
        = {Pair(a + 9 * k, (x - 19 * (a + 9 * k)) \div 9) : k \in 0 .. c - 1}
  BY DEF GenerateRepresentationFamilyUnfiltered, RepresentationAt, CalculateAnchor
<1> DEFINE lo == 1
<1>4. lo \in {0, 1} /\ a \in lo .. lo + 8
  BY <1>1
<1> HIDE DEF a, c, lo
<1>5. {Pair(a + 9 * k, (x - 19 * (a + 9 * k)) \div 9) : k \in 0 .. c - 1} = Solutions(x, lo)
  BY <1>1, <1>2, <1>4, ProgressionSolves
<1> QED BY <1>3, <1>5 DEF lo

\* The forest is the set of solutions with any A.
LEMMA ForestIsSolutions ==
  ASSUME NEW x \in Nat \ {0} PROVE ForestAll(x, ForestCount(x)) = Solutions(x, 0)
<1> DEFINE a == ForestAnchor(x)
           c == ForestCount(x)
<1>1. a \in 0 .. 0 + 8 /\ a % 9 = x % 9
  BY SMT DEF ForestAnchor
<1>2. c \in Nat /\ \A k \in Nat : k < c <=> 19 * (a + 9 * k) <= x
  BY CountsAreExact
<1>3. (IF c < c THEN c ELSE c) = c
  OBVIOUS
<1>4. ForestAll(x, c) = {Pair(a + 9 * k, ForestB0(x) - 19 * k) : k \in 0 .. c - 1}
  BY <1>3 DEF ForestAll, ForestBranch
<1>5. ASSUME NEW k \in 0 .. c - 1
      PROVE  ForestB0(x) - 19 * k = (x - 19 * (a + 9 * k)) \div 9
  <2>1. ForestB0(x) = (x - 19 * a) \div 9
    BY DEF ForestB0
  <2> HIDE DEF a, c
  <2>2. k \in Nat /\ a \in Nat /\ x - 19 * a \in Int
    BY <1>1, <1>2, SMT
  <2>3. x - 19 * (a + 9 * k) = (x - 19 * a) - 9 * (19 * k)
    BY <2>2, SMT
  <2> DEFINE z == x - 19 * a
             l == 19 * k
  <2>4. z \in Int /\ l \in Int
    BY <2>2
  <2> HIDE DEF z, l
  <2>5. (z - 9 * l) \div 9 = z \div 9 - l
    BY <2>4, SMT
  <2> QED BY <2>1, <2>3, <2>5 DEF z, l
<1> DEFINE lo == 0
<1>6. lo \in {0, 1} /\ a \in lo .. lo + 8
  BY <1>1
<1> HIDE DEF a, c, lo
<1>7. {Pair(a + 9 * k, (x - 19 * (a + 9 * k)) \div 9) : k \in 0 .. c - 1} = Solutions(x, lo)
  BY <1>1, <1>2, <1>6, ProgressionSolves
<1>8. {Pair(a + 9 * k, ForestB0(x) - 19 * k) : k \in 0 .. c - 1}
        = {Pair(a + 9 * k, (x - 19 * (a + 9 * k)) \div 9) : k \in 0 .. c - 1}
  BY <1>5
<1> QED BY <1>4, <1>7, <1>8 DEF c, lo

\* A positive solution, in its own terms.
LEMMA SolutionIs ==
  ASSUME NEW x \in Nat \ {0}, NEW p \in Solutions(x, 1)
  PROVE  /\ p.a \in Nat \ {0} /\ p.b \in Nat /\ 19 * p.a + 9 * p.b = x
         /\ p.a % 9 = x % 9 /\ p = Pair(p.a, p.b)
<1>1. PICK y \in 1 .. x \div 19 : (x - 19 * y) % 9 = 0 /\ p = Pair(y, (x - 19 * y) \div 9)
  BY DEF Solutions
<1> DEFINE z == (x - 19 * y) \div 9
<1>2. y \in Nat \ {0} /\ z \in Nat /\ 19 * y + 9 * z = x /\ y % 9 = x % 9
  BY <1>1, SMT
<1>3. p.a = y /\ p.b = z
  BY <1>1 DEF Pair
<1> HIDE DEF z
<1> QED BY <1>1, <1>2, <1>3 DEF z

\* The two families are what their enumeration says, for every number.
THEOREM FamilyCorrect == WalkSpec => []FamilyIsExact
<1>1. InputInRange => FamilyIsExact
  <2> SUFFICES ASSUME InputInRange PROVE FamilyIsExact
    OBVIOUS
  <2>1. input \in Nat \ {0}
    BY InputInWord
  <2>2. GenerateRepresentationFamilyUnfiltered(input) = Representations(1)
    BY <2>1, UnfilteredIsSolutions DEF Representations
  <2>3. ASSUME NEW p \in Representations(1)
        PROVE  ValidateTriangleCondition(p.b, input) <=> ValidateTriangleCondition(p.b, p.a)
    <3>1. p.a \in Nat \ {0} /\ p.a % 9 = input % 9
      BY <2>1, SolutionIs DEF Representations
    <3>2. DigitalRoot(input) \in 1 .. 9 /\ DigitalRoot(input) % 9 = input % 9
      BY <2>1, DigitalRootIsResidue
    <3>3. DigitalRoot(p.a) = DigitalRoot(input)
      BY <3>1, <3>2, ResidueIsDigitalRoot
    <3> QED BY <3>3 DEF ValidateTriangleCondition
  <2>4. GenerateRepresentationFamily(input)
          = {p \in Representations(1) : ValidateTriangleCondition(p.b, p.a)}
    BY <2>2, <2>3 DEF GenerateRepresentationFamily
  <2>5. ForestAll(input, ForestCount(input)) = Representations(0)
    BY <2>1, ForestIsSolutions DEF Representations
  <2>6. ForestCount(input) = CalculatePopoviciuCardinality(input) + (IF input % 9 = 0 THEN 1 ELSE 0)
    BY <2>1, CountsAreExact
  <2> QED BY <2>2, <2>4, <2>5, <2>6 DEF FamilyIsExact
<1> QED BY <1>1, WalkStaysInRange, PTL

\* What the sampler can pick is a solution that meets the triangle condition,
\* unless its B is 0.
LEMMA CandidateInFamily ==
  ASSUME NEW x \in 1 .. Word - 1, LayerParams(x).valid,
         NEW t \in 0 .. LayerParams(x).tMax, BAt(LayerParams(x), t) # 0
  PROVE  Pair(AAt(LayerParams(x), t), BAt(LayerParams(x), t)) \in GenerateRepresentationFamily(x)
<1> DEFINE a == AAt(LayerParams(x), t)
           b == BAt(LayerParams(x), t)
<1>1. /\ a \in 1 .. Word - 1 /\ b \in Nat /\ 19 * a + 9 * b = x
      /\ b % 9 = (2 * x) % 9
  BY CandidateIsSolution
<1>2. x \in Nat \ {0}
  BY WordAssumption, SMT
<1>3. b # 0
  OBVIOUS
<1> HIDE DEF a, b
<1>4. a \in 1 .. x \div 19 /\ (x - 19 * a) % 9 = 0 /\ (x - 19 * a) \div 9 = b
  <2>1. a \in Nat /\ a >= 1
    BY <1>1, WordAssumption, SMT
  <2>2. x - 19 * a = 9 * b
    BY <1>1, <1>2, <2>1, SMT
  <2>3. a <= x \div 19
    BY <1>1, <1>2, <2>1, SMT
  <2>4. (9 * b) % 9 = 0 /\ (9 * b) \div 9 = b
    BY <1>1, SMT
  <2>5. a \in 1 .. x \div 19
    BY <1>2, <2>1, <2>3, SMT
  <2> QED BY <2>2, <2>4, <2>5
<1>5. Pair(a, b) \in Solutions(x, 1)
  BY <1>4 DEF Solutions
<1>6. ValidateTriangleCondition(b, x)
  BY <1>1, <1>2, <1>3, TriangleIsCongruence
<1>7. Pair(a, b).b = b
  BY DEF Pair
<1>8. Pair(a, b) \in GenerateRepresentationFamily(x)
  BY <1>2, <1>5, <1>6, <1>7, UnfilteredIsSolutions DEF GenerateRepresentationFamily
<1> QED BY <1>8 DEF a, b

\* And every member of the family can be picked, and has a B that is not 0.
LEMMA FamilyIsCandidate ==
  ASSUME NEW x \in 1 .. Word - 1, LayerParams(x).valid,
         NEW p \in GenerateRepresentationFamily(x)
  PROVE  /\ p.b # 0
         /\ \E t \in 0 .. LayerParams(x).tMax :
              p = Pair(AAt(LayerParams(x), t), BAt(LayerParams(x), t))
<1> DEFINE lp == LayerParams(x)
           a0 == lp.a0
           b0 == lp.b0
           k0 == lp.k0
           tMax == lp.tMax
           a  == p.a
           b  == p.b
           k  == (a - a0) \div 9
           t  == (k - k0) \div 9
<1>1. /\ a0 \in 1 .. 9 /\ a0 = DigitalRoot(x)
      /\ b0 \in Nat /\ 9 * b0 = x - 19 * a0
      /\ k0 \in 0 .. 8 /\ (b0 - k0 - 2 * x) % 9 = 0
      /\ tMax \in Nat /\ b0 < 19 * (k0 + 9 * tMax + 9)
  BY ParamsOfValid
<1>2. x \in Nat \ {0}
  BY WordAssumption, SMT
<1>3. /\ a \in Nat \ {0} /\ b \in Nat /\ 19 * a + 9 * b = x
      /\ a % 9 = x % 9 /\ p = Pair(a, b)
  BY <1>2, UnfilteredIsSolutions, SolutionIs DEF GenerateRepresentationFamily
<1>4. ValidateTriangleCondition(b, x)
  BY DEF GenerateRepresentationFamily
<1>5. a0 % 9 = x % 9
  BY <1>1, <1>2, DigitalRootIsResidue
<1> HIDE DEF a0, b0, k0, tMax, a, b
<1>6. b # 0
  <2>1. DigitalRoot(x) \in 1 .. 9
    BY <1>2, DigitalRootIsResidue
  <2> DEFINE d == 2 * DigitalRoot(x)
  <2>2. d \in Nat \ {0}
    BY <2>1, SMT
  <2> HIDE DEF d
  <2>3. DigitalRoot(d) # 0
    BY <2>2, DigitalRootIsResidue, SMT
  <2>4. DigitalRoot(0) = 0
    BY DEF DigitalRoot
  <2> QED BY <1>4, <2>3, <2>4 DEF ValidateTriangleCondition, d
<1>7. b % 9 = (2 * x) % 9
  BY <1>2, <1>3, <1>4, <1>6, TriangleIsCongruence
<1>8. k \in Nat /\ a = a0 + 9 * k
  BY <1>1, <1>3, <1>5, SMT
<1> HIDE DEF k
<1>9. b = b0 - 19 * k
  BY <1>1, <1>2, <1>3, <1>8, SMT
<1>10. (k - k0) % 9 = 0
  BY <1>1, <1>2, <1>7, <1>8, <1>9, <1>3, SMT
<1>11. t \in Nat /\ k = k0 + 9 * t
  BY <1>1, <1>8, <1>10, SMT
<1> HIDE DEF t
<1>12. t <= tMax
  BY <1>1, <1>3, <1>8, <1>9, <1>11, SMT
<1>13. t \in 0 .. tMax
  BY <1>1, <1>11, <1>12, SMT
<1>14. AAt(lp, t) = a /\ BAt(lp, t) = b
  <2>1. StepAt(lp, t) = k
    BY <1>11 DEF StepAt, k0
  <2>2. AAt(lp, t) = lp.a0 + 9 * StepAt(lp, t) /\ BAt(lp, t) = lp.b0 - 19 * StepAt(lp, t)
    BY <1>13, CandidateIsSolution DEF tMax
  <2> QED BY <1>8, <1>9, <2>1, <2>2 DEF a0, b0
<1>15. p = Pair(AAt(lp, t), BAt(lp, t))
  BY <1>3, <1>14
<1> QED BY <1>6, <1>13, <1>15 DEF tMax, b

\* The sampler's progression is the filtered family, for every number.
THEOREM ProgressionCorrect == WalkSpec => []ProgressionIsFamily
<1>1. InputInRange => ProgressionIsFamily
  <2> SUFFICES ASSUME InputInRange PROVE ProgressionIsFamily
    OBVIOUS
  <2> DEFINE lp == LayerParams(input)
             fam == GenerateRepresentationFamily(input)
  <2>1. input \in 1 .. Word - 1
    BY InputInWord
  <2>2. CASE ~lp.valid
    <3>1. Candidates = {}
      BY <2>2 DEF Candidates
    <3> QED BY <2>1, <2>2, <3>1, InvalidHasNoFamily DEF ProgressionIsFamily
  <2>3. CASE lp.valid
    <3>1. ASSUME NEW p \in Candidates, p.b # 0 PROVE p \in fam
      <4>1. PICK t \in 0 .. lp.tMax : p = Pair(AAt(lp, t), BAt(lp, t))
        BY DEF Candidates
      <4>2. p.b = BAt(lp, t)
        BY <4>1 DEF Pair
      <4> QED BY <2>1, <2>3, <3>1, <4>1, <4>2, CandidateInFamily
    <3>2. ASSUME NEW p \in fam PROVE p \in Candidates /\ p.b # 0
      <4>1. PICK t \in 0 .. lp.tMax : p = Pair(AAt(lp, t), BAt(lp, t))
        BY <2>1, <2>3, FamilyIsCandidate
      <4>2. p.b # 0
        BY <2>1, <2>3, FamilyIsCandidate
      <4>3. t \in {u \in 0 .. lp.tMax : lp.valid}
        BY <2>3
      <4> HIDE DEF lp
      <4>4. p \in {Pair(AAt(lp, u), BAt(lp, u)) : u \in {v \in 0 .. lp.tMax : lp.valid}}
        BY <4>1, <4>3
      <4> QED BY <4>2, <4>4 DEF Candidates, lp
    <3> HIDE DEF fam
    <3>3. {p \in Candidates : p.b # 0} = fam
      BY <3>1, <3>2
    <3> QED BY <3>3 DEF ProgressionIsFamily, fam
  <2> QED BY <2>2, <2>3
<1> QED BY <1>1, WalkStaysInRange, PTL
=============================================================================
