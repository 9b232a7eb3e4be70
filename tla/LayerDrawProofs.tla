-------------------------- MODULE LayerDrawProofs --------------------------
(***************************************************************************)
(* What the three loops of a weighted draw compute: floor_sum_ct adds up   *)
(* the sum of floors it is documented to compute, by induction over its    *)
(* terms; a drawn number is uniform below its bound; the search ends on    *)
(* the candidate whose slice of the total weight was drawn; and the three  *)
(* together pick a candidate with a probability proportional to its        *)
(* weight, for every word size and every layer.                            *)
(***************************************************************************)
EXTENDS LayerDraw, FiniteSetTheorems, FunctionTheorems, WellFoundedInduction, TLAPS

-----------------------------------------------------------------------------
(* Natural numbers. *)

\* A set of numbers that has one has a least one.
LEMMA Least ==
  ASSUME NEW N \in SUBSET Nat, N # {}
  PROVE  \E k \in N : \A i \in N : k <= i
<1> DEFINE R == OpToRel(<, Nat)
<1>1. R = {p \in Nat \X Nat : p[1] < p[2]}
  BY DEF OpToRel
<1>2. IsWellFoundedOn(R, Nat)
  BY NatLessThanWellFounded
<1> HIDE DEF R
<1>3. PICK k \in N : \A i \in N : <<i, k>> \notin R
  BY <1>2, WFMin
<1>4. \A i \in N : ~(i < k)
  BY <1>1, <1>3
<1> QED
  BY <1>4, SMT

\* Induction: a set of numbers that has 0, and with a number the next, has all.
LEMMA Induction ==
  ASSUME NEW N \in SUBSET Nat, 0 \in N, \A i \in N : i + 1 \in N
  PROVE  \A i \in Nat : i \in N
<1> SUFFICES ASSUME Nat \ N # {} PROVE FALSE
  OBVIOUS
<1>1. PICK k \in Nat \ N : \A i \in Nat \ N : k <= i
  BY Least
<1>2. k # 0 /\ k - 1 \in Nat /\ (k - 1) + 1 = k
  BY <1>1, SMT
<1>3. k - 1 \in N
  BY <1>1, <1>2, SMT
<1> QED
  BY <1>1, <1>2, <1>3

\* Division with remainder by a number that is not a literal.
LEMMA Divided ==
  \A x \in Int, s \in Nat \ {0} :
    x \div s \in Int /\ x % s \in 0 .. s - 1 /\ x = s * (x \div s) + (x % s)
  BY SMT

\* A number below the divisor is the remainder of its own quotient.
LEMMA DivUnique ==
  \A q \in Int, v \in Nat, s \in Nat \ {0} : v < s => (s * q + v) \div s = q
  BY SMT

\* Whole multiples of the divisor come out of a quotient.
LEMMA DivShift ==
  ASSUME NEW s \in Nat \ {0}, NEW q \in Int, NEW x \in Int
  PROVE  (s * q + x) \div s = q + x \div s
<1> DEFINE p == x \div s
           v == x % s
<1>1. p \in Int /\ v \in 0 .. s - 1 /\ x = s * p + v
  BY Divided
<1> HIDE DEF p, v
<1>2. s * q + x = s * (q + p) + v
  BY <1>1, SMT
<1>3. q + p \in Int /\ v \in Nat /\ v < s
  BY <1>1, SMT
<1>4. (s * (q + p) + v) \div s = q + p
  BY <1>3, DivUnique
<1> QED
  BY <1>2, <1>4 DEF p

\* ... and its remainder.
LEMMA ModUnique ==
  \A q \in Int, v \in Nat, s \in Nat \ {0} : v < s => (s * q + v) % s = v
  BY SMT

\* An integer between the two is the quotient.
LEMMA DivBetween ==
  ASSUME NEW s \in Nat \ {0}, NEW q \in Int, NEW x \in Int, s * q <= x, x < s * (q + 1)
  PROVE  x \div s = q
<1> DEFINE v == x - s * q
<1>1. v \in Nat /\ v < s /\ x = s * q + v
  BY SMT
<1> HIDE DEF v
<1> QED
  BY <1>1, DivUnique

\* What division gives.
LEMMA DivMod ==
  ASSUME NEW x \in Nat, NEW s \in Nat \ {0}
  PROVE  /\ x \div s \in Nat /\ x % s \in Nat /\ x % s < s /\ x % s \in 0 .. s - 1
         /\ x = s * (x \div s) + (x % s)
         /\ s * (x \div s) <= x /\ x < s * (x \div s + 1)
<1> DEFINE q == x \div s
           v == x % s
<1>1. q \in Nat /\ v \in Nat /\ v < s /\ x = s * q + v
  BY Divided, SMT
<1> HIDE DEF q, v
<1>2. s * q <= x /\ x < s * (q + 1) /\ v \in 0 .. s - 1
  BY <1>1, SMT
<1> QED
  BY <1>1, <1>2 DEF q, v

-----------------------------------------------------------------------------
(* Sums of floors. *)

\* The running sum of a sequence of numbers, and how far it is one.
IsSum(P, h, k) == P[0] = 0 /\ \A i \in 0 .. k - 1 : P[i + 1] = P[i] + h[i]

\* Every sequence of numbers has running sums ...
LEMMA SumExists ==
  ASSUME NEW h \in [Nat -> Int]
  PROVE  \A k \in Nat : \E P \in [0 .. k -> Int] : IsSum(P, h, k)
<1> DEFINE N == {k \in Nat : \E P \in [0 .. k -> Int] : IsSum(P, h, k)}
<1>1. 0 \in N
  <2> DEFINE P == [i \in 0 .. 0 |-> 0]
  <2>1. P \in [0 .. 0 -> Int] /\ IsSum(P, h, 0)
    BY SMT DEF IsSum
  <2> HIDE DEF P
  <2>2. \E Q \in [0 .. 0 -> Int] : IsSum(Q, h, 0)
    BY <2>1
  <2> QED
    BY <2>2
<1>2. ASSUME NEW k \in N PROVE k + 1 \in N
  <2>1. PICK P \in [0 .. k -> Int] : IsSum(P, h, k)
    OBVIOUS
  <2> DEFINE Q == [i \in 0 .. k + 1 |-> IF i = k + 1 THEN P[k] + h[k] ELSE P[i]]
  <2>2. k \in Nat /\ P[k] \in Int /\ h[k] \in Int
    BY SMT
  <2>3. Q \in [0 .. k + 1 -> Int]
    BY <2>2, SMT
  <2>4. Q[0] = 0
    BY <2>1, <2>2, SMT DEF IsSum
  <2>5. \A i \in 0 .. (k + 1) - 1 : Q[i + 1] = Q[i] + h[i]
    <3> TAKE i \in 0 .. (k + 1) - 1
    <3>1. CASE i = k
      BY <2>2, <3>1, SMT
    <3>2. CASE i # k
      <4>1. i \in 0 .. k - 1 /\ i \in 0 .. k + 1 /\ i + 1 \in 0 .. k + 1 /\ i # k + 1 /\ i + 1 # k + 1
        BY <2>2, <3>2, SMT
      <4> QED
        BY <2>1, <4>1 DEF IsSum
    <3> QED
      BY <3>1, <3>2
  <2> HIDE DEF Q
  <2>6. IsSum(Q, h, k + 1)
    BY <2>4, <2>5 DEF IsSum
  <2>7. \E R \in [0 .. k + 1 -> Int] : IsSum(R, h, k + 1)
    BY <2>3, <2>6
  <2> QED
    BY <2>2, <2>7, SMT
<1> HIDE DEF N
<1>3. N \in SUBSET Nat
  BY DEF N
<1>4. \A k \in Nat : k \in N
  BY <1>1, <1>2, <1>3, Induction
<1> QED
  BY <1>4 DEF N

\* ... and they agree as far as they go.
LEMMA SumUnique ==
  ASSUME NEW h, NEW k \in Nat, NEW P, NEW Q, IsSum(P, h, k), IsSum(Q, h, k)
  PROVE  \A i \in 0 .. k : P[i] = Q[i]
<1> DEFINE N == {i \in Nat : i <= k => P[i] = Q[i]}
<1>1. 0 \in N
  BY DEF IsSum
<1>2. ASSUME NEW i \in N PROVE i + 1 \in N
  <2>1. CASE i + 1 <= k
    <3>1. i \in 0 .. k - 1 /\ i <= k
      BY <2>1, SMT
    <3> QED
      BY <3>1 DEF IsSum
  <2>2. CASE ~(i + 1 <= k)
    BY <2>2
  <2> QED
    BY <2>1, <2>2
<1> HIDE DEF N
<1>3. N \in SUBSET Nat
  BY DEF N
<1>4. \A i \in Nat : i \in N
  BY <1>1, <1>2, <1>3, Induction
<1> QED
  BY <1>4, SMT DEF N

Floors(mod, slope, base) == [i \in Nat |-> (slope * i + base) \div mod]

LEMMA FloorsType ==
  ASSUME NEW mod \in Nat \ {0}, NEW slope \in Nat, NEW base \in Nat
  PROVE  /\ Floors(mod, slope, base) \in [Nat -> Int]
         /\ \A i \in Nat : /\ Floors(mod, slope, base)[i] = (slope * i + base) \div mod
                          /\ (slope * i + base) \div mod \in Nat
<1>1. ASSUME NEW i \in Nat PROVE (slope * i + base) \div mod \in Nat
  <2> DEFINE x == slope * i + base
  <2>1. x \in Nat
    BY SMT
  <2> HIDE DEF x
  <2>2. x \div mod \in Nat
    BY <2>1, SMT
  <2> QED
    BY <2>2 DEF x
<1> QED
  BY <1>1 DEF Floors

\* SumOfFloors is the last of the running sums of the floors.
LEMMA SumIsLast ==
  ASSUME NEW len \in Nat, NEW mod \in Nat \ {0}, NEW slope \in Nat, NEW base \in Nat,
         NEW P, IsSum(P, Floors(mod, slope, base), len)
  PROVE  SumOfFloors(len, mod, slope, base) = P[len]
<1> DEFINE h == Floors(mod, slope, base)
           Body(s) == [i \in 0 .. len |-> IF i = 0 THEN 0 ELSE s[i - 1] + (slope * (i - 1) + base) \div mod]
           sum == CHOOSE s : s = Body(s)
<1>1. \A i \in Nat : h[i] = (slope * i + base) \div mod
  BY FloorsType
<1>2. \E s : s = Body(s)
  <2> DEFINE s == [i \in 0 .. len |-> P[i]]
  <2>1. ASSUME NEW i \in 0 .. len
        PROVE  s[i] = IF i = 0 THEN 0 ELSE s[i - 1] + (slope * (i - 1) + base) \div mod
    <3>1. CASE i = 0
      BY <3>1 DEF IsSum
    <3>2. CASE i # 0
      <4>1. i - 1 \in 0 .. len - 1 /\ i - 1 \in 0 .. len /\ (i - 1) + 1 = i /\ i - 1 \in Nat
        BY <3>2, SMT
      <4>2. P[i] = P[i - 1] + h[i - 1]
        BY <4>1 DEF IsSum
      <4> HIDE DEF h
      <4> QED
        BY <1>1, <3>2, <4>1, <4>2
    <3> QED
      BY <3>1, <3>2
  <2>2. s = Body(s)
    BY <2>1
  <2> HIDE DEF s
  <2> QED
    BY <2>2
<1>3. sum = Body(sum)
  <2> HIDE DEF Body
  <2> QED
    BY <1>2, Zenon
<1>4. SumOfFloors(len, mod, slope, base) = sum[len]
  BY Zenon DEF SumOfFloors
<1> HIDE DEF sum
<1>5. ASSUME NEW i \in 0 .. len
      PROVE  sum[i] = IF i = 0 THEN 0 ELSE sum[i - 1] + (slope * (i - 1) + base) \div mod
  BY <1>3
<1>6. IsSum(sum, h, len)
  <2>1. sum[0] = 0
    BY <1>5, SMT
  <2>2. ASSUME NEW i \in 0 .. len - 1 PROVE sum[i + 1] = sum[i] + h[i]
    <3>1. i + 1 \in 0 .. len /\ i + 1 # 0 /\ (i + 1) - 1 = i /\ i \in Nat
      BY SMT
    <3>2. sum[i + 1] = sum[i] + (slope * i + base) \div mod
      BY <1>5, <3>1
    <3> HIDE DEF h
    <3> QED
      BY <1>1, <3>1, <3>2
  <2> QED
    BY <2>1, <2>2 DEF IsSum
<1>7. len \in 0 .. len
  BY SMT
<1> HIDE DEF h
<1>8. IsSum(P, h, len)
  BY DEF h
<1>9. sum[len] = P[len]
  BY <1>6, <1>7, <1>8, SumUnique
<1> QED
  BY <1>4, <1>9

\* The sum of floors, term by term.
LEMMA SumSteps ==
  ASSUME NEW mod \in Nat \ {0}, NEW slope \in Nat, NEW base \in Nat
  PROVE  /\ SumOfFloors(0, mod, slope, base) = 0
         /\ \A len \in Nat :
              SumOfFloors(len + 1, mod, slope, base)
                = SumOfFloors(len, mod, slope, base) + (slope * len + base) \div mod
         /\ \A len \in Nat : SumOfFloors(len, mod, slope, base) \in Nat
<1> DEFINE h == Floors(mod, slope, base)
           s(len) == SumOfFloors(len, mod, slope, base)
<1>1. \A i \in Nat : h[i] = (slope * i + base) \div mod /\ h[i] \in Nat
  BY FloorsType
<1>2. ASSUME NEW len \in Nat PROVE s(len + 1) = s(len) + h[len]
  <2>1. len + 1 \in Nat /\ h \in [Nat -> Int]
    BY FloorsType, SMT
  <2>2. PICK P \in [0 .. len + 1 -> Int] : IsSum(P, h, len + 1)
    BY <2>1, SumExists
  <2>3. IsSum(P, h, len)
    <3>1. \A i \in 0 .. len - 1 : i \in 0 .. (len + 1) - 1
      BY SMT
    <3> QED
      BY <2>2, <3>1 DEF IsSum
  <2>4. s(len + 1) = P[len + 1] /\ s(len) = P[len]
    BY <2>1, <2>2, <2>3, SumIsLast
  <2>5. len \in 0 .. (len + 1) - 1
    BY SMT
  <2> QED
    BY <2>2, <2>4, <2>5 DEF IsSum
<1>3. s(0) = 0
  <2>1. h \in [Nat -> Int]
    BY FloorsType
  <2>2. PICK P \in [0 .. 0 -> Int] : IsSum(P, h, 0)
    BY <2>1, SumExists
  <2>3. 0 \in Nat
    BY SMT
  <2>4. SumOfFloors(0, mod, slope, base) = P[0]
    BY <2>2, <2>3, SumIsLast
  <2> QED
    BY <2>2, <2>4 DEF IsSum
<1>4. \A len \in Nat : s(len) \in Nat
  <2> DEFINE N == {len \in Nat : s(len) \in Nat}
  <2>1. 0 \in N
    BY <1>3
  <2>2. ASSUME NEW len \in N PROVE len + 1 \in N
    <3>1. s(len + 1) = s(len) + h[len] /\ h[len] \in Nat
      BY <1>1, <1>2
    <3> QED
      BY <3>1
  <2> HIDE DEF N
  <2>3. N \in SUBSET Nat
    BY DEF N
  <2>4. \A len \in Nat : len \in N
    BY <2>1, <2>2, <2>3, Induction
  <2> QED
    BY <2>4 DEF N
<1> HIDE DEF s
<1>5. \A len \in Nat : s(len + 1) = s(len) + (slope * len + base) \div mod
  BY <1>1, <1>2
<1> QED
  BY <1>3, <1>4, <1>5 DEF s

\* The number of pairs below n, as the code has it.
Triangle(len) == ((len - 1) * len) \div 2

LEMMA TriangleSteps ==
  Triangle(0) = 0 /\ \A len \in Nat : Triangle(len) \in Nat /\ Triangle(len + 1) = Triangle(len) + len
<1>1. Triangle(0) = 0
  BY SMT DEF Triangle
<1>2. ASSUME NEW len \in Nat PROVE Triangle(len + 1) = Triangle(len) + len
  <2> DEFINE x == (len - 1) * len
  <2>1. ((len + 1) - 1) * (len + 1) = 2 * len + x
    BY SMT
  <2>2. x \in Int
    BY SMT
  <2> HIDE DEF x
  <2>3. (2 * len + x) \div 2 = len + x \div 2
    BY <2>2, SMT
  <2>4. x \div 2 \in Int
    BY <2>2, SMT
  <2> QED
    BY <2>1, <2>3, <2>4, SMT DEF Triangle, x
<1>3. \A len \in Nat : Triangle(len) \in Nat
  <2> DEFINE N == {len \in Nat : Triangle(len) \in Nat}
  <2>1. 0 \in N
    BY <1>1
  <2>2. \A len \in N : len + 1 \in N
    BY <1>2
  <2> HIDE DEF N
  <2>3. N \in SUBSET Nat
    BY DEF N
  <2>4. \A len \in Nat : len \in N
    BY <2>1, <2>2, <2>3, Induction
  <2> QED
    BY <2>4 DEF N
<1> QED
  BY <1>1, <1>2, <1>3

\* The whole multiples of the divisor come out of a sum in closed form.
PeeledSum(len, mod, slope, base) ==
  SumOfFloors(len, mod, slope, base) =
    Triangle(len) * (slope \div mod) + len * (base \div mod)
      + SumOfFloors(len, mod, slope % mod, base % mod)

LEMMA Peeled ==
  ASSUME NEW len \in Nat, NEW mod \in Nat \ {0}, NEW slope \in Nat, NEW base \in Nat
  PROVE  PeeledSum(len, mod, slope, base)
<1> DEFINE qa == slope \div mod
           qb == base \div mod
           ra == slope % mod
           rb == base % mod
<1>1. /\ qa \in Nat /\ qb \in Nat /\ ra \in Nat /\ rb \in Nat
      /\ slope = mod * qa + ra /\ base = mod * qb + rb
  <2>1. slope \div mod >= 0 /\ base \div mod >= 0
    BY SMT
  <2> QED
    BY <2>1, Divided, SMT
<1> HIDE DEF qa, qb, ra, rb
<1> DEFINE s(k) == SumOfFloors(k, mod, slope, base)
           t(k) == SumOfFloors(k, mod, ra, rb)
           N == {k \in Nat : s(k) = Triangle(k) * qa + k * qb + t(k)}
<1>2. s(0) = 0 /\ t(0) = 0
  BY <1>1, SumSteps
<1>3. ASSUME NEW k \in Nat
      PROVE  /\ s(k + 1) = s(k) + (slope * k + base) \div mod
             /\ t(k + 1) = t(k) + (ra * k + rb) \div mod
             /\ s(k) \in Nat /\ t(k) \in Nat
  <2>1. s(k + 1) = s(k) + (slope * k + base) \div mod /\ s(k) \in Nat
    BY SumSteps
  <2>2. t(k + 1) = t(k) + (ra * k + rb) \div mod /\ t(k) \in Nat
    BY <1>1, SumSteps
  <2> QED
    BY <2>1, <2>2
<1> HIDE DEF s, t
<1>4. 0 \in N
  <2>1. Triangle(0) * qa + 0 * qb + t(0) = 0
    BY <1>1, <1>2, TriangleSteps, SMT
  <2> QED
    BY <1>2, <2>1
<1>5. ASSUME NEW k \in N PROVE k + 1 \in N
  <2> DEFINE x == ra * k + rb
             u == x \div mod
             T == Triangle(k)
  <2>1. x \in Nat /\ k \in Nat
    BY <1>1, SMT
  <2>2. slope * k + base = mod * (k * qa + qb) + x
    <3>1. (mod * qa + ra) * k + (mod * qb + rb) = mod * (k * qa + qb) + (ra * k + rb)
      BY <1>1, <2>1, SMT
    <3> QED
      BY <1>1, <3>1
  <2>3. k * qa + qb \in Int
    BY <1>1, <2>1, SMT
  <2>4. (slope * k + base) \div mod = (k * qa + qb) + u
    <3> HIDE DEF x
    <3> QED
      BY <2>1, <2>2, <2>3, DivShift
  <2>5. u \in Int
    <3> HIDE DEF x
    <3> QED
      BY <2>1, Divided
  <2>6. T \in Nat /\ Triangle(k + 1) = T + k
    BY <2>1, TriangleSteps
  <2>7. s(k) = T * qa + k * qb + t(k)
    OBVIOUS
  <2>8. s(k + 1) = s(k) + ((k * qa + qb) + u) /\ t(k + 1) = t(k) + u /\ s(k) \in Nat /\ t(k) \in Nat
    BY <1>3, <2>1, <2>4
  <2> HIDE DEF u, T
  <2>9. s(k + 1) = (T + k) * qa + (k + 1) * qb + t(k + 1)
    BY <1>1, <2>1, <2>5, <2>6, <2>7, <2>8, SMT
  <2> QED
    BY <2>1, <2>6, <2>9
<1> HIDE DEF N
<1>6. N \in SUBSET Nat
  BY DEF N
<1>7. \A k \in Nat : k \in N
  BY <1>4, <1>5, <1>6, Induction
<1> QED
  BY <1>7 DEF PeeledSum, N, s, t, qa, qb, ra, rb

\* The swap: the points below a line, counted along the other axis.  The number of
\* rows and what the line leaves above the last of them are those of its height.
SwappedSum(len, mod, slope, base) ==
  SumOfFloors(len, mod, slope, base) =
    SumOfFloors((slope * len + base) \div mod, slope, mod, (slope * len + base) % mod)

LEMMA Swapped ==
  ASSUME NEW len \in Nat, NEW mod \in Nat \ {0}, NEW slope \in Nat \ {0}, NEW base \in Nat,
         slope < mod, base < mod
  PROVE  SwappedSum(len, mod, slope, base)
<1> DEFINE y(i) == slope * i + base
           K(i) == y(i) \div mod
           below == [j \in Nat |-> (base - mod * (j + 1)) \div slope]
           s(i) == SumOfFloors(i, mod, slope, base)
           rows == K(len)
           rest == y(len) % mod
           t(j) == SumOfFloors(j, slope, mod, rest)
<1>0. \A i \in Nat : y(i) \in Nat
  BY SMT
<1>1. y(len) \in Nat /\ rows \in Nat /\ rest \in Nat /\ y(len) = mod * rows + rest
  <2>1. y(len) \in Nat
    BY <1>0
  <2> HIDE DEF y
  <2> QED
    BY <2>1, DivMod
<1>2. ASSUME NEW i \in Nat
      PROVE  K(i) \in Nat /\ mod * K(i) <= y(i) /\ y(i) < mod * (K(i) + 1) /\ y(i) \in Nat
  <2>1. y(i) \in Nat
    BY <1>0
  <2> HIDE DEF y
  <2> QED
    BY <2>1, DivMod
<1>3. below \in [Nat -> Int]
  <2> SUFFICES ASSUME NEW j \in Nat PROVE (base - mod * (j + 1)) \div slope \in Int
    OBVIOUS
  <2>1. base - mod * (j + 1) \in Int
    BY SMT
  <2> QED
    BY <2>1, Divided
<1>4. PICK Q \in [0 .. rows -> Int] : IsSum(Q, below, rows)
  BY <1>1, <1>3, SumExists
<1>5. /\ Q[0] = 0
      /\ \A j \in 0 .. rows - 1 : Q[j + 1] = Q[j] + (base - mod * (j + 1)) \div slope
  <2>1. Q[0] = 0 /\ \A j \in 0 .. rows - 1 : Q[j + 1] = Q[j] + below[j]
    BY <1>4 DEF IsSum
  <2>2. \A j \in 0 .. rows - 1 : j \in Nat
    <3> HIDE DEF rows
    <3> QED
      BY <1>1, SMT
  <2> HIDE DEF rows
  <2> QED
    BY <2>1, <2>2
<1>6. s(0) = 0
  BY SumSteps
<1>7. ASSUME NEW i \in Nat PROVE s(i + 1) = s(i) + K(i) /\ s(i) \in Nat
  BY SumSteps
<1>8. t(0) = 0
  BY <1>1, SumSteps
<1>9. ASSUME NEW j \in Nat PROVE t(j + 1) = t(j) + (mod * j + rest) \div slope /\ t(j) \in Nat
  BY <1>1, SumSteps
<1> DEFINE G(k) == (base - mod * (k + 1)) \div slope
<1>17. rows = K(len) /\ y(len) = slope * len + base
  OBVIOUS
<1>18. \A j \in 0 .. rows : Q[j] \in Int
  OBVIOUS
<1> HIDE DEF below, rest, s, t, y, K, rows, G
<1>10. y(0) = base /\ \A i \in Nat : y(i + 1) = y(i) + slope
  BY SMT DEF y
<1>11. K(0) = 0
  <2>1. mod * K(0) <= base /\ K(0) \in Nat
    BY <1>2, <1>10
  <2> QED
    BY <2>1, SMT
\* Column by column: a column that is one higher begins a row.
<1>12. ASSUME NEW i \in Nat
       PROVE  K(i + 1) = K(i) \/ K(i + 1) = K(i) + 1
  <2>1. /\ K(i) \in Nat /\ mod * K(i) <= y(i) /\ y(i) < mod * (K(i) + 1) /\ y(i) \in Nat
        /\ K(i + 1) \in Nat /\ mod * K(i + 1) <= y(i) + slope /\ y(i) + slope < mod * (K(i + 1) + 1)
    <3>1. i + 1 \in Nat /\ y(i + 1) = y(i) + slope
      BY <1>10, SMT
    <3> QED
      BY <1>2, <3>1
  <2> DEFINE k == K(i)
             l == K(i + 1)
             z == y(i)
  <2>2. /\ k \in Nat /\ l \in Nat /\ z \in Nat /\ mod * k <= z /\ z < mod * (k + 1)
        /\ mod * l <= z + slope /\ z + slope < mod * (l + 1)
    BY <2>1
  <2> HIDE DEF k, l, z
  <2>3. k < l + 1
    <3>1. mod * k < mod * (l + 1)
      BY <2>2, SMT
    <3> QED
      BY <2>2, <3>1, SMT
  <2>4. l < k + 2
    <3>1. mod * l < mod * (k + 2)
      BY <2>2, SMT
    <3> QED
      BY <2>2, <3>1, SMT
  <2>5. l = k \/ l = k + 1
    BY <2>2, <2>3, <2>4, SMT
  <2> QED
    BY <2>5 DEF k, l
<1>13. ASSUME NEW i \in Nat, K(i + 1) = K(i) + 1
       PROVE  G(K(i)) = - (i + 1)
  <2> DEFINE k == K(i)
  <2>1. /\ k \in Nat /\ mod * (k + 1) <= y(i + 1) /\ y(i) < mod * (k + 1)
    BY <1>2, <1>13
  <2> HIDE DEF k
  <2>2. slope * (- (i + 1)) <= base - mod * (k + 1) /\ base - mod * (k + 1) < slope * (- (i + 1) + 1)
        /\ base - mod * (k + 1) \in Int /\ - (i + 1) \in Int
    BY <2>1, SMT DEF y
  <2>3. (base - mod * (k + 1)) \div slope = - (i + 1)
    BY <2>2, DivBetween
  <2> QED
    BY <2>3 DEF G, k
<1>14. ASSUME NEW i \in Nat, i <= len
       PROVE  K(i) <= rows
  <2> DEFINE k == K(i)
             z == y(i)
             w == y(len)
  <2>1. /\ k \in Nat /\ mod * k <= z /\ z \in Nat /\ rows \in Nat /\ w \in Nat
        /\ w < mod * (rows + 1)
    BY <1>1, <1>2, <1>17
  <2>2. z <= w
    <3>1. slope * i + base <= slope * len + base
      BY <1>14, SMT
    <3> QED
      BY <3>1 DEF y
  <2> HIDE DEF k, z, w
  <2>3. mod * k < mod * (rows + 1)
    BY <2>1, <2>2, SMT
  <2>4. k < rows + 1
    BY <2>1, <2>3, SMT
  <2>5. k <= rows
    BY <2>1, <2>4, SMT
  <2> QED
    BY <2>5 DEF k
<1>15. s(len) = len * rows + Q[rows]
  <2> DEFINE N == {i \in Nat : i <= len => s(i) = i * K(i) + Q[K(i)]}
  <2>1. 0 \in N
    <3>1. 0 * K(0) = 0 /\ Q[K(0)] = 0
      BY <1>5, <1>11, SMT
    <3> QED
      BY <1>6, <3>1
  <2>2. ASSUME NEW i \in N PROVE i + 1 \in N
    <3> SUFFICES ASSUME i + 1 <= len PROVE s(i + 1) = (i + 1) * K(i + 1) + Q[K(i + 1)]
      OBVIOUS
    <3>1. i \in Nat /\ i + 1 \in Nat /\ i <= len
      BY SMT
    <3>2. s(i) = i * K(i) + Q[K(i)] /\ s(i + 1) = s(i) + K(i)
      BY <1>7, <3>1
    <3> DEFINE k == K(i)
    <3>3. k \in Nat /\ k <= rows /\ K(i + 1) <= rows
      BY <1>2, <1>14, <3>1
    <3>4. Q[k] \in Int
      BY <1>1, <1>18, <3>3, SMT
    <3>5. CASE K(i + 1) = k
      <4>1. s(i + 1) = i * k + Q[k] + k
        BY <3>2
      <4> HIDE DEF k
      <4>2. s(i + 1) = (i + 1) * k + Q[k]
        BY <3>1, <3>3, <3>4, <4>1, SMT
      <4> QED
        BY <3>5, <4>2
    <3>6. CASE K(i + 1) = k + 1
      <4>1. s(i + 1) = i * k + Q[k] + k
        BY <3>2
      <4>2. G(k) = - (i + 1)
        BY <1>13, <3>1, <3>6
      <4> HIDE DEF k
      <4>3. k \in 0 .. rows - 1
        BY <1>1, <3>3, <3>6, SMT
      <4>4. Q[k + 1] = Q[k] + G(k)
        BY <1>5, <4>3 DEF G
      <4>5. s(i + 1) = (i + 1) * (k + 1) + Q[k + 1]
        BY <3>1, <3>3, <3>4, <4>1, <4>2, <4>4, SMT
      <4> QED
        BY <3>6, <4>5
    <3> QED
      BY <1>12, <3>1, <3>5, <3>6
  <2> HIDE DEF N
  <2>3. N \in SUBSET Nat
    BY DEF N
  <2>4. len \in N
    BY <2>1, <2>2, <2>3, Induction
  <2> QED
    BY <1>17, <2>4 DEF N
\* Row by row, from the last: a row ends where the line does.
<1>16. t(rows) = len * rows + Q[rows]
  <2> DEFINE N == {j \in Nat : j <= rows => t(rows) = t(rows - j) + len * j + Q[j]}
  <2>1. 0 \in N
    <3>1. rows - 0 = rows /\ len * 0 = 0 /\ rows \in Nat
      BY <1>1, SMT
    <3>2. t(rows) \in Nat
      BY <1>9, <3>1
    <3> QED
      BY <1>5, <3>1, <3>2, SMT
  <2>2. ASSUME NEW j \in N PROVE j + 1 \in N
    <3> SUFFICES ASSUME j + 1 <= rows PROVE t(rows) = t(rows - (j + 1)) + len * (j + 1) + Q[j + 1]
      OBVIOUS
    <3> DEFINE l == rows - (j + 1)
    <3>1. j \in Nat /\ j <= rows /\ l \in Nat /\ l + 1 = rows - j /\ j \in 0 .. rows - 1
          /\ j \in 0 .. rows
      BY <1>1, SMT
    <3>2. t(rows) = t(l + 1) + len * j + Q[j]
      BY <3>1
    <3>3. t(l + 1) = t(l) + (mod * l + rest) \div slope /\ t(l) \in Nat
      BY <1>9, <3>1
    <3>4. mod * l + rest = slope * len + (base - mod * (j + 1))
      <4>1. slope * len + base = mod * rows + rest /\ rows = l + (j + 1) /\ rest \in Nat /\ rows \in Nat
        BY <1>1, <1>17, <3>1, SMT
      <4>2. l \in Nat /\ j \in Nat
        BY <3>1
      <4> HIDE DEF l
      <4>3. mod * rows = mod * l + mod * (j + 1)
        BY <4>1, <4>2, SMT
      <4> DEFINE u == mod * l
                 v == mod * (j + 1)
                 w == slope * len
      <4>4. u \in Int /\ v \in Int /\ w \in Int
        BY <4>2, SMT
      <4>5. w + base = (u + v) + rest
        BY <4>1, <4>3
      <4> HIDE DEF u, v, w
      <4>6. u + rest = w + (base - v)
        BY <4>1, <4>4, <4>5, SMT
      <4> QED
        BY <4>6 DEF u, v, w
    <3>5. base - mod * (j + 1) \in Int
      BY <3>1, SMT
    <3> DEFINE x == base - mod * (j + 1)
    <3>6. (slope * len + x) \div slope = len + x \div slope
      <4> HIDE DEF x
      <4> QED
        BY <3>5, DivShift DEF x
    <3>7. x \div slope \in Int
      <4> HIDE DEF x
      <4> QED
        BY <3>5, Divided DEF x
    <3>8. Q[j + 1] = Q[j] + x \div slope /\ Q[j] \in Int
      BY <1>5, <1>18, <3>1
    <3> DEFINE g == x \div slope
    <3>9. t(l + 1) = t(l) + (len + g) /\ g \in Int /\ Q[j + 1] = Q[j] + g
      BY <3>3, <3>4, <3>6, <3>7, <3>8
    <3> HIDE DEF g, l, x
    <3>10. t(rows) = t(l) + len * (j + 1) + Q[j + 1]
      BY <3>1, <3>2, <3>3, <3>8, <3>9, SMT
    <3> QED
      BY <3>10 DEF l
  <2> HIDE DEF N
  <2>3. N \in SUBSET Nat
    BY DEF N
  <2>4. rows \in N
    BY <1>1, <2>1, <2>2, <2>3, Induction
  <2>5. rows - rows = 0 /\ len * rows \in Nat /\ rows \in 0 .. rows /\ rows <= rows
    BY <1>1, SMT
  <2>6. t(rows) = t(0) + len * rows + Q[rows]
    BY <2>4, <2>5 DEF N
  <2>7. Q[rows] \in Int
    BY <1>18, <2>5
  <2> QED
    BY <1>8, <2>5, <2>6, <2>7, SMT
<1> QED
  BY <1>15, <1>16 DEF SwappedSum, s, t, rows, rest, K, y

\* A sum whose largest term is 0 is 0.
LEMMA Vanishes ==
  ASSUME NEW len \in Nat, NEW mod \in Nat \ {0}, NEW slope \in Nat, NEW base \in Nat,
         slope * len + base < mod
  PROVE  SumOfFloors(len, mod, slope, base) = 0
<1> DEFINE s(k) == SumOfFloors(k, mod, slope, base)
           N == {k \in Nat : k <= len => s(k) = 0}
<1>1. s(0) = 0
  BY SumSteps
<1>2. ASSUME NEW k \in N PROVE k + 1 \in N
  <2> SUFFICES ASSUME k + 1 <= len PROVE s(k + 1) = 0
    OBVIOUS
  <2>1. k \in Nat /\ k <= len
    BY SMT
  <2>2. s(k) = 0 /\ s(k + 1) = s(k) + (slope * k + base) \div mod
    BY <2>1, SumSteps
  <2> HIDE DEF s
  <2> DEFINE x == slope * k + base
             z == slope * len + base
  <2>3. x \in Nat /\ z \in Nat /\ x <= z
    BY <2>1, SMT
  <2>4. x < mod
    <3>1. z < mod
      OBVIOUS
    <3> HIDE DEF x, z
    <3> QED
      BY <2>3, <3>1, SMT
  <2>5. x \div mod = 0
    <3> HIDE DEF x
    <3>1. mod * 0 + x = x
      BY <2>3, SMT
    <3> QED
      BY <2>3, <2>4, <3>1, DivUnique
  <2> QED
    BY <2>2, <2>5
<1> HIDE DEF s
<1>3. 0 \in N
  BY <1>1
<1> HIDE DEF N
<1>4. N \in SUBSET Nat
  BY DEF N
<1>5. len \in N
  BY <1>2, <1>3, <1>4, Induction
<1> QED
  BY <1>5 DEF N, s

\* More terms make a sum larger, if anything.
LEMMA SumGrows ==
  ASSUME NEW mod \in Nat \ {0}, NEW slope \in Nat, NEW base \in Nat, NEW k \in Nat
  PROVE  \A i \in Nat : SumOfFloors(k, mod, slope, base) <= SumOfFloors(k + i, mod, slope, base)
<1> DEFINE s(i) == SumOfFloors(i, mod, slope, base)
           N == {i \in Nat : s(k) <= s(k + i)}
<1>1. \A i \in Nat : s(i) \in Nat
  BY SumSteps
<1>2. \A i \in Nat : s(i + 1) = s(i) + (slope * i + base) \div mod /\ (slope * i + base) \div mod \in Nat
  BY SumSteps, FloorsType
<1> HIDE DEF s
<1>3. 0 \in N
  <2>1. k + 0 = k
    BY SMT
  <2> QED
    BY <1>1, <2>1, SMT
<1>4. ASSUME NEW i \in N PROVE i + 1 \in N
  <2>1. i \in Nat /\ i + 1 \in Nat /\ k + i \in Nat /\ k + (i + 1) = (k + i) + 1
    BY SMT
  <2> DEFINE d == (slope * (k + i) + base) \div mod
  <2>2. s(k + (i + 1)) = s(k + i) + d /\ d \in Nat
    BY <1>2, <2>1
  <2>3. s(k) <= s(k + i) /\ s(k) \in Nat /\ s(k + i) \in Nat
    BY <1>1, <2>1
  <2> HIDE DEF d
  <2>4. s(k) <= s(k + (i + 1))
    BY <2>2, <2>3, SMT
  <2> QED
    BY <2>1, <2>4
<1> HIDE DEF N
<1>5. N \in SUBSET Nat
  BY DEF N
<1>6. \A i \in Nat : i \in N
  BY <1>3, <1>4, <1>5, Induction
<1> QED
  BY <1>6 DEF N, s

\* Terms of at most top, one for each of len numbers.
LEMMA SumBounded ==
  ASSUME NEW mod \in Nat \ {0}, NEW slope \in Nat, NEW base \in Nat, NEW len \in Nat, NEW top \in Nat,
         \A i \in 0 .. len - 1 : (slope * i + base) \div mod <= top
  PROVE  SumOfFloors(len, mod, slope, base) <= len * top
<1> DEFINE s(i) == SumOfFloors(i, mod, slope, base)
           d(i) == (slope * i + base) \div mod
           N == {i \in Nat : i <= len => s(i) <= i * top}
<1>1. s(0) = 0 /\ \A i \in Nat : s(i) \in Nat /\ s(i + 1) = s(i) + d(i) /\ d(i) \in Nat
  <2>1. s(0) = 0
    BY SumSteps
  <2>2. \A i \in Nat : s(i) \in Nat
    BY SumSteps
  <2>3. \A i \in Nat : s(i + 1) = s(i) + d(i)
    BY SumSteps
  <2>4. \A i \in Nat : d(i) \in Nat
    BY FloorsType
  <2> HIDE DEF s, d
  <2> QED
    BY <2>1, <2>2, <2>3, <2>4
<1>2. \A i \in 0 .. len - 1 : d(i) <= top
  OBVIOUS
<1> HIDE DEF s, d
<1>3. 0 \in N
  BY <1>1, SMT
<1>4. ASSUME NEW i \in N PROVE i + 1 \in N
  <2> SUFFICES ASSUME i + 1 <= len PROVE s(i + 1) <= (i + 1) * top
    BY SMT
  <2>1. i \in Nat /\ i <= len /\ i \in 0 .. len - 1
    BY SMT
  <2>2. s(i) <= i * top
    BY <2>1
  <2>3. s(i) \in Nat /\ d(i) \in Nat /\ s(i + 1) = s(i) + d(i) /\ d(i) <= top
    BY <1>1, <1>2, <2>1
  <2>4. (i + 1) * top = i * top + top /\ i * top \in Nat
    BY <2>1, SMT
  <2> DEFINE p == i * top
             y == (i + 1) * top
             x == s(i)
             z == d(i)
             u == s(i + 1)
  <2>5. x <= p /\ x \in Nat /\ z \in Nat /\ u = x + z /\ z <= top /\ y = p + top /\ p \in Nat
    BY <2>2, <2>3, <2>4
  <2> HIDE DEF p, y, x, z, u
  <2>6. u <= y
    BY <2>5, SMT
  <2> QED
    BY <2>6 DEF u, y
<1> HIDE DEF N
<1>5. N \in SUBSET Nat
  BY DEF N
<1>6. len \in N
  BY <1>3, <1>4, <1>5, Induction
<1>7. len <= len
  BY SMT
<1> QED
  BY <1>6, <1>7 DEF N, s

-----------------------------------------------------------------------------
(* floor_sum_ct. *)

\* A number below the modulus is its own remainder.
LEMMA SmallMod ==
  ASSUME NEW s \in Nat \ {0}, NEW x \in Nat, x < s
  PROVE  x % s = x
<1>1. s * 0 + x = x /\ 0 \in Int
  BY SMT
<1>2. (s * 0 + x) % s = x
  BY <1>1, ModUnique
<1> QED
  BY <1>1, <1>2

LEMMA SumWordType ==
  /\ ArgWord \in Nat /\ ArgWord >= 2 /\ SumWord \in Nat \ {0} /\ ArgWord <= SumWord
  /\ \A x \in Int : x % SumWord \in 0 .. SumWord - 1
<1>1. ArgWord \in Nat /\ ArgWord >= 2
  BY FloorSumAssumption
<1>2. SumWord \in Nat \ {0} /\ ArgWord <= SumWord
  BY <1>1, SMT DEF SumWord
<1> QED
  BY <1>1, <1>2, Divided

\* The products of an iteration of floor_sum_ct on words, and its largest term.
LEMMA NoneWraps ==
  ASSUME NEW w \in Nat, w >= 2, NEW len \in 0 .. w - 1, NEW mod \in 1 .. w - 1,
         NEW x \in 0 .. mod - 1, NEW z \in 0 .. mod - 1
  PROVE  /\ x * len \in Nat /\ x * len < w * w
         /\ x * len + z \in Nat /\ x * len + z < w * w
         /\ x * len + z < mod * (len + 1)
         /\ len # 0 => (len - 1) * len \in Nat /\ (len - 1) * len < w * w
<1>1. len \in Nat /\ mod \in Nat /\ x \in Nat /\ z \in Nat
      /\ len <= w - 1 /\ mod <= w - 1 /\ x <= mod - 1 /\ z <= mod - 1
  BY SMT
<1>2. x * len <= (mod - 1) * len /\ x * len \in Nat
  BY <1>1, SMT
<1>3. (mod - 1) * len = mod * len - len /\ mod * (len + 1) = mod * len + mod /\ mod * len \in Nat
  BY <1>1, SMT
<1>4. mod * (len + 1) <= (w - 1) * w
  <2>1. mod * (len + 1) <= (w - 1) * (len + 1)
    BY <1>1, SMT
  <2>2. (w - 1) * (len + 1) <= (w - 1) * w
    BY <1>1, SMT
  <2>3. mod * (len + 1) \in Int /\ (w - 1) * (len + 1) \in Int /\ (w - 1) * w \in Int
    BY <1>1, SMT
  <2> DEFINE p == mod * (len + 1)
             q == (w - 1) * (len + 1)
             y == (w - 1) * w
  <2>4. p <= q /\ q <= y /\ p \in Int /\ q \in Int /\ y \in Int
    BY <2>1, <2>2, <2>3
  <2> HIDE DEF p, q, y
  <2>5. p <= y
    BY <2>4, SMT
  <2> QED
    BY <2>5 DEF p, y
<1>5. (w - 1) * w = w * w - w /\ w * w \in Nat
  BY SMT
<1>6. len # 0 => (len - 1) * len \in Nat /\ (len - 1) * len < w * w
  <2> SUFFICES ASSUME len # 0 PROVE (len - 1) * len \in Nat /\ (len - 1) * len < w * w
    OBVIOUS
  <2>1. (len - 1) * len \in Nat /\ (len - 1) * len <= (w - 1) * len
    BY <1>1, SMT
  <2>2. (w - 1) * len <= (w - 1) * w /\ (w - 1) * len \in Int
    BY <1>1, SMT
  <2> DEFINE p == (len - 1) * len
             q == (w - 1) * len
             y == (w - 1) * w
             e == w * w
  <2>3. p \in Nat /\ p <= q /\ q \in Int /\ q <= y /\ y = e - w /\ e \in Nat
    BY <1>5, <2>1, <2>2
  <2> HIDE DEF p, q, y, e
  <2>4. p \in Nat /\ p < e
    BY <2>3, SMT
  <2> QED
    BY <2>4 DEF p, e
<1> DEFINE p == x * len
           q == (mod - 1) * len
           e == w * w
           g == mod * len
           h == mod * (len + 1)
           y == (w - 1) * w
<1>7. p \in Nat /\ p <= q /\ q = g - len /\ h = g + mod /\ g \in Nat /\ h <= y /\ y = e - w /\ e \in Nat
  BY <1>2, <1>3, <1>4, <1>5
<1> HIDE DEF p, q, e, g, h, y
<1>8. p < e /\ p + z \in Nat /\ p + z < e /\ p + z < h
  BY <1>1, <1>7, SMT
<1> QED
  BY <1>6, <1>7, <1>8 DEF p, e, h

\* The swap puts a remainder in the place of the divisor.  It is positive: the
\* swap only happens when a*n + b reached m, which a remainder b alone cannot.
SumInv == SumTypeOK /\ NeverDividesByZero

\* What an iteration computes: of its operations only those on ans can wrap.
Iterated ==
  LET top == (a % m) * n + (b % m)
  IN  /\ ~done
      /\ ans' = WrapAdd(WrapAdd(ans, WrapMul(Triangle(n), a \div m)), WrapMul(n, b \div m))
      /\ b' = IF top < m THEN b % m ELSE top % m
      /\ n' = IF top < m THEN n ELSE top \div m
      /\ m' = IF top < m THEN m ELSE a % m
      /\ a' = IF top < m THEN a % m ELSE m
      /\ done' = (top < m)
      /\ top \in Nat /\ top \div m \in 0 .. n

LEMMA IterateIs ==
  ASSUME SumInv, Iterate
  PROVE  Iterated
<1> DEFINE a1  == a % m
           b1  == b % m
           top == a1 * n + b1
           W   == ArgWord * ArgWord
<1>1. /\ ArgWord \in Nat /\ ArgWord >= 2 /\ n \in 0 .. ArgWord - 1 /\ m \in 1 .. ArgWord - 1
      /\ n \in Nat /\ m \in Nat \ {0} /\ a \in Nat /\ b \in Nat /\ n < ArgWord
  BY SumWordType, SMT DEF SumInv, SumTypeOK, NeverDividesByZero, Arg
<1>2. a1 \in 0 .. m - 1 /\ b1 \in 0 .. m - 1 /\ a1 \in Nat /\ b1 \in Nat
  BY <1>1, DivMod
<1>3. /\ a1 * n \in Nat /\ a1 * n < W /\ top \in Nat /\ top < W /\ top < m * (n + 1)
      /\ n # 0 => (n - 1) * n \in Nat /\ (n - 1) * n < W
  <2> HIDE DEF a1, b1
  <2> QED
    BY <1>1, <1>2, NoneWraps
<1>4. W = SumWord /\ W \in Nat \ {0} /\ ArgWord <= W
  BY SumWordType DEF SumWord
<1> HIDE DEF a1, b1, W
<1>5. WrapMul(a1, n) = a1 * n /\ WrapAdd(a1 * n, b1) = top
  BY <1>3, <1>4, SmallMod DEF WrapMul, WrapAdd
<1>6. WrapMul(WrapAdd(n, -1), n) = (n - 1) * n
  <2>1. CASE n = 0
    <3> DEFINE u == WrapAdd(n, -1)
    <3>1. u \in Int
      <4>1. n + (-1) \in Int
        BY <2>1, SMT
      <4> QED
        BY <1>4, <4>1, Divided DEF WrapAdd
    <3> HIDE DEF u
    <3>2. u * n = 0 /\ (n - 1) * n = 0 /\ 0 \in Nat /\ 0 < W
      BY <1>4, <2>1, <3>1, SMT
    <3>3. (u * n) % W = 0
      BY <1>4, <3>2, SmallMod
    <3> QED
      BY <1>4, <3>2, <3>3 DEF WrapMul, u
  <2>2. CASE n # 0
    <3> DEFINE u == n - 1
    <3>1. n + (-1) = u /\ u \in Nat /\ u < W
      BY <1>1, <1>4, <2>2, SMT
    <3> HIDE DEF u
    <3>2. WrapAdd(n, -1) = u
      BY <1>4, <3>1, SmallMod DEF WrapAdd
    <3>3. u * n \in Nat /\ u * n < W
      BY <1>3, <2>2 DEF u
    <3>4. WrapMul(u, n) = u * n
      BY <1>4, <3>3, SmallMod DEF WrapMul
    <3> QED
      BY <3>2, <3>4 DEF u
  <2> QED
    BY <2>1, <2>2
<1>7. top \div m \in 0 .. n
  <2> DEFINE y == top
             q == y \div m
  <2>1. y \in Nat /\ y < m * (n + 1)
    BY <1>3
  <2> HIDE DEF y
  <2>2. q \in Nat /\ m * q <= y
    BY <1>1, <2>1, DivMod
  <2> HIDE DEF q
  <2>3. q < n + 1
    <3> SUFFICES ASSUME q >= n + 1 PROVE FALSE
      BY <1>1, <2>2, SMT
    <3>1. m * q >= m * (n + 1) /\ m * q \in Int /\ m * (n + 1) \in Int
      BY <1>1, <2>2, SMT
    <3> DEFINE p == m * q
               g == m * (n + 1)
    <3>2. p >= g /\ p \in Int /\ g \in Int /\ p <= y /\ y < g /\ y \in Int
      BY <2>1, <2>2, <3>1
    <3> HIDE DEF p, g
    <3> QED
      BY <3>2, SMT
  <2>4. q \in 0 .. n
    BY <1>1, <2>2, <2>3, SMT
  <2> QED
    BY <2>4 DEF q, y
<1> USE DEF a1, b1
<1> QED
  BY <1>3, <1>5, <1>6, <1>7 DEF Iterate, Iterated, Complete, Triangle

LEMMA InitSumInv == SumInit => SumInv
<1> SUFFICES ASSUME NEW c \in Calls,
                    call = [c EXCEPT !.m = IF c.m < 1 THEN 1 ELSE c.m],
                    n = c.n, m = call.m, a = c.a, b = c.b,
                    ans = 0, done = FALSE, iteration = 0
             PROVE  SumInv
  BY DEF SumInit, StartsWith
<1>1. c.n \in Arg /\ c.m \in Arg /\ c.a \in Arg /\ c.b \in Arg
      /\ c \in [n : Arg, m : Arg, a : Arg, b : Arg]
  BY FloorSumAssumption DEF Args
<1>2. call.m = IF c.m < 1 THEN 1 ELSE c.m
  BY <1>1
<1>3. (IF c.m < 1 THEN 1 ELSE c.m) \in Arg /\ (IF c.m < 1 THEN 1 ELSE c.m) >= 1
  BY <1>1, SumWordType, SMT DEF Arg
<1>4. call \in Args
  BY <1>1, <1>3 DEF Args
<1>5. 0 \in 0 .. Iterations /\ 0 \in 0 .. SumWord - 1
  BY FloorSumAssumption, SumWordType, SMT
<1> QED BY <1>1, <1>2, <1>3, <1>4, <1>5 DEF SumInv, SumTypeOK, NeverDividesByZero

LEMMA IterateSumInv ==
  ASSUME SumInv, Iterate, iteration < Iterations, iteration' = iteration + 1, call' = call
  PROVE  SumInv'
<1> DEFINE a1  == a % m
           b1  == b % m
           top == a1 * n + b1
<1>1. /\ n \in 0 .. ArgWord - 1 /\ m \in 1 .. ArgWord - 1 /\ m \in Arg /\ n \in Arg
      /\ n \in Nat /\ m \in Nat \ {0} /\ a \in Nat /\ b \in Nat
      /\ iteration \in Nat /\ call \in Args
  BY FloorSumAssumption, SumWordType, SMT DEF SumInv, SumTypeOK, NeverDividesByZero, Arg
<1>2. /\ ans' = WrapAdd(WrapAdd(ans, WrapMul(Triangle(n), a \div m)), WrapMul(n, b \div m))
      /\ b' = IF top < m THEN b1 ELSE top % m
      /\ n' = IF top < m THEN n ELSE top \div m
      /\ m' = IF top < m THEN m ELSE a1
      /\ a' = IF top < m THEN a1 ELSE m
      /\ done' = (top < m)
      /\ top \in Nat /\ top \div m \in 0 .. n
  BY IterateIs DEF Iterated
<1>3. a1 \in 0 .. m - 1 /\ b1 \in 0 .. m - 1 /\ a \div m \in Nat /\ b \div m \in Nat
  BY <1>1, DivMod
<1>4. ans' \in 0 .. SumWord - 1
  <2> DEFINE p == Triangle(n)
             qa == a \div m
             qb == b \div m
             u == WrapMul(p, qa)
             v == WrapMul(n, qb)
             y == WrapAdd(ans, u)
  <2>1. p \in Nat /\ qa \in Nat /\ qb \in Nat /\ ans \in Int
    BY <1>1, <1>3, TriangleSteps, SumWordType, SMT DEF SumInv, SumTypeOK
  <2>2. ans' = WrapAdd(y, v)
    BY <1>2
  <2> HIDE DEF p, qa, qb
  <2>3. u \in Int /\ v \in Int
    <3>1. p * qa \in Int /\ n * qb \in Int
      BY <1>1, <2>1, SMT
    <3>2. u \in 0 .. SumWord - 1 /\ v \in 0 .. SumWord - 1
      BY <3>1, SumWordType DEF WrapMul
    <3> HIDE DEF u, v
    <3> QED
      BY <3>2, SumWordType, SMT
  <2> HIDE DEF u, v
  <2>4. y \in Int
    <3>1. ans + u \in Int
      BY <2>1, <2>3, SMT
    <3> QED
      BY <3>1, SumWordType, Divided DEF WrapAdd
  <2> HIDE DEF y
  <2>5. y + v \in Int
    BY <2>3, <2>4, SMT
  <2> QED
    BY <2>2, <2>5, SumWordType DEF WrapAdd
<1> HIDE DEF a1, b1
<1>5. ~(top < m) => a1 >= 1
  <2> SUFFICES ASSUME a1 = 0 PROVE top < m
    BY <1>1, <1>3, SMT
  <2> QED BY <1>1, <1>3, SMT
<1> HIDE DEF top
<1>6. top % m \in 0 .. m - 1
  BY <1>1, <1>2, DivMod
<1>7. \A x \in 0 .. m - 1 : x \in Arg
  BY <1>1, SumWordType, SMT DEF Arg
<1>8. \A x \in 0 .. n : x \in Arg
  BY <1>1, SumWordType, SMT DEF Arg
<1>9. m >= 1
  BY <1>1, SMT
<1>10. n' \in Arg /\ m' \in Arg /\ a' \in Arg /\ b' \in Arg /\ done' \in BOOLEAN /\ m' >= 1
  BY <1>1, <1>2, <1>3, <1>5, <1>6, <1>7, <1>8, <1>9
<1>11. iteration' \in 0 .. Iterations
  BY <1>1, FloorSumAssumption, SMT
<1> QED BY <1>1, <1>4, <1>10, <1>11 DEF SumInv, SumTypeOK, NeverDividesByZero

LEMMA NextSumInv == SumInv /\ [SumNext]_sumVars => SumInv'
<1> SUFFICES ASSUME SumInv, [SumNext]_sumVars PROVE SumInv'
  OBVIOUS
<1>1. CASE UNCHANGED sumVars
  BY <1>1 DEF sumVars, SumInv, SumTypeOK, NeverDividesByZero
<1>2. CASE SumNext /\ Iterate
  BY <1>2, IterateSumInv DEF SumNext, Iterating
<1>3. CASE SumNext /\ Idle
  <2>1. iteration' \in 0 .. Iterations
    BY <1>3, FloorSumAssumption, SMT DEF SumNext, Iterating, SumInv, SumTypeOK
  <2> QED BY <1>3, <2>1 DEF SumNext, Idle, SumInv, SumTypeOK, NeverDividesByZero
<1> QED BY <1>1, <1>2, <1>3 DEF SumNext

\* The parameters stay words, and the sum a number of twice their width.
THEOREM FloorSumTyped == SumSpec => []SumTypeOK
<1>1. SumInv => SumTypeOK
  BY DEF SumInv
<1> QED BY <1>1, InitSumInv, NextSumInv, PTL DEF SumSpec

\* No iteration divides by zero, for every call.
THEOREM FloorSumSafe == SumSpec => []NeverDividesByZero
<1>1. SumInv => NeverDividesByZero
  BY DEF SumInv
<1> QED BY <1>1, InitSumInv, NextSumInv, PTL DEF SumSpec

\* An iteration moves the whole multiples into ans, and what it leaves is either
\* zero or the same sum counted along the other axis.
LEMMA IterateLosesNothing ==
  ASSUME SumInv, NothingIsLost, Iterate, call' = call
  PROVE  NothingIsLost'
<1> SUFFICES ASSUME SumFits PROVE NothingIsLost'
  BY DEF NothingIsLost, SumFits
<1> DEFINE a1    == a % m
           b1    == b % m
           yMax  == a1 * n + b1
           qa    == a \div m
           qb    == b \div m
           T     == Triangle(n)
           now   == SumOfFloors(n, m, a, b)
           left  == SumOfFloors(n, m, a1, b1)
           later == SumOfFloors(n', m', a', b')
           all   == SumOfFloors(call.n, call.m, call.a, call.b)
<1>1. n \in Nat /\ m \in Nat \ {0} /\ a \in Nat /\ b \in Nat /\ ans \in Nat
  BY SumWordType, SMT DEF SumInv, SumTypeOK, NeverDividesByZero, Arg
<1>2. /\ ~done
      /\ ans' = WrapAdd(WrapAdd(ans, WrapMul(T, qa)), WrapMul(n, qb))
      /\ b' = IF yMax < m THEN b1 ELSE yMax % m
      /\ n' = IF yMax < m THEN n ELSE yMax \div m
      /\ m' = IF yMax < m THEN m ELSE a1
      /\ a' = IF yMax < m THEN a1 ELSE m
      /\ done' = (yMax < m)
  BY IterateIs DEF Iterated
<1>3. ans + now = all /\ all < SumWord
  BY <1>2 DEF NothingIsLost, SumFits
<1>4. now = T * qa + n * qb + left
  <2>1. PeeledSum(n, m, a, b)
    BY <1>1, Peeled
  <2> QED
    BY <2>1 DEF PeeledSum
<1>5. a1 \in Nat /\ b1 \in Nat /\ a1 < m /\ b1 < m /\ qa \in Nat /\ qb \in Nat /\ T \in Nat
  BY <1>1, DivMod, TriangleSteps
<1>6. left \in Nat
  BY <1>1, <1>5, SumSteps
<1> DEFINE u == T * qa
           v == n * qb
<1>7. u \in Nat /\ v \in Nat
  BY <1>1, <1>5, SMT
<1>8. ans' + left = all
  <2>1. ans' = WrapAdd(WrapAdd(ans, u % SumWord), v % SumWord) /\ now = u + v + left
    BY <1>2, <1>4 DEF WrapMul
  <2> HIDE DEF u, v, now, left, all
  <2>2. /\ u < SumWord /\ v < SumWord /\ ans + u < SumWord /\ (ans + u) + v < SumWord
        /\ ans + u \in Nat /\ (ans + u) + v \in Nat /\ SumWord \in Nat \ {0}
    BY <1>1, <1>3, <1>6, <1>7, <2>1, SumWordType, SMT
  <2>3. u % SumWord = u /\ v % SumWord = v
    BY <1>7, <2>2, SmallMod
  <2>4. WrapAdd(ans, u) = ans + u
    BY <2>2, SmallMod DEF WrapAdd
  <2> DEFINE x == ans + u
  <2>5. WrapAdd(x, v) = x + v
    <3>1. x + v \in Nat /\ x + v < SumWord
      BY <2>2
    <3> HIDE DEF x
    <3> QED
      BY <2>2, <3>1, SmallMod DEF WrapAdd
  <2>6. ans' = (ans + u) + v
    BY <2>1, <2>3, <2>4, <2>5
  <2> QED
    BY <1>1, <1>3, <1>6, <1>7, <2>1, <2>6, SMT
<1>9. CASE yMax < m
  <2>1. left = 0
    BY <1>1, <1>5, <1>9, Vanishes
  <2> QED
    BY <1>2, <1>8, <1>9, <2>1 DEF NothingIsLost
<1>10. CASE ~(yMax < m)
  <2>1. a1 # 0
    <3> SUFFICES ASSUME a1 = 0 PROVE yMax < m
      BY <1>10
    <3> HIDE DEF a1, b1
    <3> QED
      BY <1>1, <1>5, SMT
  <2>2. left = later
    <3>1. a1 \in Nat \ {0}
      BY <1>5, <2>1
    <3>2. left = SumOfFloors(yMax \div m, a1, m, yMax % m)
      <4>1. n \in Nat /\ m \in Nat \ {0} /\ b1 \in Nat /\ a1 < m /\ b1 < m
        BY <1>1, <1>5
      <4> HIDE DEF a1, b1
      <4>2. SwappedSum(n, m, a1, b1)
        BY <3>1, <4>1, Swapped
      <4> QED
        BY <4>2 DEF SwappedSum
    <3> QED
      BY <1>2, <1>10, <3>2
  <2> QED
    BY <1>2, <1>8, <1>10, <2>2 DEF NothingIsLost
<1> QED
  BY <1>9, <1>10

\* At the start all of the sum is still to be added.
LEMMA InitLosesNothing ==
  ASSUME SumInv, n = call.n, m = call.m, a = call.a, b = call.b, ans = 0, done = FALSE
  PROVE  NothingIsLost
<1> DEFINE all == SumOfFloors(call.n, call.m, call.a, call.b)
<1>1. n \in Nat /\ m \in Nat \ {0} /\ a \in Nat /\ b \in Nat
  BY SumWordType, SMT DEF SumInv, SumTypeOK, NeverDividesByZero, Arg
<1>2. all \in Nat
  BY <1>1, SumSteps
<1>3. 0 + all = all => NothingIsLost
  BY DEF NothingIsLost
<1> HIDE DEF all
<1>4. 0 + all = all
  BY <1>2, SMT
<1> QED
  BY <1>3, <1>4

LEMMA NextLosesNothing == SumInv /\ NothingIsLost /\ [SumNext]_sumVars => NothingIsLost'
<1>1. SumInv /\ NothingIsLost /\ SumNext /\ Iterate => NothingIsLost'
  BY IterateLosesNothing DEF SumNext
<1>2. NothingIsLost /\ SumNext /\ Idle => NothingIsLost'
  BY DEF SumNext, Idle, NothingIsLost, SumFits
<1>3. NothingIsLost /\ UNCHANGED sumVars => NothingIsLost'
  BY DEF sumVars, NothingIsLost, SumFits
<1> QED
  BY <1>1, <1>2, <1>3 DEF SumNext

\* Whatever the arguments of the call, words of any width, what is in ans and what is left
\* add up to the sum that was asked for if that fits in twice the width, although the
\* iteration wraps there; once done, ans is that sum.
THEOREM FloorSumCorrect == SumSpec => []NothingIsLost
<1>1. SumInit => SumInv /\ NothingIsLost
  <2> SUFFICES ASSUME SumInit PROVE NothingIsLost
    BY InitSumInv
  <2>1. PICK c \in Calls : StartsWith(c)
    BY DEF SumInit
  <2>2. c \in [n : Arg, m : Arg, a : Arg, b : Arg]
    BY FloorSumAssumption DEF Args
  <2>3. call.n = c.n /\ call.a = c.a /\ call.b = c.b
    BY <2>1, <2>2 DEF StartsWith
  <2> QED
    BY <2>1, <2>3, InitSumInv, InitLosesNothing DEF StartsWith
<1> QED
  BY <1>1, NextSumInv, NextLosesNothing, PTL DEF SumSpec

\* For the m and a of prefix_weight_ct the algorithm of Euclid takes two iterations:
\* from 171 and 9 to 9 and 171, and from there to a remainder 0.
Euclid ==
  /\ call.m = 171 /\ call.a = 9
  /\ iteration = 0 => m = 171 /\ a = 9
  /\ iteration = 1 => done \/ (m = 9 /\ a = 171)
  /\ iteration >= 2 => done

LEMMA NextEuclid == SumInv /\ Euclid /\ [SumNext]_sumVars => Euclid'
<1> SUFFICES ASSUME SumInv, Euclid, [SumNext]_sumVars PROVE Euclid'
  OBVIOUS
<1>1. CASE UNCHANGED sumVars
  BY <1>1 DEF sumVars, Euclid
<1>2. CASE SumNext
  <2>1. /\ iteration \in Nat /\ n \in Nat /\ m \in Nat \ {0} /\ a \in Nat /\ b \in Nat
        /\ iteration' = iteration + 1 /\ call' = call
    BY <1>2, FloorSumAssumption, SumWordType, SMT DEF SumInv, SumTypeOK, NeverDividesByZero, SumNext, Arg
  <2>2. CASE Idle
    BY <2>1, <2>2, SMT DEF Idle, Euclid
  <2>3. CASE Iterate
    <3>1. ~done
      BY <2>3 DEF Iterate
    <3>0. Iterated
      BY <2>3, IterateIs
    <3>2. CASE iteration = 0
      <4>1. m = 171 /\ a = 9
        BY <3>2 DEF Euclid
      <4>2. a % m = 9
        BY <4>1, SMT
      <4>3. done' \/ (m' = 9 /\ a' = 171)
        BY <3>0, <4>1, <4>2 DEF Iterated
      <4>4. iteration' = 1 /\ ~(1 = 0) /\ ~(1 >= 2)
        BY <2>1, <3>2, SMT
      <4> QED
        BY <2>1, <4>3, <4>4 DEF Euclid
    <3>3. CASE iteration = 1
      <4>1. m = 9 /\ a = 171
        BY <3>1, <3>3 DEF Euclid
      <4>2. a % m = 0
        BY <4>1, SMT
      <4>3. 0 * n + (b % m) < m
        BY <2>1, <4>1, SMT
      <4>4. done'
        BY <3>0, <4>2, <4>3 DEF Iterated
      <4>5. iteration' = 2 /\ ~(2 = 0) /\ ~(2 = 1)
        BY <2>1, <3>3, SMT
      <4> QED
        BY <2>1, <4>4, <4>5 DEF Euclid
    <3>4. iteration = 0 \/ iteration = 1
      BY <2>1, <3>1, SMT DEF Euclid
    <3> QED
      BY <3>2, <3>3, <3>4
  <2> QED
    BY <1>2, <2>2, <2>3 DEF SumNext
<1> QED
  BY <1>1, <1>2

\* What holds of the calls of prefix_weight_ct, from their first iteration to their last.
CallInv == SumInv /\ NothingIsLost /\ Euclid

LEMMA NextCallInv == CallInv /\ [SumNext]_sumVars => CallInv'
BY NextSumInv, NextLosesNothing, NextEuclid DEF CallInv

\* Its sum fits in 128 bits whatever the other two arguments.
LEMMA CallFits == CallInv => SumFits
<1> SUFFICES ASSUME CallInv PROVE SumFits
  OBVIOUS
<1> DEFINE k == call.n
           base == call.b
           mod == 171
           slope == 9
           w == ArgWord
<1>1. k \in 0 .. w - 1 /\ base \in 0 .. w - 1 /\ call.m = 171 /\ call.a = 9 /\ w \in Nat /\ w >= 2
  BY SumWordType DEF CallInv, SumInv, SumTypeOK, Args, Arg, Euclid
<1> HIDE DEF k, base, w
<1>2. k \in Nat /\ base \in Nat /\ mod \in Nat \ {0} /\ slope \in Nat /\ k <= w - 1
  BY <1>1, SMT
<1>3. \A i \in 0 .. k - 1 : (slope * i + base) \div mod <= w
  BY <1>1, SMT
<1> HIDE DEF mod, slope
<1>4. SumOfFloors(k, mod, slope, base) <= k * w
  BY <1>1, <1>2, <1>3, SumBounded
<1>5. k * w < w * w /\ k * w \in Nat /\ w * w \in Nat
  BY <1>1, <1>2, SMT
<1>6. SumOfFloors(k, mod, slope, base) \in Nat
  BY <1>2, SumSteps
<1> DEFINE s == SumOfFloors(k, mod, slope, base)
           x == k * w
           y == w * w
<1>7. s <= x /\ x < y /\ s \in Nat /\ x \in Nat /\ y \in Nat
  BY <1>4, <1>5, <1>6
<1> HIDE DEF s, x, y
<1>8. s < y
  BY <1>7, SMT
<1> QED
  BY <1>1, <1>8 DEF SumFits, SumWord, s, y, mod, slope, k, base, w

\* Such a call returns the sum.
LEMMA CallReturnsSum == CallInv => SumIsPreserved
<1>1. iteration = Iterations => iteration >= 2
  BY LayerDrawAssumption
<1> QED
  BY <1>1, CallFits DEF CallInv, Euclid, SumIsPreserved

-----------------------------------------------------------------------------
(* uniform_below_u128_ct. *)

LEMMA SafeBoundType ==
  ASSUME NEW c \in 0 .. RandomWord - 1
  PROVE  SafeBound(c) \in Nat \ {0} /\ SafeBound(c) <= RandomWord - 1
  BY DrawAssumption, SMT DEF SafeBound

\* The limit is a multiple of the bound, and more than half of the words.
LEMMA LimitIsMultiple ==
  ASSUME NEW c \in 0 .. RandomWord - 1
  PROVE  /\ Limit(c) \in 0 .. RandomWord - 1
         /\ \E q \in Nat : Limit(c) = SafeBound(c) * q
         /\ 2 * Limit(c) >= RandomWord - 1
<1> DEFINE s == SafeBound(c)
           top == RandomWord - 1
           q == top \div s
<1>1. s \in Nat \ {0} /\ s <= top /\ top \in Nat
  BY SafeBoundType, DrawAssumption, SMT
<1>2. q \in Nat /\ top % s \in 0 .. s - 1 /\ top = s * q + (top % s)
  BY <1>1, DivMod
<1>3. Limit(c) = top - (top % s)
  BY DEF Limit
<1> HIDE DEF s, top, q
<1>4. Limit(c) = s * q
  BY <1>1, <1>2, <1>3, SMT
<1>5. Limit(c) \in 0 .. top
  BY <1>1, <1>2, <1>3, SMT
<1>6. q >= 1
  BY <1>1, <1>2, SMT
<1>7. s * q >= s
  BY <1>1, <1>2, <1>6, SMT
<1>8. 2 * Limit(c) >= top
  BY <1>1, <1>2, <1>3, <1>4, <1>7, SMT
<1> QED BY <1>2, <1>4, <1>5, <1>8 DEF s, top

\* Shifting by w - v maps the accepted words of v one to one onto those of w.
LEMMA ShiftAccepted ==
  ASSUME NEW c \in 0 .. RandomWord - 1,
         NEW v \in 0 .. SafeBound(c) - 1, NEW w \in 0 .. SafeBound(c) - 1,
         NEW u \in 0 .. RandomWord - 1, Accept(c, u), u % SafeBound(c) = v
  PROVE  /\ u - v + w \in 0 .. RandomWord - 1
         /\ Accept(c, u - v + w)
         /\ (u - v + w) % SafeBound(c) = w
<1> DEFINE s == SafeBound(c)
           k == u \div s
<1>1. PICK q \in Nat : Limit(c) = s * q
  BY LimitIsMultiple
<1>2. s \in Nat \ {0} /\ u \in Nat /\ Limit(c) \in 0 .. RandomWord - 1 /\ v \in Nat /\ w \in Nat
      /\ v < s /\ w < s
  BY SafeBoundType, LimitIsMultiple, DrawAssumption, SMT
<1>3. k \in Nat /\ u = s * k + v
  BY <1>2, DivMod
<1>4. s * k + v < s * q
  BY <1>1, <1>3 DEF Accept
<1> HIDE DEF s, k
<1>5. k < q
  <2>1. SUFFICES ASSUME k >= q PROVE FALSE
    BY <1>1, <1>3, SMT
  <2>2. s * k >= s * q
    BY <1>1, <1>2, <1>3, <2>1, SMT
  <2>3. s * k \in Nat /\ s * q \in Nat
    BY <1>1, <1>2, <1>3, SMT
  <2> QED BY <1>2, <1>4, <2>2, <2>3, SMT
<1>6. s * k + s <= s * q
  <2>1. k + 1 <= q
    BY <1>1, <1>3, <1>5, SMT
  <2>2. s * (k + 1) <= s * q
    BY <1>1, <1>2, <1>3, <2>1, SMT
  <2> QED BY <1>2, <1>3, <2>2, SMT
<1>7. u - v + w = s * k + w
  BY <1>2, <1>3, SMT
<1>8. s * k + w < s * q /\ s * k + w \in Nat
  BY <1>1, <1>2, <1>3, <1>6, SMT
<1>9. (s * k + w) % s = w
  BY <1>2, <1>3, ModUnique
<1> QED BY <1>1, <1>2, <1>7, <1>8, <1>9, DrawAssumption, SMT DEF Accept, s

\* No value below the bound is likelier than another, for every word size.
LEMMA BoundUnbiased ==
  ASSUME NEW c \in 0 .. RandomWord - 1,
         NEW v \in 0 .. SafeBound(c) - 1, NEW w \in 0 .. SafeBound(c) - 1
  PROVE  LET Words(x) == {u \in 0 .. RandomWord - 1 : Accept(c, u) /\ u % SafeBound(c) = x}
         IN  Cardinality(Words(v)) = Cardinality(Words(w))
<1> DEFINE Words(x) == {u \in 0 .. RandomWord - 1 : Accept(c, u) /\ u % SafeBound(c) = x}
           shift == [u \in Words(v) |-> u - v + w]
<1>1. IsFiniteSet(0 .. RandomWord - 1)
  BY FS_Interval, DrawAssumption, SMT
<1>2. IsFiniteSet(Words(v)) /\ IsFiniteSet(Words(w))
  BY <1>1, FS_Subset
<1>3. SafeBound(c) \in Nat \ {0}
  BY SafeBoundType
<1>4. v \in Int /\ w \in Int
  BY <1>3, SMT
<1>5. \A u \in Words(v) : u - v + w \in Words(w)
  BY ShiftAccepted
<1>6. \A u \in Words(w) : u - w + v \in Words(v)
  BY ShiftAccepted
<1>7. shift \in Bijection(Words(v), Words(w))
  <2>1. shift \in [Words(v) -> Words(w)]
    BY <1>5
  <2>2. \A r1, r2 \in Words(v) : shift[r1] = shift[r2] => r1 = r2
    <3> SUFFICES ASSUME NEW r1 \in Words(v), NEW r2 \in Words(v), r1 - v + w = r2 - v + w
                 PROVE  r1 = r2
      OBVIOUS
    <3>1. r1 \in Int /\ r2 \in Int
      BY SMT
    <3> QED BY <1>4, <3>1, SMT
  <2>3. \A u \in Words(w) : \E r1 \in Words(v) : shift[r1] = u
    <3> SUFFICES ASSUME NEW u \in Words(w) PROVE \E r1 \in Words(v) : shift[r1] = u
      OBVIOUS
    <3>1. u \in Int
      BY SMT
    <3>2. (u - w + v) - v + w = u
      BY <1>4, <3>1, SMT
    <3>3. u - w + v \in Words(v)
      BY <1>6
    <3> HIDE DEF Words
    <3>4. shift[u - w + v] = u
      BY <3>2, <3>3
    <3> QED BY <3>3, <3>4
  <2> HIDE DEF Words, shift
  <2> QED BY <2>1, <2>2, <2>3, Fun_IsBij
<1> HIDE DEF shift, Words
<1>8. Cardinality(Words(v)) = Cardinality(Words(w))
  BY <1>2, <1>7, FS_Bijection DEF ExistsBijection
<1> QED BY <1>8 DEF Words

\* Below a multiple of a bound, each of its residues has as many words.
LEMMA WordsOfResidues ==
  ASSUME NEW q \in Nat, NEW total \in Nat \ {0}, total * q <= RandomWord,
         NEW x \in Nat, NEW y \in Nat, x <= y, y <= total
  PROVE  Cardinality({w \in 0 .. RandomWord - 1 : w < total * q /\ w % total \in x .. y - 1})
           = q * (y - x)
<1> DEFINE W    == {w \in 0 .. RandomWord - 1 : w < total * q /\ w % total \in x .. y - 1}
           S    == (0 .. q - 1) \X (x .. y - 1)
           word == [p \in S |-> total * p[1] + p[2]]
<1>1. ASSUME NEW k \in 0 .. q - 1, NEW v \in x .. y - 1
      PROVE  /\ total * k + v \in W
             /\ (total * k + v) \div total = k /\ (total * k + v) % total = v
  <2>1. k \in Nat /\ k \in Int /\ v \in Nat /\ v < total /\ k + 1 <= q
    BY SMT
  <2>2. total * k + v \in Nat /\ total * k + v < total * (k + 1)
    BY <2>1, SMT
  <2>3. total * (k + 1) <= total * q
    BY <2>1, SMT
  <2>4. total * k + v < total * q
    <3> DEFINE c == total * k + v
               d == total * (k + 1)
               e == total * q
    <3>1. d \in Int /\ e \in Int
      BY <2>1, SMT
    <3>2. c \in Nat /\ c < d /\ d <= e
      BY <2>2, <2>3
    <3> HIDE DEF c, d, e
    <3>3. c < e
      BY <3>1, <3>2, SMT
    <3> QED
      BY <3>3 DEF c, e
  <2>5. total * k + v \in 0 .. RandomWord - 1
    BY <2>2, <2>4, DrawAssumption, SMT
  <2>6. (total * k + v) \div total = k /\ (total * k + v) % total = v
    BY <2>1, DivUnique, ModUnique
  <2> QED
    BY <2>4, <2>5, <2>6
<1>2. ASSUME NEW w \in W
      PROVE  /\ w \div total \in 0 .. q - 1 /\ w % total \in x .. y - 1
             /\ total * (w \div total) + (w % total) = w
  <2>1. w \in Nat /\ w < total * q
    BY DrawAssumption, SMT
  <2> DEFINE k == w \div total
             v == w % total
  <2>2. k \in Nat /\ v \in Nat /\ w = total * k + v
    BY <2>1, DivMod
  <2>3. v \in x .. y - 1
    OBVIOUS
  <2> HIDE DEF k, v
  <2>4. k < q
    <3> SUFFICES ASSUME q <= k PROVE FALSE
      BY <2>2, SMT
    <3>1. total * q <= total * k
      BY <2>2, SMT
    <3> QED
      BY <2>1, <2>2, <3>1, SMT
  <2>5. k \in 0 .. q - 1
    BY <2>2, <2>4, SMT
  <2> QED
    BY <2>2, <2>3, <2>5 DEF k, v
<1> HIDE DEF W
<1>3. word \in [S -> W]
  BY <1>1
<1>4. \A p1, p2 \in S : word[p1] = word[p2] => p1 = p2
  <2> SUFFICES ASSUME NEW p1 \in S, NEW p2 \in S, word[p1] = word[p2] PROVE p1 = p2
    OBVIOUS
  <2>1. /\ p1[1] \in 0 .. q - 1 /\ p1[2] \in x .. y - 1 /\ p1 = <<p1[1], p1[2]>>
        /\ p2[1] \in 0 .. q - 1 /\ p2[2] \in x .. y - 1 /\ p2 = <<p2[1], p2[2]>>
    OBVIOUS
  <2>2. /\ word[p1] \div total = p1[1] /\ word[p1] % total = p1[2]
        /\ word[p2] \div total = p2[1] /\ word[p2] % total = p2[2]
    BY <1>1, <2>1
  <2> HIDE DEF word, S
  <2> QED
    BY <2>1, <2>2
<1>5. \A w \in W : \E p \in S : word[p] = w
  <2> TAKE w \in W
  <2>1. <<w \div total, w % total>> \in S
    BY <1>2
  <2>2. word[<<w \div total, w % total>>] = w
    BY <1>2, <2>1
  <2> QED
    BY <2>1, <2>2
<1>6. IsFiniteSet(S) /\ Cardinality(S) = q * (y - x)
  <2>1. IsFiniteSet(0 .. q - 1) /\ Cardinality(0 .. q - 1) = q
    <3>1. 0 \in Int /\ q - 1 \in Int
      BY SMT
    <3>2. IsFiniteSet(0 .. q - 1) /\ Cardinality(0 .. q - 1) = IF 0 > q - 1 THEN 0 ELSE (q - 1) - 0 + 1
      BY <3>1, FS_Interval
    <3>3. (IF 0 > q - 1 THEN 0 ELSE (q - 1) - 0 + 1) = q
      BY SMT
    <3> QED
      BY <3>2, <3>3
  <2>2. IsFiniteSet(x .. y - 1) /\ Cardinality(x .. y - 1) = y - x
    <3>1. x \in Int /\ y - 1 \in Int
      BY SMT
    <3>2. IsFiniteSet(x .. y - 1) /\ Cardinality(x .. y - 1) = IF x > y - 1 THEN 0 ELSE (y - 1) - x + 1
      BY <3>1, FS_Interval
    <3>3. (IF x > y - 1 THEN 0 ELSE (y - 1) - x + 1) = y - x
      BY SMT
    <3> QED
      BY <3>2, <3>3
  <2> QED
    BY <2>1, <2>2, FS_Product
<1> HIDE DEF word, S
<1>7. word \in Bijection(S, W)
  BY <1>3, <1>4, <1>5, Fun_IsBij
<1>8. Cardinality(W) = Cardinality(S)
  BY <1>6, <1>7, FS_Bijection DEF ExistsBijection
<1> QED
  BY <1>6, <1>8 DEF W

LEMMA InitTyped == DrawInit => DrawTypeOK /\ ZeroUnlessFound
<1> SUFFICES ASSUME DrawInit PROVE DrawTypeOK /\ ZeroUnlessFound
  OBVIOUS
<1>1. bound \in Bounds
  BY DEF DrawInit
<1>2. SafeBound(bound) \in Nat \ {0}
  BY <1>1, SafeBoundType, DrawAssumption
<1>3. 0 \in 0 .. SafeBound(bound) - 1 /\ 0 \in 0 .. Tries
  BY <1>2, DrawAssumption, SMT
<1> QED BY <1>1, <1>3 DEF DrawInit, DrawTypeOK, ZeroUnlessFound

LEMMA NextTyped == DrawTypeOK /\ ZeroUnlessFound /\ [DrawNext]_drawVars => (DrawTypeOK /\ ZeroUnlessFound)'
<1> SUFFICES ASSUME DrawTypeOK, ZeroUnlessFound, [DrawNext]_drawVars PROVE (DrawTypeOK /\ ZeroUnlessFound)'
  OBVIOUS
<1>1. CASE UNCHANGED drawVars
  BY <1>1 DEF drawVars, DrawTypeOK, ZeroUnlessFound
<1>2. ASSUME NEW u \in 0 .. RandomWord - 1, Draw(u) PROVE (DrawTypeOK /\ ZeroUnlessFound)'
  <2>1. /\ result' = IF Accept(bound, u) /\ ~found THEN u % SafeBound(bound) ELSE result
        /\ found' = (found \/ (Accept(bound, u) /\ ~found))
        /\ drawn < Tries /\ drawn' = drawn + 1 /\ bound' = bound
    BY <1>2 DEF Draw, Selected, Takes, Reduce
  <2>2. u % SafeBound(bound) \in 0 .. SafeBound(bound) - 1
    <3>1. SafeBound(bound) \in Nat \ {0}
      BY SafeBoundType, DrawAssumption DEF DrawTypeOK
    <3>2. u \in Nat
      BY DrawAssumption, SMT
    <3> QED BY <3>1, <3>2, DivMod
  <2>3. result' \in 0 .. SafeBound(bound) - 1
    BY <2>1, <2>2 DEF DrawTypeOK
  <2>4. drawn' \in 0 .. Tries
    BY <2>1, DrawAssumption, SMT DEF DrawTypeOK
  <2>5. found' \in BOOLEAN
    BY <2>1 DEF DrawTypeOK
  <2>6. ~found' => ~found /\ result' = result
    BY <2>1
  <2>7. DrawTypeOK'
    BY <2>1, <2>3, <2>4, <2>5 DEF DrawTypeOK
  <2>8. ZeroUnlessFound'
    BY <2>6 DEF ZeroUnlessFound
  <2> QED BY <2>7, <2>8
<1> QED BY <1>1, <1>2 DEF DrawNext

\* The value a call hands out is below the bound; it is 0 when none was drawn.
THEOREM DrawTyped == DrawSpec => []DrawTypeOK
<1> QED BY InitTyped, NextTyped, PTL DEF DrawSpec

THEOREM DrawZeroUnlessFound == DrawSpec => []ZeroUnlessFound
<1> QED BY InitTyped, NextTyped, PTL DEF DrawSpec

\* Every value below the bound is equally likely.
THEOREM DrawUnbiased == DrawSpec => []Unbiased
<1>1. DrawTypeOK => Unbiased
  BY BoundUnbiased, DrawAssumption DEF DrawTypeOK, Unbiased
<1> QED BY <1>1, InitTyped, NextTyped, PTL DEF DrawSpec

\* A single draw misses with a probability of at most a half.
THEOREM DrawLikely == DrawSpec => []MostWordsAccepted
<1>1. DrawTypeOK => MostWordsAccepted
  BY LimitIsMultiple, DrawAssumption DEF DrawTypeOK, MostWordsAccepted
<1> QED BY <1>1, InitTyped, NextTyped, PTL DEF DrawSpec

\* The first accepted word stands.
THEOREM DrawStands == DrawSpec => FirstAcceptedKept
<1>1. [DrawNext]_drawVars => [found => found' /\ result' = result]_drawVars
  <2> SUFFICES ASSUME NEW u \in 0 .. RandomWord - 1, Draw(u), found
               PROVE  found' /\ result' = result
    BY DEF DrawNext, drawVars
  <2> QED BY DEF Draw, Selected, Takes
<1> QED BY <1>1, PTL DEF DrawSpec, FirstAcceptedKept

-----------------------------------------------------------------------------
(* The weighted pick. *)

\* The inductive invariant: the interval brackets the answer, and is no wider
\* than halving allows.
PickInv ==
  /\ PickTypeOK
  /\ Bracketed
  /\ HasWeight(layer) => hi - lo <= Span[step]

LEMMA LayerType ==
  ASSUME NEW l \in Layers
  PROVE  l.tFilter \in 0 .. Word - 1 /\ l.tMax \in 0 .. Word - 1
  BY PickAssumption

LEMMA StepsAndSpans ==
  /\ Word \in Nat /\ Word >= 2 /\ Steps \in Nat
  /\ \A i \in 0 .. Steps : Span[i] \in Nat
  /\ \A i \in 0 .. Steps - 1 : Span[i + 1] = Span[i] \div 2
<1>1. Word \in Nat /\ Word >= 2 /\ Steps \in Nat /\ \A i \in 0 .. Steps : Span[i] \in Nat
  BY PickAssumption
<1>2. ASSUME NEW i \in 0 .. Steps - 1 PROVE Span[i + 1] = Span[i] \div 2
  <2> DEFINE x == Span[i]
             y == Span[i + 1]
  <2>1. i + 1 \in 0 .. Steps
    BY <1>1, SMT
  <2>2. y \in Nat /\ x = 2 * y + 1
    BY <1>1, <2>1, PickAssumption
  <2> HIDE DEF x, y
  <2>3. y = x \div 2
    BY <2>2, SMT
  <2> QED
    BY <2>3 DEF x, y
<1> QED
  BY <1>1, <1>2

\* Each candidate adds one to the weight at least, whatever the layer.
LEMMA WeightType ==
  ASSUME NEW l \in Layers, NEW t \in Nat
  PROVE  /\ Terms(l, t) \in Nat /\ PrefixWeight(l, t) \in Nat
         /\ PrefixWeight(l, t) >= Terms(l, t)
<1> DEFINE f == l.tFilter
           end == IF t > l.tMax THEN l.tMax ELSE t
           k == Terms(l, t)
<1>1. f \in 0 .. Word - 1 /\ l.tMax \in 0 .. Word - 1 /\ l.ePrime \in Nat
      /\ Word \in Nat /\ Word >= 2
  BY PickAssumption
<1>2. end \in Int /\ f \in Int
  BY <1>1, SMT
<1>3. k = IF t >= f THEN (end - f + 1) % Word ELSE 0
  BY DEF Terms
<1> HIDE DEF end, f, k
<1>4. k \in Nat
  BY <1>1, <1>2, <1>3, SMT
<1> DEFINE x == SumOfFloors(k, 171, 9, l.ePrime)
<1>5. x \in Nat
  <2>1. 171 \in Nat \ {0} /\ 9 \in Nat
    BY SMT
  <2> QED
    BY <1>1, <1>4, <2>1, SumSteps
<1>6. PrefixWeight(l, t) = x + k
  BY DEF PrefixWeight, k
<1> HIDE DEF x
<1>7. x + k \in Nat /\ x + k >= k
  BY <1>4, <1>5, SMT
<1> QED
  BY <1>4, <1>6, <1>7 DEF k

LEMMA InitPickInv == PickInit => PickInv
<1> SUFFICES ASSUME PickInit PROVE PickInv
  OBVIOUS
<1>1. layer \in Layers /\ lo = layer.tFilter /\ hi = layer.tMax /\ step = 0
  BY DEF PickInit
<1>2. lo \in 0 .. Word - 1 /\ hi \in 0 .. Word - 1
  BY <1>1, LayerType
<1>3. r \in Nat
  <2>1. r \in {0} \/ r \in 0 .. TotalWeight(layer) - 1
    BY DEF PickInit, Drawn
  <2> DEFINE total == TotalWeight(layer)
  <2> HIDE DEF total
  <2>2. r \in 0 .. total - 1 => r \in Nat
    BY SMT
  <2> QED BY <2>1, <2>2 DEF total
<1>4. step \in 0 .. Steps
  BY <1>1, StepsAndSpans, SMT
<1>5. PickTypeOK
  BY <1>1, <1>2, <1>3, <1>4 DEF PickTypeOK
<1>6. ASSUME HasWeight(layer)
      PROVE  lo <= hi /\ r < PrefixWeight(layer, hi)
  <2> DEFINE total == TotalWeight(layer)
  <2>1. lo <= hi /\ total > 0
    BY <1>1, <1>6 DEF HasWeight
  <2>2. total \in Nat
    <3>1. layer.tMax \in Nat
      BY <1>1, <1>2, StepsAndSpans, SMT
    <3> QED BY <1>1, <3>1, WeightType DEF TotalWeight
  <2>3. r \in Drawn(total)
    BY DEF PickInit
  <2>4. PrefixWeight(layer, hi) = total
    BY <1>1 DEF TotalWeight
  <2> HIDE DEF total
  <2>5. r < total
    BY <2>1, <2>2, <2>3, SMT DEF Drawn
  <2> QED BY <2>1, <2>4, <2>5
<1>7. Bracketed
  <2>1. layer.tFilter <= lo /\ hi <= layer.tMax
    BY <1>1, <1>2, StepsAndSpans, SMT
  <2> QED BY <1>1, <1>6, <2>1 DEF Bracketed
<1>8. hi - lo <= Span[step]
  <2>1. Span[step] \in Nat /\ Span[step] >= Word - 1
    BY <1>1, <1>4, StepsAndSpans, PickAssumption
  <2> QED BY <1>2, <2>1, StepsAndSpans, SMT
<1> QED BY <1>5, <1>7, <1>8 DEF PickInv

\* The middle of an interval that is not inverted lies in it, does not wrap,
\* and leaves less than half of the interval on either side.
LEMMA MidIsInside ==
  ASSUME NEW x \in 0 .. Word - 1, NEW y \in 0 .. Word - 1, x <= y
  PROVE  LET mid == Mid(x, y) IN
         /\ mid \in x .. y
         /\ mid - x <= (y - x) \div 2
         /\ y - (mid + 1) <= (y - x) \div 2
<1> DEFINE len == y - x
           h   == len \div 2
<1>1. Word \in Nat /\ Word >= 2
  BY StepsAndSpans
<1>2. len \in Nat /\ len < Word
  BY <1>1, SMT
<1>3. len % Word = len
  BY <1>1, <1>2, SMT
<1> HIDE DEF len
<1>4. h \in Nat /\ 2 * h <= len /\ len <= 2 * h + 1
  BY <1>2, SMT
<1> HIDE DEF h
<1>5. x + h \in x .. y /\ x + h < Word /\ y - (x + h + 1) <= h /\ x + h \in Nat
  BY <1>1, <1>4, SMT DEF len
<1>6. Mid(x, y) = (x + h) % Word
  BY <1>3 DEF Mid, len, h
<1>7. (x + h) % Word = x + h
  BY <1>1, <1>5, SMT
<1>8. (x + h) - x = h
  BY <1>4, SMT
<1> QED BY <1>5, <1>6, <1>7, <1>8, SMT DEF len, h

\* The middle of any two ends is a word.
LEMMA MidInWord ==
  ASSUME NEW x \in 0 .. Word - 1, NEW y \in 0 .. Word - 1
  PROVE  Mid(x, y) \in 0 .. Word - 1
<1> DEFINE z == x + ((y - x) % Word) \div 2
<1>1. Word \in Nat /\ Word >= 2
  BY PickAssumption
<1>2. z \in Int
  BY <1>1, SMT
<1>3. Mid(x, y) = z % Word
  BY DEF Mid
<1> HIDE DEF z
<1> QED
  BY <1>1, <1>2, <1>3, SMT

LEMMA NextPickInv == PickInv /\ [PickNext]_pickVars => PickInv'
<1> SUFFICES ASSUME PickInv, [PickNext]_pickVars PROVE PickInv'
  OBVIOUS
<1>1. CASE UNCHANGED pickVars
  BY <1>1 DEF pickVars, PickInv, PickTypeOK, Bracketed
<1>2. CASE Search
  <2> DEFINE mid  == Mid(lo, hi)
             less == PrefixWeight(layer, mid) <= r
  <2>1. /\ step < Steps /\ step' = step + 1 /\ layer' = layer /\ r' = r
        /\ less => lo' = (mid + 1) % Word /\ hi' = hi
        /\ ~less => lo' = lo /\ hi' = mid
    BY <1>2 DEF Search, Narrow, Searching, Below
  <2>2. Word \in Nat /\ Word >= 2 /\ Steps \in Nat
        /\ lo \in 0 .. Word - 1 /\ hi \in 0 .. Word - 1 /\ step \in 0 .. Steps
    BY StepsAndSpans DEF PickInv, PickTypeOK
  <2>3. mid \in 0 .. Word - 1 /\ (mid + 1) % Word \in 0 .. Word - 1
    <3> DEFINE z == lo + ((hi - lo) % Word) \div 2
    <3>1. z \in Int
      BY <2>2, SMT
    <3>2. mid = z % Word
      BY DEF Mid
    <3> HIDE DEF z, mid
    <3> QED BY <2>2, <3>1, <3>2, SMT
  <2>4. step' \in 0 .. Steps /\ step \in 0 .. Steps - 1
    BY <2>1, <2>2, SMT
  <2>5. PickTypeOK'
    <3> HIDE DEF mid, less
    <3> QED BY <2>1, <2>2, <2>3, <2>4 DEF PickInv, PickTypeOK
  <2>6. ASSUME HasWeight(layer)
        PROVE  /\ layer.tFilter <= lo' /\ lo' <= hi' /\ hi' <= layer.tMax
               /\ lo' = layer.tFilter \/ PrefixWeight(layer, lo' - 1) <= r
               /\ r < PrefixWeight(layer, hi')
               /\ hi' - lo' <= Span[step']
    <3>1. /\ layer.tFilter <= lo /\ lo <= hi /\ hi <= layer.tMax
          /\ lo = layer.tFilter \/ PrefixWeight(layer, lo - 1) <= r
          /\ r < PrefixWeight(layer, hi)
          /\ hi - lo <= Span[step]
      BY <2>6 DEF PickInv, Bracketed
    <3>2. layer.tFilter \in 0 .. Word - 1 /\ layer.tMax \in 0 .. Word - 1
      BY LayerType DEF PickInv, PickTypeOK
    <3>3. /\ mid \in lo .. hi
          /\ mid - lo <= (hi - lo) \div 2
          /\ hi - (mid + 1) <= (hi - lo) \div 2
      BY <2>2, <3>1, MidIsInside
    <3>4. /\ Span[step'] = Span[step] \div 2
          /\ Span[step] \in Nat
      BY <2>1, <2>2, <2>4, StepsAndSpans
    <3> DEFINE len == hi - lo
               sp  == Span[step]
    <3>5. len \div 2 <= sp \div 2
      <4>1. len \in Int /\ sp \in Int /\ len <= sp
        BY <2>2, <3>1, <3>4, SMT
      <4> HIDE DEF len, sp
      <4> QED BY <4>1, SMT
    <3>6. len \div 2 \in Int /\ sp \div 2 \in Int
      BY <2>2, <3>4, SMT
    <3>7. CASE less
      <4>1. mid # hi
        <5>1. SUFFICES ASSUME mid = hi PROVE FALSE
          OBVIOUS
        <5>2. hi \in Nat
          BY <2>2, SMT
        <5> DEFINE weight == PrefixWeight(layer, hi)
        <5>3. weight \in Nat
          BY <5>2, WeightType DEF PickInv, PickTypeOK
        <5>4. weight <= r /\ r < weight /\ r \in Nat
          BY <3>1, <3>7, <5>1 DEF PickInv, PickTypeOK
        <5> HIDE DEF weight
        <5> QED BY <5>3, <5>4, SMT
      <4> HIDE DEF mid
      <4>2. mid + 1 \in Nat /\ mid + 1 <= hi /\ mid + 1 < Word /\ lo <= mid + 1
        BY <2>2, <2>3, <3>3, <4>1, SMT
      <4>3. lo' = mid + 1 /\ hi' = hi
        <5>1. (mid + 1) % Word = mid + 1
          BY <2>2, <4>2, SMT
        <5> QED BY <2>1, <3>7, <5>1
      <4>4. lo' - 1 = mid
        BY <2>3, <4>3, SMT
      <4>5. PrefixWeight(layer, lo' - 1) <= r
        BY <3>7, <4>4
      <4>6. layer.tFilter <= lo' /\ lo' <= hi'
        BY <2>2, <3>1, <3>2, <4>2, <4>3, SMT
      <4>7. hi' - lo' <= Span[step']
        <5> HIDE DEF len, sp
        <5>1. hi - (mid + 1) <= len \div 2 /\ Span[step'] = sp \div 2
          BY <3>3, <3>4 DEF len, sp
        <5>2. hi - (mid + 1) \in Int
          BY <2>2, <4>2, SMT
        <5>3. hi - (mid + 1) <= sp \div 2
          BY <3>5, <3>6, <5>1, <5>2, SMT
        <5> QED BY <4>3, <5>1, <5>3
      <4> QED BY <3>1, <4>3, <4>5, <4>6, <4>7
    <3>8. CASE ~less
      <4>1. lo' = lo /\ hi' = mid
        BY <2>1, <3>8
      <4>2. r < PrefixWeight(layer, mid)
        <5>1. mid \in Nat
          <6> HIDE DEF mid
          <6> QED BY <2>2, <2>3, SMT
        <5> DEFINE weight == PrefixWeight(layer, mid)
        <5>2. weight \in Nat /\ r \in Nat
          BY <5>1, WeightType DEF PickInv, PickTypeOK
        <5>3. ~(weight <= r)
          BY <3>8
        <5> HIDE DEF weight
        <5>4. r < weight
          BY <5>2, <5>3, SMT
        <5> QED BY <5>4 DEF weight
      <4> HIDE DEF mid, less
      <4>3. lo <= mid /\ mid <= layer.tMax
        BY <2>2, <2>3, <3>1, <3>2, <3>3, SMT
      <4>4. hi' - lo' <= Span[step']
        <5> HIDE DEF len, sp
        <5>1. mid - lo <= len \div 2 /\ Span[step'] = sp \div 2
          BY <3>3, <3>4 DEF len, sp
        <5>2. mid - lo \in Int
          BY <2>2, <2>3, SMT
        <5>3. mid - lo <= sp \div 2
          BY <3>5, <3>6, <5>1, <5>2, SMT
        <5> QED BY <4>1, <5>1, <5>3
      <4> QED BY <3>1, <4>1, <4>2, <4>3, <4>4
    <3> QED BY <3>7, <3>8
  <2>7. Bracketed' /\ (HasWeight(layer') => hi' - lo' <= Span[step'])
    BY <2>1, <2>6 DEF Bracketed
  <2> QED BY <2>5, <2>7 DEF PickInv
<1> QED BY <1>1, <1>2 DEF PickNext

\* Neither end of the interval leaves the word, in empty layers either.
THEOREM PickTyped == PickSpec => []PickTypeOK
<1>1. PickInv => PickTypeOK
  BY DEF PickInv
<1> QED BY <1>1, InitPickInv, NextPickInv, PTL DEF PickSpec

\* The interval brackets the answer throughout.
THEOREM PickBracketed == PickSpec => []Bracketed
<1>1. PickInv => Bracketed
  BY DEF PickInv
<1> QED BY <1>1, InitPickInv, NextPickInv, PTL DEF PickSpec

\* An interval of one candidate is the slice.
LEMMA PickedSlice == PickInv => PickHasItsSlice
<1> SUFFICES ASSUME PickInv, step = Steps, HasWeight(layer) PROVE InSlice(layer, lo)
  BY DEF PickHasItsSlice
<1>1. /\ layer.tFilter <= lo /\ lo <= hi /\ hi <= layer.tMax
      /\ lo = layer.tFilter \/ PrefixWeight(layer, lo - 1) <= r
      /\ r < PrefixWeight(layer, hi)
      /\ hi - lo <= 0
  BY PickAssumption DEF PickInv, Bracketed
<1>2. lo = hi
  <2>1. lo \in 0 .. Word - 1 /\ hi \in 0 .. Word - 1
    BY DEF PickInv, PickTypeOK
  <2> QED BY <1>1, <2>1, StepsAndSpans, SMT
<1> QED BY <1>1, <1>2 DEF InSlice

\* The pick ends on the candidate whose slice of the weight was drawn.
THEOREM PickCorrect == PickSpec => []PickHasItsSlice
BY PickedSlice, InitPickInv, NextPickInv, PTL DEF PickSpec

-----------------------------------------------------------------------------
(* Layers without weight. *)

\* A layer without weight has no candidate, and a search for nothing; one step
\* weighs nothing if the filter is just beyond the last candidate, and otherwise
\* the count of candidates wraps to a large one.
LEMMA EmptyLayer ==
  ASSUME NEW l \in Layers, ~HasWeight(l)
  PROVE  /\ l.tFilter > l.tMax /\ TotalWeight(l) = 0
         /\ \A t \in Nat : l.tFilter = l.tMax + 1 => PrefixWeight(l, t) = 0
         /\ \A t \in Nat : l.tFilter # l.tMax + 1 /\ t >= l.tFilter => PrefixWeight(l, t) > 0
<1> DEFINE f == l.tFilter
           g == l.tMax
<1>1. f \in Nat /\ g \in Nat /\ Word \in Nat /\ Word >= 2 /\ f + g + 1 < Word /\ l.ePrime \in Nat
  <2>1. f \in 0 .. Word - 1 /\ g \in 0 .. Word - 1 /\ Word \in Nat /\ Word >= 2
        /\ f + g + 1 < Word /\ l.ePrime \in Nat
    BY PickAssumption
  <2> HIDE DEF f, g
  <2> QED
    BY <2>1, SMT
<1>2. ASSUME NEW t \in Nat
      PROVE  /\ Terms(l, t) = IF t >= f THEN ((IF t > g THEN g ELSE t) - f + 1) % Word ELSE 0
             /\ PrefixWeight(l, t) \in Nat /\ Terms(l, t) \in Nat
             /\ PrefixWeight(l, t) >= Terms(l, t)
  BY WeightType DEF Terms
<1>3. ASSUME NEW t \in Nat, Terms(l, t) = 0
      PROVE  PrefixWeight(l, t) = 0
  <2>1. 171 \in Nat \ {0} /\ 9 \in Nat
    BY SMT
  <2>2. l.ePrime \in Nat
    BY <1>1
  <2>3. SumOfFloors(0, 171, 9, l.ePrime) = 0
    <3> DEFINE mod   == 171
               slope == 9
               base  == l.ePrime
    <3>1. mod \in Nat \ {0} /\ slope \in Nat /\ base \in Nat
      BY <2>1, <2>2
    <3> HIDE DEF mod, slope, base
    <3>2. SumOfFloors(0, mod, slope, base) = 0
      BY <3>1, SumSteps
    <3> QED
      BY <3>2 DEF mod, slope, base
  <2> QED
    BY <1>3, <2>3 DEF PrefixWeight
<1>4. TotalWeight(l) = PrefixWeight(l, g)
  BY DEF TotalWeight
<1>5. f > g
  <2> SUFFICES ASSUME f <= g PROVE FALSE
    BY <1>1, SMT
  <2> DEFINE k == Terms(l, g)
             weight == PrefixWeight(l, g)
  <2>1. k = ((IF g > g THEN g ELSE g) - f + 1) % Word /\ weight \in Nat /\ k \in Nat /\ weight >= k
    <3>1. g \in Nat /\ g >= f
      BY <1>1, SMT
    <3> QED
      BY <1>2, <3>1
  <2>2. ~(weight > 0)
    BY <1>4 DEF HasWeight
  <2> HIDE DEF f, g, k, weight
  <2>3. g - f + 1 \in Nat /\ g - f + 1 < Word /\ g - f + 1 >= 1
    BY <1>1, SMT
  <2>4. k = g - f + 1
    BY <1>1, <2>1, <2>3, SMT
  <2> QED
    BY <2>1, <2>2, <2>3, <2>4, SMT
<1>6. TotalWeight(l) = 0
  <2>1. ~(g >= f) /\ g \in Nat
    BY <1>1, <1>5, SMT
  <2>2. Terms(l, g) = 0
    BY <1>2, <2>1
  <2> QED
    BY <1>3, <1>4, <2>1, <2>2
<1>7. ASSUME NEW t \in Nat, f = g + 1
      PROVE  PrefixWeight(l, t) = 0
  <2> DEFINE k == Terms(l, t)
  <2>1. k = IF t >= f THEN ((IF t > g THEN g ELSE t) - f + 1) % Word ELSE 0
    BY <1>2
  <2> HIDE DEF f, g, k
  <2>2. k = 0
    <3>1. CASE t >= f
      <4>1. t > g /\ g - f + 1 = 0
        BY <1>1, <1>7, <3>1, SMT
      <4>2. k = 0 % Word
        BY <2>1, <3>1, <4>1
      <4> QED
        BY <1>1, <4>2, SMT
    <3>2. CASE ~(t >= f)
      BY <2>1, <3>2
    <3> QED
      BY <3>1, <3>2
  <2> QED
    BY <1>3, <2>2 DEF k
<1>8. ASSUME NEW t \in Nat, f # g + 1, t >= f
      PROVE  PrefixWeight(l, t) > 0
  <2> DEFINE k == Terms(l, t)
             weight == PrefixWeight(l, t)
  <2>1. k = ((IF t > g THEN g ELSE t) - f + 1) % Word /\ weight \in Nat /\ k \in Nat /\ weight >= k
    BY <1>2, <1>8
  <2> HIDE DEF f, g, k, weight
  <2>2. t > g /\ g - f + 1 \in Int /\ g - f + 1 < 0 /\ g - f + 1 + Word > 0 /\ g - f + 1 + Word < Word
    BY <1>1, <1>5, <1>8, SMT
  <2>3. k = g - f + 1 + Word
    <3> DEFINE v == g - f + 1 + Word
    <3>1. v \in Nat /\ v < Word /\ g - f + 1 = Word * (-1) + v /\ -1 \in Int
      BY <1>1, <2>2, SMT
    <3>2. k = (g - f + 1) % Word
      BY <2>1, <2>2
    <3> HIDE DEF v
    <3>3. (Word * (-1) + v) % Word = v
      BY <1>1, <3>1, ModUnique, SMT
    <3> QED
      BY <3>1, <3>2, <3>3 DEF v
  <2>4. weight > 0
    BY <1>1, <2>1, <2>2, <2>3, SMT
  <2> QED
    BY <2>4 DEF weight
<1> QED
  BY <1>5, <1>6, <1>7, <1>8

\* The search in such a layer: with nothing to weigh it moves lo up to hi over the
\* whole word; otherwise the middle is beyond the filter from the first step on, and
\* lo stays there.
EmptyInv ==
  ~HasWeight(layer) =>
    /\ r = 0
    /\ layer.tFilter = layer.tMax + 1 => hi = layer.tMax /\ (hi - lo) % Word = Span[step]
    /\ layer.tFilter # layer.tMax + 1 =>
         /\ lo = layer.tFilter
         /\ \/ step = 0 /\ hi = layer.tMax
            \/ step > 0 /\ hi >= lo

LEMMA InitEmpty == PickInit => EmptyInv
<1> SUFFICES ASSUME PickInit, ~HasWeight(layer) PROVE EmptyInv
  BY DEF EmptyInv
<1>1. layer \in Layers /\ lo = layer.tFilter /\ hi = layer.tMax /\ step = 0
  BY DEF PickInit
<1>2. r = 0
  BY <1>1, EmptyLayer DEF PickInit, Drawn
<1>3. ASSUME layer.tFilter = layer.tMax + 1
      PROVE  (hi - lo) % Word = Span[0]
  <2>1. layer.tMax \in 0 .. Word - 1
    BY <1>1, LayerType
  <2>2. Word \in Nat \ {0} /\ Word - 1 \in Nat /\ Word - 1 < Word /\ -1 \in Int
    BY StepsAndSpans, SMT
  <2>3. hi - lo = Word * (-1) + (Word - 1)
    BY <1>1, <1>3, <2>1, <2>2, SMT
  <2>4. (Word * (-1) + (Word - 1)) % Word = Word - 1
    BY <2>2, ModUnique
  <2> QED
    BY <2>3, <2>4, PickAssumption
<1> QED
  BY <1>1, <1>2, <1>3 DEF EmptyInv

LEMMA NextEmpty == PickInv /\ EmptyInv /\ [PickNext]_pickVars => EmptyInv'
<1> SUFFICES ASSUME PickInv, EmptyInv, [PickNext]_pickVars, ~HasWeight(layer') PROVE EmptyInv'
  BY DEF EmptyInv
<1>1. CASE UNCHANGED pickVars
  BY <1>1 DEF pickVars, EmptyInv
<1>2. CASE Search
  <2> DEFINE mid  == Mid(lo, hi)
             less == PrefixWeight(layer, mid) <= r
             f    == layer.tFilter
             g    == layer.tMax
  <2>1. /\ step < Steps /\ step' = step + 1 /\ layer' = layer /\ r' = r
        /\ less => lo' = (mid + 1) % Word /\ hi' = hi
        /\ ~less => lo' = lo /\ hi' = mid
    BY <1>2 DEF Search, Narrow, Searching, Below
  <2>2. /\ Word \in Nat \ {0} /\ Word >= 2 /\ Steps \in Nat /\ layer \in Layers
        /\ lo \in 0 .. Word - 1 /\ hi \in 0 .. Word - 1 /\ step \in 0 .. Steps - 1
    BY <2>1, StepsAndSpans, SMT DEF PickInv, PickTypeOK
  <2>3. mid \in Nat
    <3>1. mid \in 0 .. Word - 1
      BY <2>2, MidInWord
    <3> HIDE DEF mid
    <3> QED
      BY <2>2, <3>1, SMT
  <2>4. ~HasWeight(layer) /\ r = 0
    BY <2>1 DEF EmptyInv
  <2>5. f \in Nat /\ g \in Nat /\ f > g /\ f + g + 1 < Word
    <3>1. f > g /\ f \in 0 .. Word - 1 /\ g \in 0 .. Word - 1 /\ f + g + 1 < Word
      BY <2>2, <2>4, EmptyLayer, PickAssumption
    <3> HIDE DEF f, g
    <3> QED
      BY <2>2, <3>1, SMT
  <2>6. CASE f = g + 1
    <3>1. less
      <4>1. PrefixWeight(layer, mid) = 0
        BY <2>2, <2>3, <2>4, <2>6, EmptyLayer
      <4> HIDE DEF mid
      <4> QED
        BY <2>4, <4>1, SMT
    <3>2. lo' = (mid + 1) % Word /\ hi' = hi /\ hi = g /\ (hi - lo) % Word = Span[step]
      BY <2>1, <2>4, <2>6, <3>1 DEF EmptyInv
    <3> DEFINE s == Span[step + 1]
               d == (hi - lo) % Word
    <3>3. s \in Nat /\ d = 2 * s + 1
      <4>1. step + 1 \in 0 .. Steps
        BY <2>2, SMT
      <4> QED
        BY <2>2, <3>2, <4>1, PickAssumption
    <3>4. d < Word /\ d \div 2 = s
      <4>1. d < Word
        BY <2>2, SMT
      <4> HIDE DEF d, s
      <4> QED
        BY <3>3, <4>1, SMT
    <3>5. mid = (lo + s) % Word
      BY <3>4 DEF Mid
    <3> DEFINE q1 == (hi - lo) \div Word
               q2 == (lo + s) \div Word
               q3 == (mid + 1) \div Word
               y  == (mid + 1) % Word
    <3>6. q1 \in Int /\ hi - lo = Word * q1 + d
      BY <2>2, Divided
    <3>7. q2 \in Int /\ lo + s = Word * q2 + mid
      <4> HIDE DEF s, mid
      <4>1. lo + s \in Int
        BY <2>2, <3>3, SMT
      <4> QED
        BY <2>2, <3>5, <4>1, Divided
    <3>8. q3 \in Int /\ mid + 1 = Word * q3 + y /\ y \in Int
      <4>1. mid + 1 \in Int
        BY <2>3
      <4> HIDE DEF mid
      <4>2. y \in 0 .. Word - 1 /\ q3 \in Int /\ mid + 1 = Word * q3 + y
        BY <2>2, <4>1, Divided
      <4> HIDE DEF y, q3
      <4> QED
        BY <2>2, <4>2, SMT
    <3> HIDE DEF q1, q2, q3, y, d, s, mid
    <3>9. hi - y = Word * (q1 + q2 + q3) + s
      BY <2>2, <2>3, <3>3, <3>6, <3>7, <3>8, SMT
    <3>10. s < Word /\ q1 + q2 + q3 \in Int
      BY <2>2, <3>3, <3>4, <3>6, <3>7, <3>8, SMT
    <3>11. (hi - y) % Word = s
      BY <2>2, <3>3, <3>9, <3>10, ModUnique
    <3>12. lo' = y /\ hi' = g
      BY <3>2 DEF y
    <3>13. (hi' - lo') % Word = Span[step']
      BY <2>1, <3>2, <3>11, <3>12 DEF s
    <3> QED
      BY <2>1, <2>4, <2>6, <3>12, <3>13 DEF EmptyInv
  <2>7. CASE f # g + 1
    <3>1. lo = f /\ ((step = 0 /\ hi = g) \/ (step > 0 /\ hi >= lo))
      BY <2>4, <2>7 DEF EmptyInv
    <3>2. mid >= f
      <4>1. CASE step = 0 /\ hi = g
        <5> DEFINE v == g - f + Word
                   h == v \div 2
        <5> HIDE DEF f, g
        <5>1. v \in Nat /\ v < Word /\ g - f = Word * (-1) + v /\ -1 \in Int
          BY <2>2, <2>5, SMT
        <5>2. (g - f) % Word = v
          <6> HIDE DEF v
          <6> QED
            BY <2>2, <5>1, ModUnique
        <5>3. mid = (f + h) % Word
          BY <3>1, <4>1, <5>2 DEF Mid
        <5>4. h \in Nat /\ 2 * h <= v
          <6> HIDE DEF v
          <6> QED
            BY <5>1, SMT
        <5> HIDE DEF h
        <5>5. f + h \in Nat /\ f + h < Word /\ f + h >= f
          BY <2>2, <2>5, <5>4, SMT
        <5> HIDE DEF v, mid
        <5>6. mid = f + h
          BY <2>2, <5>3, <5>5, SMT
        <5> QED
          BY <5>5, <5>6
      <4>2. CASE step > 0 /\ hi >= lo
        <5>1. lo <= hi
          BY <2>2, <4>2, SMT
        <5>2. mid \in lo .. hi
          BY <2>2, <5>1, MidIsInside
        <5> HIDE DEF mid, f
        <5> QED
          BY <2>2, <2>5, <3>1, <5>2, SMT
      <4> QED
        BY <3>1, <4>1, <4>2
    <3>3. ~less
      <4> DEFINE weight == PrefixWeight(layer, mid)
      <4>1. weight > 0 /\ weight \in Nat
        BY <2>2, <2>3, <2>4, <2>7, <3>2, EmptyLayer, WeightType
      <4>2. less <=> weight <= 0
        BY <2>4
      <4> HIDE DEF weight, less
      <4> QED
        BY <4>1, <4>2, SMT
    <3>4. lo' = f /\ hi' = mid
      BY <2>1, <3>1, <3>3
    <3>5. step' > 0
      BY <2>1, <2>2, SMT
    <3> QED
      BY <2>1, <2>4, <2>7, <3>2, <3>4, <3>5 DEF EmptyInv
  <2> QED
    BY <2>6, <2>7
<1> QED
  BY <1>1, <1>2 DEF PickNext

LEMMA EmptyEnds == PickInv /\ EmptyInv => EmptyLayerEndsOnAnEnd
<1> SUFFICES ASSUME PickInv, EmptyInv, step = Steps, ~HasWeight(layer)
             PROVE  lo = IF layer.tFilter = layer.tMax + 1 THEN layer.tMax ELSE layer.tFilter
  BY DEF EmptyLayerEndsOnAnEnd
<1>1. CASE layer.tFilter # layer.tMax + 1
  BY <1>1 DEF EmptyInv
<1>2. CASE layer.tFilter = layer.tMax + 1
  <2>1. hi = layer.tMax /\ (hi - lo) % Word = 0
    BY <1>2, PickAssumption DEF EmptyInv
  <2>2. lo \in 0 .. Word - 1 /\ hi \in 0 .. Word - 1 /\ Word \in Nat \ {0}
    BY StepsAndSpans, SMT DEF PickInv, PickTypeOK
  <2> DEFINE q == (hi - lo) \div Word
             v == (hi - lo) % Word
  <2>3. q \in Int /\ hi - lo = Word * q + v
    BY <2>2, Divided
  <2>4. v = 0
    BY <2>1
  <2> HIDE DEF q, v
  <2>5. q < 1 /\ q > -1
    <3>1. q >= 1 => Word * q >= Word
      BY <2>2, <2>3, SMT
    <3>2. q <= -1 => Word * q <= -Word
      BY <2>2, <2>3, SMT
    <3> QED
      BY <2>2, <2>3, <2>4, <3>1, <3>2, SMT
  <2>6. q = 0
    BY <2>3, <2>5, SMT
  <2>7. hi = lo
    BY <2>2, <2>3, <2>4, <2>6, SMT
  <2> QED
    BY <1>2, <2>1, <2>7
<1> QED
  BY <1>1, <1>2

\* The search in a layer without weight ends on one of the two ends.
THEOREM EmptyCorrect == PickSpec => []EmptyLayerEndsOnAnEnd
BY InitPickInv, NextPickInv, InitEmpty, NextEmpty, EmptyEnds, PTL DEF PickSpec

-----------------------------------------------------------------------------
(* The composition. *)

\* Where the three loops hand over to each other, and what they hand over: the bound
\* of the draw is the weight of the layer, and each step of the search is asked with
\* the weight of its middle.
DrawsInv ==
  /\ CallInv
  /\ phase \in {"weigh", "draw", "search"}
  /\ layer \in Layers
  /\ phase = "weigh" => result = 0 /\ call = SumCall(layer.tMax)
  /\ phase # "weigh" => bound = TotalWeight(layer) /\ bound \in Nat
  /\ phase = "draw" => result \in Drawn(bound)
  /\ phase # "search" => lo = layer.tFilter /\ hi = layer.tMax /\ step = 0
  /\ phase = "search" => /\ PickInv /\ EmptyInv
                         /\ step < Steps => call = SumCall(Mid(lo, hi))

\* The weight of a layer grows from one candidate to the next.
LEMMA WeightGrows ==
  ASSUME NEW l \in Layers, NEW t \in l.tFilter .. l.tMax
  PROVE  PrefixWeight(l, t) <= TotalWeight(l)
<1> DEFINE f == l.tFilter
           g == l.tMax
           s(k) == SumOfFloors(k, 171, 9, l.ePrime)
<1>1. f \in Nat /\ g \in Nat /\ Word \in Nat /\ f + g + 1 < Word /\ l.ePrime \in Nat
      /\ t \in Nat /\ f <= t /\ t <= g
  <2>1. f \in 0 .. Word - 1 /\ g \in 0 .. Word - 1 /\ Word \in Nat /\ Word >= 2
        /\ f + g + 1 < Word /\ l.ePrime \in Nat
    BY PickAssumption
  <2>2. t \in f .. g
    OBVIOUS
  <2> HIDE DEF f, g
  <2> QED
    BY <2>1, <2>2, SMT
<1>2. ASSUME NEW u \in Nat, f <= u, u <= g
      PROVE  Terms(l, u) = u - f + 1 /\ u - f + 1 \in Nat
  <2>1. Terms(l, u) = IF u >= f THEN ((IF u > g THEN g ELSE u) - f + 1) % Word ELSE 0
    BY DEF Terms
  <2> DEFINE k == Terms(l, u)
  <2> HIDE DEF f, g, k
  <2>2. u >= f /\ ~(u > g) /\ u - f + 1 \in Nat /\ u - f + 1 < Word
    BY <1>1, <1>2, SMT
  <2>3. k = (u - f + 1) % Word
    BY <2>1, <2>2 DEF k
  <2>4. k = u - f + 1
    BY <1>1, <2>2, <2>3, SMT
  <2> QED
    BY <2>2, <2>4 DEF k
<1> DEFINE k == t - f + 1
           j == g - f + 1
<1>3. PrefixWeight(l, t) = s(k) + k /\ k \in Nat
  BY <1>1, <1>2 DEF PrefixWeight
<1>4. TotalWeight(l) = s(j) + j /\ j \in Nat
  <2>1. g <= g /\ f <= g
    BY <1>1, SMT
  <2> QED
    BY <1>1, <1>2, <2>1 DEF PrefixWeight, TotalWeight
<1> HIDE DEF f, g
<1>5. j = k + (g - t) /\ g - t \in Nat
  BY <1>1, SMT
<1>6. s(k) <= s(j) /\ s(k) \in Nat /\ s(j) \in Nat
  <2> DEFINE mod   == 171
             slope == 9
             base  == l.ePrime
  <2>1. mod \in Nat \ {0} /\ slope \in Nat /\ base \in Nat
    BY <1>1, SMT
  <2>2. k \in Nat /\ j \in Nat
    BY <1>3, <1>4
  <2> HIDE DEF mod, slope, base, k, j
  <2>3. SumOfFloors(k, mod, slope, base) <= SumOfFloors(j, mod, slope, base)
    BY <1>5, <2>1, <2>2, SumGrows
  <2>4. SumOfFloors(k, mod, slope, base) \in Nat /\ SumOfFloors(j, mod, slope, base) \in Nat
    BY <2>1, <2>2, SumSteps
  <2> QED
    BY <2>3, <2>4 DEF mod, slope, base
<1> HIDE DEF s
<1>7. s(k) + k <= s(j) + j
  <2>1. k <= j /\ k \in Nat /\ j \in Nat
    BY <1>3, <1>4, <1>5, <1>1, SMT
  <2> HIDE DEF k, j
  <2> QED
    BY <1>6, <2>1, SMT
<1> QED
  BY <1>3, <1>4, <1>7

\* A word of two values or more is not down to one value at once.
LEMMA StepsNotZero == Steps # 0
<1> SUFFICES ASSUME Steps = 0 PROVE FALSE
  OBVIOUS
<1>1. Word - 1 = 0 /\ Word \in Nat /\ Word >= 2
  BY PickAssumption
<1> QED
  BY <1>1, SMT

\* The arguments of prefix_weight_ct's call are words, m = 171 and a = 9.
LEMMA SumCallType ==
  ASSUME layer \in Layers, NEW t \in 0 .. Word - 1
  PROVE  SumCall(t) \in Args /\ SumCall(t).m = 171 /\ SumCall(t).a = 9
<1> DEFINE k == Terms(layer, t)
<1>1. /\ layer.tFilter \in 0 .. Word - 1 /\ layer.tMax \in 0 .. Word - 1 /\ layer.ePrime \in Nat
      /\ Word \in Nat /\ Word >= 2
      /\ ArgWord \in Nat /\ 171 < ArgWord /\ Word <= ArgWord /\ layer.ePrime < ArgWord
  BY PickAssumption, LayerDrawAssumption, FloorSumAssumption
<1>2. k \in Arg
  <2> DEFINE f == layer.tFilter
             end == IF t > layer.tMax THEN layer.tMax ELSE t
  <2>1. end \in Int /\ f \in Int
    BY <1>1, SMT
  <2>2. k = IF t >= f THEN (end - f + 1) % Word ELSE 0
    BY DEF Terms
  <2> HIDE DEF end, f, k
  <2>3. 0 \in Arg /\ \A x \in 0 .. Word - 1 : x \in Arg
    BY <1>1, SMT DEF Arg
  <2>4. end - f + 1 \in Int /\ Word \in Nat \ {0}
    BY <1>1, <2>1, SMT
  <2>5. (end - f + 1) % Word \in 0 .. Word - 1
    BY <2>4, Divided
  <2> QED
    BY <2>2, <2>3, <2>5
<1>3. 171 \in Arg /\ 9 \in Arg /\ layer.ePrime \in Arg
  BY <1>1, SMT DEF Arg
<1> HIDE DEF k
<1>4. SumCall(t) = [n |-> k, m |-> 171, a |-> 9, b |-> layer.ePrime]
  BY DEF SumCall, k
<1> QED
  BY <1>2, <1>3, <1>4 DEF Args

\* A call that starts with such arguments satisfies the invariant of the calls.
Started ==
  /\ call \in Args /\ call.m = 171 /\ call.a = 9
  /\ n = call.n /\ m = call.m /\ a = call.a /\ b = call.b
  /\ ans = 0 /\ done = FALSE /\ iteration = 0

LEMMA StartedSum == Started => CallInv
<1> SUFFICES ASSUME Started PROVE CallInv
  OBVIOUS
<1>1. 0 \in 0 .. Iterations /\ 0 \in 0 .. SumWord - 1 /\ ~(0 = 1) /\ ~(0 >= 2)
  BY FloorSumAssumption, SumWordType, SMT
<1>2. m >= 1
  BY SMT DEF Started
<1>3. SumInv
  BY <1>1, <1>2 DEF SumInv, SumTypeOK, NeverDividesByZero, Args, Started
<1>4. Euclid
  BY <1>1 DEF Euclid, Started
<1> QED
  BY <1>3, <1>4, InitLosesNothing DEF CallInv, Started

\* Once a sum is complete, what it adds up to is the weight that was asked for.
LEMMA WeightIsPrefix ==
  ASSUME CallInv, ~Iterating, NEW t, call = SumCall(t)
  PROVE  Weight = PrefixWeight(layer, t)
<1>1. iteration = Iterations
  BY FloorSumAssumption, SMT DEF CallInv, SumInv, SumTypeOK, Iterating
<1>2. ans + 0 = SumOfFloors(call.n, call.m, call.a, call.b) /\ ans \in Nat
  <2>1. SumIsPreserved
    BY CallReturnsSum
  <2>2. ans \in Nat
    BY SumWordType, SMT DEF CallInv, SumInv, SumTypeOK
  <2> QED
    BY <1>1, <2>1, <2>2 DEF SumIsPreserved, NothingIsLost
<1>3. ans = SumOfFloors(Terms(layer, t), 171, 9, layer.ePrime)
  <2> DEFINE s == SumOfFloors(call.n, call.m, call.a, call.b)
  <2>1. ans = s
    <3>1. ans + 0 = s /\ ans \in Nat
      BY <1>2
    <3> HIDE DEF s
    <3> QED
      BY <3>1, SMT
  <2> QED
    BY <2>1 DEF SumCall
<1> QED
  BY <1>3 DEF Weight, PrefixWeight, SumCall

\* A new call starts in the invariant of the sum.
LEMMA StartedCall ==
  ASSUME layer \in Layers, NEW t \in 0 .. Word - 1, Weigh(t)
  PROVE  CallInv' /\ call' = SumCall(t)
<1>1. call' = SumCall(t) /\ call' \in Args /\ call'.m = 171 /\ call'.a = 9
  BY SumCallType DEF Weigh
<1>2. /\ n' = call'.n /\ m' = call'.m /\ a' = call'.a /\ b' = call'.b
      /\ ans' = 0 /\ done' = FALSE /\ iteration' = 0
  BY DEF Weigh
<1>3. Started'
  BY <1>1, <1>2 DEF Started, Args
<1> QED
  BY <1>1, <1>3, StartedSum, PTL

LEMMA InitDraws == Init => DrawsInv
<1> SUFFICES ASSUME Init PROVE DrawsInv
  OBVIOUS
<1>1. layer \in Layers /\ layer.tMax \in 0 .. Word - 1
  BY LayerType DEF Init
<1>2. SumCall(layer.tMax) \in Args /\ SumCall(layer.tMax).m = 171 /\ SumCall(layer.tMax).a = 9
  BY <1>1, SumCallType
<1> DEFINE c == SumCall(layer.tMax)
<1>3. StartsWith(c)
  BY DEF Init
<1>4. call = c
  <2> HIDE DEF c
  <2>1. call = [c EXCEPT !.m = 171] /\ c \in [n : Arg, m : Arg, a : Arg, b : Arg] /\ c.m = 171
    <3>1. c.m = 171 /\ c \in [n : Arg, m : Arg, a : Arg, b : Arg]
      BY <1>2 DEF Args, c
    <3>2. (IF c.m < 1 THEN 1 ELSE c.m) = 171
      BY <3>1, SMT
    <3> QED
      BY <1>3, <3>1, <3>2 DEF StartsWith
  <2> QED
    BY <2>1
<1>5. /\ n = c.n /\ m = call.m /\ a = c.a /\ b = c.b /\ ans = 0 /\ done = FALSE /\ iteration = 0
  BY <1>3 DEF StartsWith
<1> HIDE DEF c
<1>6. CallInv
  BY <1>2, <1>4, <1>5, StartedSum DEF c, Started
<1> QED
  BY <1>1, <1>4, <1>6 DEF Init, DrawsInv, c

LEMMA NextDraws == DrawsInv /\ [Next]_vars => DrawsInv'
<1> SUFFICES ASSUME DrawsInv, [Next]_vars PROVE DrawsInv'
  OBVIOUS
<1>1. CASE UNCHANGED vars
  <2>1. UNCHANGED sumVars /\ UNCHANGED pickVars /\ UNCHANGED <<phase, bound, result>>
    BY <1>1 DEF vars, drawVars
  <2>2. CallInv'
    BY <2>1, NextCallInv DEF DrawsInv
  <2>3. phase = "search" => PickInv' /\ EmptyInv'
    BY <2>1, NextPickInv, NextEmpty DEF DrawsInv
  <2> QED
    BY <2>1, <2>2, <2>3 DEF DrawsInv, sumVars, pickVars, SumCall
<1>2. CASE SumUp
  <2>1. SumNext /\ call' = call /\ UNCHANGED pickVars /\ UNCHANGED <<phase, bound, result>>
    BY <1>2 DEF SumUp, SumNext, drawVars
  <2>2. CallInv'
    BY <2>1, NextCallInv DEF DrawsInv
  <2>3. phase = "search" => PickInv' /\ EmptyInv'
    BY <2>1, NextPickInv, NextEmpty DEF DrawsInv
  <2> QED
    BY <2>1, <2>2, <2>3 DEF DrawsInv, pickVars, SumCall
<1>3. CASE TakeTotal
  <2>1. /\ phase = "weigh" /\ ~Iterating /\ phase' = "draw" /\ bound' = Weight
        /\ UNCHANGED <<result>> /\ UNCHANGED sumVars /\ UNCHANGED pickVars
    BY <1>3 DEF TakeTotal
  <2>2. Weight = TotalWeight(layer)
    BY <2>1, WeightIsPrefix DEF DrawsInv, TotalWeight
  <2>3. CallInv'
    BY <2>1, NextCallInv DEF DrawsInv
  <2>4. Weight \in Nat
    <3>1. ans \in Nat /\ call.n \in Nat
      BY SumWordType, SMT DEF DrawsInv, CallInv, SumInv, SumTypeOK, Args, Arg
    <3> QED
      BY <3>1, SMT DEF Weight
  <2>5. result = 0
    BY <2>1 DEF DrawsInv
  <2> QED
    BY <2>1, <2>2, <2>3, <2>4, <2>5 DEF DrawsInv, pickVars, SumCall, Drawn
<1>4. CASE DrawWord
  <2>1. /\ phase = "draw" /\ DrawNext
        /\ UNCHANGED phase /\ UNCHANGED sumVars /\ UNCHANGED pickVars
    BY <1>4 DEF DrawWord
  <2>2. CallInv'
    BY <2>1, NextCallInv DEF DrawsInv
  <2>3. PICK w \in 0 .. RandomWord - 1 : Draw(w)
    BY <2>1 DEF DrawNext
  <2>4. bound' = bound /\ bound \in Nat /\ result \in Drawn(bound)
        /\ result' \in {result, w % SafeBound(bound)}
    BY <2>1, <2>3 DEF Draw, Selected, Reduce, DrawsInv
  <2>5. w % SafeBound(bound) \in Drawn(bound)
    <3>1. w \in Nat
      BY DrawAssumption, SMT
    <3> QED
      BY <2>4, <3>1, SMT DEF SafeBound, Drawn
  <2> QED
    BY <2>1, <2>2, <2>4, <2>5 DEF DrawsInv, pickVars, SumCall
<1>5. CASE TakeDrawn
  <2>1. /\ phase = "draw" /\ phase' = "search" /\ r' = result
        /\ layer' = layer /\ lo' = lo /\ hi' = hi /\ step' = step /\ bound' = bound
    BY <1>5 DEF TakeDrawn, drawVars
  <2>2. PickInit'
    BY <2>1 DEF DrawsInv, PickInit
  <2>3. PickInv' /\ EmptyInv'
    BY <2>2, InitPickInv, InitEmpty, PTL
  <2>4. Mid(lo, hi) \in 0 .. Word - 1
    BY <2>1, LayerType, MidInWord DEF DrawsInv
  <2>5. CallInv' /\ call' = SumCall(Mid(lo, hi))
    BY <1>5, <2>4, StartedCall DEF TakeDrawn, DrawsInv
  <2>6. SumCall(Mid(lo, hi)) = SumCall(Mid(lo, hi))'
    BY <2>1 DEF SumCall, Mid
  <2> QED
    BY <2>1, <2>3, <2>5, <2>6 DEF DrawsInv
<1>6. CASE SearchStep
  <2>1. /\ phase = "search" /\ phase' = "search" /\ ~Iterating /\ Narrow(Weight)
        /\ layer' = layer /\ bound' = bound
        /\ IF step' < Steps THEN Weigh(Mid(lo', hi')) ELSE UNCHANGED sumVars
    BY <1>6 DEF SearchStep, Narrow, drawVars
  <2>2. step < Steps
    BY <2>1 DEF Narrow, Searching
  <2>3. Weight = PrefixWeight(layer, Mid(lo, hi))
    BY <2>1, <2>2, WeightIsPrefix DEF DrawsInv
  <2>4. PickInv' /\ EmptyInv'
    BY <2>1, <2>3, NextPickInv, NextEmpty DEF DrawsInv, PickNext, Search
  <2>5. CASE step' < Steps
    <3>1. Mid(lo', hi') \in 0 .. Word - 1
      BY <2>4, MidInWord DEF PickInv, PickTypeOK
    <3>2. CallInv' /\ call' = SumCall(Mid(lo', hi'))
      BY <2>1, <2>5, <3>1, StartedCall DEF DrawsInv
    <3>3. SumCall(Mid(lo', hi')) = SumCall(Mid(lo, hi))'
      BY <2>1 DEF SumCall, Mid
    <3> QED
      BY <2>1, <2>4, <3>2, <3>3 DEF DrawsInv
  <2>6. CASE ~(step' < Steps)
    <3>1. CallInv'
      BY <2>1, <2>6, NextCallInv DEF DrawsInv
    <3> QED
      BY <2>1, <2>4, <2>6, <3>1 DEF DrawsInv
  <2> QED
    BY <2>5, <2>6
<1> QED
  BY <1>1, <1>2, <1>3, <1>4, <1>5, <1>6 DEF Next

\* The three loops together, for every layer and word size, end on the candidate
\* whose slice of the weight was drawn.
THEOREM ComposedPick == Spec => []PickHasItsSlice
<1>1. DrawsInv => PickHasItsSlice
  <2>1. Steps # 0
    BY StepsNotZero
  <2>2. DrawsInv /\ step = Steps => PickInv
    BY <2>1 DEF DrawsInv
  <2> QED
    BY <2>2, PickedSlice DEF PickHasItsSlice
<1> QED
  BY <1>1, InitDraws, NextDraws, PTL DEF Spec

\* The sums of the composition are complete when they are used, and right.
THEOREM ComposedSums == Spec => []SumIsPreserved
<1>1. DrawsInv => SumIsPreserved
  BY CallReturnsSum DEF DrawsInv
<1> QED
  BY <1>1, InitDraws, NextDraws, PTL DEF Spec

\* In a layer without weight they end on one of its two ends.
THEOREM ComposedEmpty == Spec => []EmptyLayerEndsOnAnEnd
<1>1. DrawsInv => EmptyLayerEndsOnAnEnd
  <2>1. DrawsInv /\ step = Steps => PickInv /\ EmptyInv
    BY StepsNotZero DEF DrawsInv
  <2> QED
    BY <2>1, EmptyEnds DEF EmptyLayerEndsOnAnEnd
<1> QED
  BY <1>1, InitDraws, NextDraws, PTL DEF Spec

\* Of the accepted words, each unit of weight has as many, and the ones of a
\* candidate's slice are those that the search ends on it for.
LEMMA PickedByWeight == DrawsInv => PickIsWeighted
<1> SUFFICES ASSUME DrawsInv, step = Steps, HasWeight(layer)
             PROVE  LET before == IF lo = layer.tFilter THEN 0 ELSE PrefixWeight(layer, lo - 1)
                        upTo   == PrefixWeight(layer, lo)
                        share  == Limit(bound) \div TotalWeight(layer)
                    IN  /\ r \in before .. upTo - 1
                        /\ share > 0
                        /\ Cardinality(WordsWithin(before, upTo)) = share * (upTo - before)
  BY DEF PickIsWeighted
<1> DEFINE before == IF lo = layer.tFilter THEN 0 ELSE PrefixWeight(layer, lo - 1)
           upTo   == PrefixWeight(layer, lo)
           total  == TotalWeight(layer)
           share  == Limit(bound) \div total
<1>1. PickInv /\ bound = total /\ bound \in Nat /\ layer \in Layers
  BY StepsNotZero DEF DrawsInv
<1>2. InSlice(layer, lo)
  BY <1>1, PickedSlice DEF PickHasItsSlice
<1>3. r \in Nat /\ lo \in 0 .. Word - 1 /\ layer.tFilter \in 0 .. Word - 1 /\ layer.tMax \in 0 .. Word - 1
  BY <1>1, LayerType DEF PickInv, PickTypeOK
<1>4. before \in Nat /\ before <= r
  <2>1. CASE lo = layer.tFilter
    BY <1>3, <2>1, SMT
  <2>2. CASE lo # layer.tFilter
    <3>1. lo - 1 \in Nat
      BY <1>2, <1>3, <2>2, StepsAndSpans, SMT DEF InSlice
    <3> QED
      BY <1>1, <1>2, <2>2, <3>1, WeightType DEF InSlice
  <2> QED
    BY <2>1, <2>2
<1>5. upTo \in Nat /\ r < upTo /\ upTo <= total
  <2>1. lo \in layer.tFilter .. layer.tMax /\ lo \in Nat
    BY <1>2, <1>3, StepsAndSpans, SMT DEF InSlice
  <2> QED
    BY <1>1, <1>2, <2>1, WeightType, WeightGrows DEF InSlice
<1>6. total \in Nat \ {0} /\ total \in 0 .. RandomWord - 1
  <2>1. total > 0 /\ total \in Nat /\ total < RandomWord /\ RandomWord \in Nat
    BY <1>1, DrawAssumption, LayerDrawAssumption DEF HasWeight
  <2> HIDE DEF total
  <2> QED
    BY <2>1, SMT
<1>7. SafeBound(bound) = total
  BY <1>1, <1>6 DEF SafeBound
<1> DEFINE limit == Limit(bound)
<1>8. PICK q \in Nat : limit = total * q
  BY <1>1, <1>6, <1>7, LimitIsMultiple
<1>9. limit \in 0 .. RandomWord - 1 /\ 2 * limit >= RandomWord - 1
  BY <1>1, <1>6, LimitIsMultiple
<1>10. RandomWord \in Nat /\ RandomWord >= 2
  BY DrawAssumption
<1> HIDE DEF before, upTo, total, limit
<1>11. share = q
  <2>1. 0 \in Nat /\ 0 < total /\ q \in Int /\ total * q + 0 = total * q
    BY <1>6, SMT
  <2>2. (total * q + 0) \div total = q
    BY <1>6, <2>1, DivUnique
  <2> QED
    BY <1>8, <2>1, <2>2 DEF limit
<1>12. q > 0
  <2> SUFFICES ASSUME q = 0 PROVE FALSE
    BY SMT
  <2>1. limit = 0
    BY <1>6, <1>8, SMT
  <2> QED
    BY <1>9, <1>10, <2>1, SMT
<1>13. r \in before .. upTo - 1 /\ before <= upTo
  BY <1>3, <1>4, <1>5, <1>6, SMT
<1>14. WordsWithin(before, upTo) = {w \in 0 .. RandomWord - 1 : w < total * q /\ w % total \in before .. upTo - 1}
  BY <1>7, <1>8 DEF WordsWithin, Accept, Reduce, limit
<1>15. total * q <= RandomWord
  BY <1>8, <1>9, <1>10, SMT
<1>16. Cardinality(WordsWithin(before, upTo)) = q * (upTo - before)
  <2>1. /\ q \in Nat /\ total \in Nat \ {0} /\ total * q <= RandomWord
        /\ before \in Nat /\ upTo \in Nat /\ before <= upTo /\ upTo <= total
    BY <1>4, <1>5, <1>6, <1>13, <1>15
  <2>2. Cardinality({w \in 0 .. RandomWord - 1 : w < total * q /\ w % total \in before .. upTo - 1})
          = q * (upTo - before)
    BY <2>1, WordsOfResidues
  <2> QED
    BY <1>14, <2>2
<1> HIDE DEF share
<1>17. r \in before .. upTo - 1 /\ share > 0
       /\ Cardinality(WordsWithin(before, upTo)) = share * (upTo - before)
  BY <1>11, <1>12, <1>13, <1>16
<1> QED
  BY <1>17 DEF before, upTo, share, total

\* A candidate is picked with a probability proportional to its weight, for every
\* layer and word size.
THEOREM ComposedWeights == Spec => []PickIsWeighted
BY PickedByWeight, InitDraws, NextDraws, PTL DEF Spec
=============================================================================
