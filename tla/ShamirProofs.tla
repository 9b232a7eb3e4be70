---------------------------- MODULE ShamirProofs ----------------------------
(***************************************************************************)
(* Theorems about module Shamir.  GF256 is a field; interpolation at 0     *)
(* gives the constant of any polynomial with fewer coefficients than there *)
(* are points; so enough shares recover the secret, and one share of two   *)
(* says nothing about it.                                                  *)
(***************************************************************************)
EXTENDS Shamir, SequenceTheorems, WellFoundedInduction, TLAPS

-----------------------------------------------------------------------------
(* Induction and recursion. *)

\* A set of numbers that has one has a least one.
LEMMA Least ==
  ASSUME NEW N \in SUBSET Nat, N # {}
  PROVE  \E k \in N : \A i \in N : k <= i
<1> DEFINE R == OpToRel(<, Nat)
<1>1. R = {p \in Nat \X Nat : p[1] < p[2]}
  BY DEF OpToRel
<1>2. IsWellFoundedOn(R, Nat)
  BY NatLessThanWellFounded
<1> HIDE DEF R
<1>3. PICK k \in N : \A i \in N : <<i, k>> \notin R
  BY <1>2, WFMin
<1>4. \A i \in N : ~(i < k)
  BY <1>1, <1>3
<1> QED
  BY <1>4, SMT

\* Induction up to n, on the set of the numbers that have the property.
LEMMA Upwards ==
  ASSUME NEW n \in Nat, NEW N, 0 \in N, \A i \in 1 .. n : i - 1 \in N => i \in N
  PROVE  \A i \in 0 .. n : i \in N
<1> DEFINE M == {i \in 0 .. n : i \notin N}
<1> SUFFICES ASSUME M # {} PROVE FALSE
  OBVIOUS
<1>1. M \in SUBSET Nat
  BY SMT
<1> HIDE DEF M
<1>2. PICK k \in M : \A i \in M : k <= i
  BY <1>1, Least
<1>3. k \in 0 .. n /\ k \notin N
  BY DEF M
<1>4. k \in 1 .. n /\ k - 1 \in 0 .. n /\ ~(k <= k - 1)
  BY <1>3, SMT
<1>5. k - 1 \in N
  BY <1>2, <1>4 DEF M
<1> QED
  BY <1>3, <1>4, <1>5

\* A function on 0 .. n with a first value and a step.
Recursive(f, S, n, c, step) ==
  f \in [0 .. n -> S] /\ f[0] = c /\ \A i \in 1 .. n : f[i] = step[i][f[i - 1]]

\* There is always one.
LEMMA Recursion ==
  ASSUME NEW S, NEW n \in Nat, NEW c \in S, NEW step \in [1 .. n -> [S -> S]]
  PROVE  \E f : Recursive(f, S, n, c, step)
<1> DEFINE Upto(f, k) == f \in [0 .. k -> S] /\ f[0] = c /\ \A i \in 1 .. k : f[i] = step[i][f[i - 1]]
           N == {k \in 0 .. n : \E f : Upto(f, k)}
<1>1. 0 \in N
  <2>1. Upto([i \in 0 .. 0 |-> c], 0)
    BY SMT
  <2> HIDE DEF Upto
  <2> QED
    BY <2>1, SMT
<1>2. ASSUME NEW k \in 1 .. n, k - 1 \in N PROVE k \in N
  <2>1. PICK f : Upto(f, k - 1)
    BY <1>2
  <2> DEFINE g == [i \in 0 .. k |-> IF i = k THEN step[k][f[k - 1]] ELSE f[i]]
  <2>2. k - 1 \in 0 .. k - 1 /\ k \in 0 .. n /\ k \in Nat /\ \A i \in 0 .. k : i = k \/ i \in 0 .. k - 1
    BY SMT
  <2>3. f[k - 1] \in S /\ step[k] \in [S -> S]
    BY <2>1, <2>2
  <2>4. step[k][f[k - 1]] \in S
    BY <2>3
  <2>5. g \in [0 .. k -> S]
    BY <2>1, <2>2, <2>4
  <2>6. g[0] = c
    BY <2>1, SMT
  <2>7. \A i \in 1 .. k : g[i] = step[i][g[i - 1]]
    <3> TAKE i \in 1 .. k
    <3>1. i - 1 \in 0 .. k /\ i - 1 # k /\ i \in 0 .. k /\ (i # k => i \in 1 .. k - 1)
      BY SMT
    <3>2. g[i - 1] = f[i - 1]
      BY <3>1
    <3>3. CASE i = k
      BY <3>1, <3>2, <3>3
    <3>4. CASE i # k
      BY <2>1, <3>1, <3>2, <3>4
    <3> QED
      BY <3>3, <3>4
  <2> HIDE DEF g
  <2>8. Upto(g, k)
    BY <2>5, <2>6, <2>7
  <2> HIDE DEF Upto
  <2> QED
    BY <2>2, <2>8
<1> HIDE DEF N
<1>3. n \in N
  <2>1. \A i \in 0 .. n : i \in N
    BY <1>1, <1>2, Upwards
  <2> QED
    BY <2>1, SMT
<1> QED
  BY <1>3 DEF N, Recursive

-----------------------------------------------------------------------------
(* XOR. *)

\* Bytes with XOR are a group in which everything is its own inverse.
LEMMA Xor ==
  /\ \A a, b \in Bytes : GfAdd(a, b) \in Bytes
  /\ \A a, b : GfAdd(a, b) = GfAdd(b, a)
  /\ \A a : GfAdd(a, Zero8) = a /\ GfAdd(Zero8, a) = a /\ GfAdd(a, a) = Zero8
  /\ Zero8 \in Bytes /\ One8 \in Bytes /\ One8 # Zero8
<1>1. \A a, b \in Bytes : GfAdd(a, b) \in Bytes
  BY DEF GfAdd, Bytes
<1>2. \A a, b : GfAdd(a, b) = GfAdd(b, a)
  BY DEF GfAdd
<1>3. \A a : GfAdd(a, Zero8) = a /\ GfAdd(Zero8, a) = a /\ GfAdd(a, a) = Zero8
  BY DEF GfAdd, Zero8
<1>4. Zero8 \in Bytes /\ One8 \in Bytes /\ One8 # Zero8
  BY SMT DEF Zero8, One8, Bytes, Bits
<1> QED
  BY <1>1, <1>2, <1>3, <1>4

\* ... which is associative.
LEMMA XorAssoc == \A a, b, c : GfAdd(GfAdd(a, b), c) = GfAdd(a, GfAdd(b, c))
<1> SUFFICES ASSUME NEW a, NEW b, NEW c
             PROVE  GfAdd(GfAdd(a, b), c) = GfAdd(a, GfAdd(b, c))
  OBVIOUS
<1>1. ASSUME NEW x PROVE x \in GfAdd(GfAdd(a, b), c) <=> x \in GfAdd(a, GfAdd(b, c))
  BY DEF GfAdd
<1> QED
  BY <1>1, SMT DEF GfAdd

\* Two sums are added term by term, and a term added twice is gone.
LEMMA XorSwap ==
  /\ \A a, b, c, d : GfAdd(GfAdd(a, b), GfAdd(c, d)) = GfAdd(GfAdd(a, c), GfAdd(b, d))
  /\ \A a, b : GfAdd(a, GfAdd(a, b)) = b
  /\ \A a, b : GfAdd(a, b) = Zero8 => a = b
<1>1. ASSUME NEW a, NEW b, NEW c, NEW d
      PROVE  GfAdd(GfAdd(a, b), GfAdd(c, d)) = GfAdd(GfAdd(a, c), GfAdd(b, d))
  <2>1. GfAdd(GfAdd(a, b), GfAdd(c, d)) = GfAdd(a, GfAdd(b, GfAdd(c, d)))
    BY XorAssoc
  <2>2. GfAdd(b, GfAdd(c, d)) = GfAdd(GfAdd(b, c), d)
    BY XorAssoc
  <2>3. GfAdd(GfAdd(b, c), d) = GfAdd(GfAdd(c, b), d)
    BY Xor
  <2>4. GfAdd(GfAdd(c, b), d) = GfAdd(c, GfAdd(b, d))
    BY XorAssoc
  <2>5. GfAdd(GfAdd(a, c), GfAdd(b, d)) = GfAdd(a, GfAdd(c, GfAdd(b, d)))
    BY XorAssoc
  <2> QED
    BY <2>1, <2>2, <2>3, <2>4, <2>5
<1>2. ASSUME NEW a, NEW b PROVE GfAdd(a, GfAdd(a, b)) = b
  BY XorAssoc, Xor
<1>3. ASSUME NEW a, NEW b, GfAdd(a, b) = Zero8 PROVE a = b
  BY <1>2, <1>3, Xor
<1> QED
  BY <1>1, <1>2, <1>3

-----------------------------------------------------------------------------
(* Doubling. *)

\* The bits.
LEMMA BitCases ==
  \A i \in Bits : i = 0 \/ i = 1 \/ i = 2 \/ i = 3 \/ i = 4 \/ i = 5 \/ i = 6 \/ i = 7
BY SMT DEF Bits

\* The bits of the byte of a number.
LEMMA ByteBits ==
  ASSUME NEW n \in Nat
  PROVE  /\ Byte(n) \in Bytes
         /\ 0 \in Byte(n) <=> n % 2 = 1
         /\ 1 \in Byte(n) <=> (n \div 2) % 2 = 1
         /\ 2 \in Byte(n) <=> (n \div 4) % 2 = 1
         /\ 3 \in Byte(n) <=> (n \div 8) % 2 = 1
         /\ 4 \in Byte(n) <=> (n \div 16) % 2 = 1
         /\ 5 \in Byte(n) <=> (n \div 32) % 2 = 1
         /\ 6 \in Byte(n) <=> (n \div 64) % 2 = 1
         /\ 7 \in Byte(n) <=> (n \div 128) % 2 = 1
<1>1. Byte(n) \in Bytes
  BY DEF Byte, Bytes
<1>2. 0 \in Byte(n) <=> n % 2 = 1
  BY SMT DEF Byte, Bits
<1>3. 1 \in Byte(n) <=> (n \div 2) % 2 = 1
  BY SMT DEF Byte, Bits
<1>4. 2 \in Byte(n) <=> (n \div 4) % 2 = 1
  BY SMT DEF Byte, Bits
<1>5. 3 \in Byte(n) <=> (n \div 8) % 2 = 1
  BY SMT DEF Byte, Bits
<1>6. 4 \in Byte(n) <=> (n \div 16) % 2 = 1
  BY SMT DEF Byte, Bits
<1>7. 5 \in Byte(n) <=> (n \div 32) % 2 = 1
  BY SMT DEF Byte, Bits
<1>8. 6 \in Byte(n) <=> (n \div 64) % 2 = 1
  BY SMT DEF Byte, Bits
<1>9. 7 \in Byte(n) <=> (n \div 128) % 2 = 1
  BY SMT DEF Byte, Bits
<1> QED
  BY <1>1, <1>2, <1>3, <1>4, <1>5, <1>6, <1>7, <1>8, <1>9

\* The polynomial, by its bits.
LEMMA PolyBits == AesPoly = {0, 1, 3, 4}
<1>1. /\ 27 \in Nat /\ 27 % 2 = 1 /\ (27 \div 2) % 2 = 1 /\ (27 \div 4) % 2 # 1
      /\ (27 \div 8) % 2 = 1 /\ (27 \div 16) % 2 = 1 /\ (27 \div 32) % 2 # 1
      /\ (27 \div 64) % 2 # 1 /\ (27 \div 128) % 2 # 1
  BY SMT
<1>2. /\ AesPoly \in Bytes /\ 0 \in AesPoly /\ 1 \in AesPoly /\ 2 \notin AesPoly /\ 3 \in AesPoly
      /\ 4 \in AesPoly /\ 5 \notin AesPoly /\ 6 \notin AesPoly /\ 7 \notin AesPoly
  BY <1>1, ByteBits DEF AesPoly
<1>3. \A i \in AesPoly : i \in {0, 1, 3, 4}
  BY <1>2, BitCases DEF Bytes
<1> QED
  BY <1>2, <1>3

\* The bits of a doubled byte.
LEMMA DoubleBits ==
  \A a \in Bytes :
    /\ Double(a) \in Bytes
    /\ 0 \in Double(a) <=> 7 \in a
    /\ 1 \in Double(a) <=> ~(0 \in a <=> 7 \in a)
    /\ 2 \in Double(a) <=> 1 \in a
    /\ 3 \in Double(a) <=> ~(2 \in a <=> 7 \in a)
    /\ 4 \in Double(a) <=> ~(3 \in a <=> 7 \in a)
    /\ 5 \in Double(a) <=> 4 \in a
    /\ 6 \in Double(a) <=> 5 \in a
    /\ 7 \in Double(a) <=> 6 \in a
<1> SUFFICES ASSUME NEW a \in Bytes
             PROVE  /\ Double(a) \in Bytes
                    /\ 0 \in Double(a) <=> 7 \in a
                    /\ 1 \in Double(a) <=> ~(0 \in a <=> 7 \in a)
                    /\ 2 \in Double(a) <=> 1 \in a
                    /\ 3 \in Double(a) <=> ~(2 \in a <=> 7 \in a)
                    /\ 4 \in Double(a) <=> ~(3 \in a <=> 7 \in a)
                    /\ 5 \in Double(a) <=> 4 \in a
                    /\ 6 \in Double(a) <=> 5 \in a
                    /\ 7 \in Double(a) <=> 6 \in a
  OBVIOUS
<1> DEFINE shifted == {i + 1 : i \in a \ {7}}
<1>1. \A k : k \in shifted <=> k \in 1 .. 7 /\ k - 1 \in a
  <2>1. a \subseteq 0 .. 7
    BY DEF Bytes, Bits
  <2> QED
    BY <2>1, SMT
<1>2. /\ 0 \notin shifted /\ (1 \in shifted <=> 0 \in a) /\ (2 \in shifted <=> 1 \in a)
      /\ (3 \in shifted <=> 2 \in a) /\ (4 \in shifted <=> 3 \in a) /\ (5 \in shifted <=> 4 \in a)
      /\ (6 \in shifted <=> 5 \in a) /\ (7 \in shifted <=> 6 \in a)
  BY <1>1, SMT
<1>3. shifted \in Bytes
  BY <1>1, SMT DEF Bytes, Bits
<1>4. Double(a) = IF 7 \in a THEN GfAdd(shifted, AesPoly) ELSE shifted
  BY DEF Double
<1> HIDE DEF shifted
<1>5. {0, 1, 3, 4} \in Bytes
  BY SMT DEF Bytes, Bits
<1>6. CASE 7 \in a
  <2>1. Double(a) = GfAdd(shifted, {0, 1, 3, 4})
    BY <1>4, <1>6, PolyBits
  <2>2. Double(a) \in Bytes
    BY <1>3, <1>5, <2>1, Xor
  <2>3. \A k : k \in Double(a) <=> ~(k \in shifted <=> k \in {0, 1, 3, 4})
    BY <2>1 DEF GfAdd
  <2> QED
    BY <1>2, <1>6, <2>2, <2>3, SMT
<1>7. CASE 7 \notin a
  BY <1>2, <1>3, <1>4, <1>7
<1> QED
  BY <1>6, <1>7

\* Bytes with the same bits are the same byte.
LEMMA SameBits ==
  ASSUME NEW a \in Bytes, NEW b \in Bytes,
         0 \in a <=> 0 \in b, 1 \in a <=> 1 \in b, 2 \in a <=> 2 \in b, 3 \in a <=> 3 \in b,
         4 \in a <=> 4 \in b, 5 \in a <=> 5 \in b, 6 \in a <=> 6 \in b, 7 \in a <=> 7 \in b
  PROVE  a = b
<1>1. \A k \in Bits : k \in a <=> k \in b
  BY BitCases
<1> QED
  BY <1>1 DEF Bytes

\* The bits of a sum.
LEMMA XorBits == \A a, b, k : k \in GfAdd(a, b) <=> ~(k \in a <=> k \in b)
BY DEF GfAdd

\* Doubling is linear.
LEMMA DoubleLinear ==
  /\ Double(Zero8) = Zero8
  /\ \A a, b \in Bytes : Double(GfAdd(a, b)) = GfAdd(Double(a), Double(b))
<1>1. ASSUME NEW a \in Bytes, NEW b \in Bytes
      PROVE  Double(GfAdd(a, b)) = GfAdd(Double(a), Double(b))
  <2>1. GfAdd(a, b) \in Bytes /\ Double(a) \in Bytes /\ Double(b) \in Bytes
        /\ Double(GfAdd(a, b)) \in Bytes /\ GfAdd(Double(a), Double(b)) \in Bytes
    BY Xor, DoubleBits
  <2> DEFINE l == Double(GfAdd(a, b))
             r == GfAdd(Double(a), Double(b))
  <2>2. /\ 0 \in l <=> 0 \in r
        /\ 1 \in l <=> 1 \in r
        /\ 2 \in l <=> 2 \in r
        /\ 3 \in l <=> 3 \in r
        /\ 4 \in l <=> 4 \in r
        /\ 5 \in l <=> 5 \in r
        /\ 6 \in l <=> 6 \in r
        /\ 7 \in l <=> 7 \in r
    BY <2>1, XorBits, DoubleBits
  <2> QED
    BY <2>1, <2>2, SameBits
<1>2. Double(Zero8) = Zero8
  <2>1. Double(Zero8) = GfAdd(Double(Zero8), Double(Zero8))
    BY <1>1, Xor
  <2> QED
    BY <2>1, Xor
<1> QED
  BY <1>1, <1>2

-----------------------------------------------------------------------------
(* Multiplication. *)

\* The a of each round of gf_mul.
LEMMA DoublesAre ==
  ASSUME NEW a \in Bytes
  PROVE  /\ Doubles(a) \in [0 .. 7 -> Bytes] /\ Doubles(a)[0] = a
         /\ \A i \in 1 .. 7 : Doubles(a)[i] = Double(Doubles(a)[i - 1])
<1> DEFINE Body(d) == [i \in 0 .. 7 |-> IF i = 0 THEN a ELSE Double(d[i - 1])]
           step == [i \in 1 .. 7 |-> [x \in Bytes |-> Double(x)]]
<1>1. step \in [1 .. 7 -> [Bytes -> Bytes]]
  BY DoubleBits
<1>2. PICK f : Recursive(f, Bytes, 7, a, step)
  <2>1. 7 \in Nat
    BY SMT
  <2> HIDE DEF step
  <2> QED
    BY <1>1, <2>1, Recursion
<1>3. \A i \in 1 .. 7 : i - 1 \in 0 .. 7 /\ i \in 0 .. 7 /\ i # 0
  BY SMT
<1>4. f \in [0 .. 7 -> Bytes] /\ f[0] = a /\ \A i \in 1 .. 7 : f[i] = Double(f[i - 1])
  BY <1>2, <1>3 DEF Recursive
<1>5. \A i \in 0 .. 7 : i = 0 \/ i \in 1 .. 7
  BY SMT
<1>6. f = Body(f)
  BY <1>4, <1>5
<1>7. Doubles(a) = CHOOSE d : d = Body(d)
  BY DEF Doubles
<1> HIDE DEF Body
<1>8. Doubles(a) = Body(Doubles(a))
  BY <1>6, <1>7
<1> USE DEF Body
<1>9. Doubles(a)[0] = a
  BY <1>8, SMT
<1>10. \A i \in 1 .. 7 : Doubles(a)[i] = Double(Doubles(a)[i - 1])
  BY <1>3, <1>8
<1> HIDE DEF Body
<1> DEFINE N == {i \in 0 .. 7 : Doubles(a)[i] \in Bytes}
<1>11. 0 \in N /\ \A i \in 1 .. 7 : i - 1 \in N => i \in N
  BY <1>3, <1>9, <1>10, DoubleBits, SMT
<1>12. \A i \in 0 .. 7 : i \in N
  <2>1. 7 \in Nat
    BY SMT
  <2> HIDE DEF N
  <2> QED
    BY <1>11, <2>1, Upwards
<1>13. Doubles(a) = [i \in 0 .. 7 |-> Doubles(a)[i]]
  BY <1>8 DEF Body
<1> QED
  BY <1>9, <1>10, <1>12, <1>13

\* The rounds of a product: r holds the results, d what is added where b has a bit.
Rounds(r, b, d) ==
  /\ r \in [0 .. 8 -> Bytes] /\ r[0] = Zero8
  /\ \A i \in 1 .. 8 : r[i] = IF i - 1 \in b THEN GfAdd(r[i - 1], d[i - 1]) ELSE r[i - 1]

\* For any d there are such rounds.
LEMMA RoundsExist ==
  ASSUME NEW b, NEW d \in [0 .. 7 -> Bytes]
  PROVE  \E r : Rounds(r, b, d)
<1> DEFINE step == [i \in 1 .. 8 |-> [x \in Bytes |-> IF i - 1 \in b THEN GfAdd(x, d[i - 1]) ELSE x]]
<1>1. step \in [1 .. 8 -> [Bytes -> Bytes]]
  <2>1. \A i \in 1 .. 8 : d[i - 1] \in Bytes
    BY SMT
  <2> QED
    BY <2>1, Xor
<1>2. PICK r : Recursive(r, Bytes, 8, Zero8, step)
  <2>1. 8 \in Nat
    BY SMT
  <2> HIDE DEF step
  <2> QED
    BY <1>1, <2>1, Recursion, Xor
<1>3. r \in [0 .. 8 -> Bytes] /\ r[0] = Zero8 /\ \A i \in 1 .. 8 : r[i] = step[i][r[i - 1]]
  BY <1>2 DEF Recursive
<1>4. \A i \in 1 .. 8 : r[i - 1] \in Bytes
  BY <1>3, SMT
<1>5. \A i \in 1 .. 8 : r[i] = IF i - 1 \in b THEN GfAdd(r[i - 1], d[i - 1]) ELSE r[i - 1]
  BY <1>3, <1>4
<1> QED
  BY <1>3, <1>5 DEF Rounds

\* A product is the last of its rounds.
LEMMA MulRounds ==
  ASSUME NEW a \in Bytes, NEW b, NEW r, Rounds(r, b, Doubles(a))
  PROVE  GfMul(a, b) = r[8] /\ GfMul(a, b) \in Bytes
<1> DEFINE Body(s) == [i \in 0 .. 8 |-> IF i = 0 THEN Zero8
                                       ELSE IF i - 1 \in b THEN GfAdd(s[i - 1], Doubles(a)[i - 1])
                                       ELSE s[i - 1]]
           q == CHOOSE s : s = Body(s)
<1>1. r = Body(r)
  <2>1. \A i \in 0 .. 8 : i = 0 \/ i \in 1 .. 8
    BY SMT
  <2> QED
    BY <2>1 DEF Rounds
<1>2. GfMul(a, b) = q[8]
  BY DEF GfMul
<1> HIDE DEF Body
<1>3. q = Body(q)
  BY <1>1
<1> HIDE DEF q
<1>4. q[0] = Zero8 /\ \A i \in 1 .. 8 : q[i] = IF i - 1 \in b THEN GfAdd(q[i - 1], Doubles(a)[i - 1])
                                                           ELSE q[i - 1]
  <2>1. 0 \in 0 .. 8 /\ \A i \in 1 .. 8 : i \in 0 .. 8 /\ i # 0
    BY SMT
  <2> QED
    BY <1>3, <2>1 DEF Body
<1> DEFINE N == {i \in 0 .. 8 : r[i] = q[i]}
<1>5. 0 \in N /\ \A i \in 1 .. 8 : i - 1 \in N => i \in N
  BY <1>4, SMT DEF Rounds
<1>6. \A i \in 0 .. 8 : i \in N
  <2>1. 8 \in Nat
    BY SMT
  <2> HIDE DEF N
  <2> QED
    BY <1>5, <2>1, Upwards
<1>7. r[8] = q[8] /\ r[8] \in Bytes
  <2>1. 8 \in 0 .. 8
    BY SMT
  <2> QED
    BY <1>6, <2>1 DEF Rounds
<1> QED
  BY <1>2, <1>7

\* The product is linear in its first factor.
LEMMA MulLinear ==
  ASSUME NEW a \in Bytes, NEW e \in Bytes, NEW b
  PROVE  GfMul(GfAdd(a, e), b) = GfAdd(GfMul(a, b), GfMul(e, b))
<1> DEFINE s == GfAdd(a, e)
           da == Doubles(a)
           de == Doubles(e)
           ds == Doubles(s)
<1>1. s \in Bytes
  BY Xor
<1>2. /\ da \in [0 .. 7 -> Bytes] /\ da[0] = a /\ \A i \in 1 .. 7 : da[i] = Double(da[i - 1])
      /\ de \in [0 .. 7 -> Bytes] /\ de[0] = e /\ \A i \in 1 .. 7 : de[i] = Double(de[i - 1])
      /\ ds \in [0 .. 7 -> Bytes] /\ ds[0] = s /\ \A i \in 1 .. 7 : ds[i] = Double(ds[i - 1])
  BY <1>1, DoublesAre
<1> HIDE DEF da, de, ds
<1>3. \A i \in 0 .. 7 : ds[i] = GfAdd(da[i], de[i])
  <2> DEFINE N == {i \in 0 .. 7 : ds[i] = GfAdd(da[i], de[i])}
  <2>1. 7 \in Nat /\ 0 \in 0 .. 7 /\ \A i \in 1 .. 7 : i \in 0 .. 7 /\ i - 1 \in 0 .. 7
    BY SMT
  <2>2. 0 \in N
    BY <1>2, <2>1
  <2>3. ASSUME NEW i \in 1 .. 7, i - 1 \in N PROVE i \in N
    <3>1. da[i - 1] \in Bytes /\ de[i - 1] \in Bytes /\ ds[i - 1] = GfAdd(da[i - 1], de[i - 1])
      BY <1>2, <2>1, <2>3
    <3>2. ds[i] = GfAdd(da[i], de[i])
      BY <1>2, <3>1, DoubleLinear
    <3> QED
      BY <2>1, <3>2
  <2> HIDE DEF N
  <2>4. \A i \in 0 .. 7 : i \in N
    BY <2>1, <2>2, <2>3, Upwards
  <2> QED
    BY <2>4 DEF N
<1>4. PICK p : Rounds(p, b, da)
  BY <1>2, RoundsExist
<1>5. PICK q : Rounds(q, b, de)
  BY <1>2, RoundsExist
<1> DEFINE r == [i \in 0 .. 8 |-> GfAdd(p[i], q[i])]
<1>6. Rounds(r, b, ds)
  <2>1. \A i \in 1 .. 8 : i \in 0 .. 8 /\ i - 1 \in 0 .. 8 /\ i - 1 \in 0 .. 7
    BY SMT
  <2>2. r \in [0 .. 8 -> Bytes]
    BY <1>4, <1>5, Xor DEF Rounds
  <2>3. r[0] = Zero8
    BY <1>4, <1>5, Xor, SMT DEF Rounds
  <2>4. ASSUME NEW i \in 1 .. 8
        PROVE  r[i] = IF i - 1 \in b THEN GfAdd(r[i - 1], ds[i - 1]) ELSE r[i - 1]
    <3>1. r[i] = GfAdd(p[i], q[i]) /\ r[i - 1] = GfAdd(p[i - 1], q[i - 1])
          /\ ds[i - 1] = GfAdd(da[i - 1], de[i - 1])
      BY <1>3, <2>1
    <3>2. CASE i - 1 \in b
      <4>1. p[i] = GfAdd(p[i - 1], da[i - 1]) /\ q[i] = GfAdd(q[i - 1], de[i - 1])
        BY <1>4, <1>5, <3>2 DEF Rounds
      <4>2. GfAdd(p[i], q[i]) = GfAdd(GfAdd(p[i - 1], q[i - 1]), GfAdd(da[i - 1], de[i - 1]))
        BY <4>1, XorSwap
      <4> QED
        BY <3>1, <3>2, <4>2
    <3>3. CASE i - 1 \notin b
      <4>1. p[i] = p[i - 1] /\ q[i] = q[i - 1]
        BY <1>4, <1>5, <3>3 DEF Rounds
      <4> QED
        BY <3>1, <3>3, <4>1
    <3> QED
      BY <3>2, <3>3
  <2> HIDE DEF r
  <2> QED
    BY <2>2, <2>3, <2>4 DEF Rounds
<1>7. r[8] = GfAdd(p[8], q[8])
  BY SMT
<1> HIDE DEF r
<1>8. GfMul(a, b) = p[8] /\ GfMul(e, b) = q[8] /\ GfMul(s, b) = r[8]
  BY <1>1, <1>4, <1>5, <1>6, MulRounds DEF da, de, ds
<1> QED
  BY <1>7, <1>8

\* Whatever is linear and commutes with doubling commutes with a product.
LEMMA MapMul ==
  ASSUME NEW h \in [Bytes -> Bytes],
         \A x, y \in Bytes : h[GfAdd(x, y)] = GfAdd(h[x], h[y]),
         \A x \in Bytes : h[Double(x)] = Double(h[x]),
         NEW a \in Bytes, NEW b
  PROVE  GfMul(h[a], b) = h[GfMul(a, b)]
<1> DEFINE da == Doubles(a)
           dh == Doubles(h[a])
<1>1. /\ da \in [0 .. 7 -> Bytes] /\ da[0] = a /\ \A i \in 1 .. 7 : da[i] = Double(da[i - 1])
      /\ dh \in [0 .. 7 -> Bytes] /\ dh[0] = h[a] /\ \A i \in 1 .. 7 : dh[i] = Double(dh[i - 1])
  BY DoublesAre
<1> HIDE DEF da, dh
<1>2. \A i \in 0 .. 7 : dh[i] = h[da[i]]
  <2> DEFINE N == {i \in 0 .. 7 : dh[i] = h[da[i]]}
  <2>1. 7 \in Nat /\ 0 \in 0 .. 7 /\ \A i \in 1 .. 7 : i \in 0 .. 7 /\ i - 1 \in 0 .. 7
    BY SMT
  <2>2. 0 \in N
    BY <1>1, <2>1
  <2>3. ASSUME NEW i \in 1 .. 7, i - 1 \in N PROVE i \in N
    BY <1>1, <2>1, <2>3
  <2> HIDE DEF N
  <2>4. \A i \in 0 .. 7 : i \in N
    BY <2>1, <2>2, <2>3, Upwards
  <2> QED
    BY <2>4 DEF N
<1>3. h[Zero8] = Zero8
  <2>1. h[Zero8] = GfAdd(h[Zero8], h[Zero8])
    BY Xor
  <2> QED
    BY <2>1, Xor
<1>4. PICK p : Rounds(p, b, da)
  BY <1>1, RoundsExist
<1> DEFINE r == [i \in 0 .. 8 |-> h[p[i]]]
<1>5. Rounds(r, b, dh)
  <2>1. \A i \in 1 .. 8 : i \in 0 .. 8 /\ i - 1 \in 0 .. 8 /\ i - 1 \in 0 .. 7
    BY SMT
  <2>2. r \in [0 .. 8 -> Bytes]
    BY <1>4 DEF Rounds
  <2>3. r[0] = Zero8
    BY <1>3, <1>4, SMT DEF Rounds
  <2>4. ASSUME NEW i \in 1 .. 8
        PROVE  r[i] = IF i - 1 \in b THEN GfAdd(r[i - 1], dh[i - 1]) ELSE r[i - 1]
    <3>1. r[i] = h[p[i]] /\ r[i - 1] = h[p[i - 1]] /\ dh[i - 1] = h[da[i - 1]]
          /\ da[i - 1] \in Bytes /\ p[i - 1] \in Bytes
      BY <1>1, <1>2, <1>4, <2>1 DEF Rounds
    <3> HIDE DEF r
    <3>2. CASE i - 1 \in b
      <4>1. p[i] = GfAdd(p[i - 1], da[i - 1])
        BY <1>4, <3>2 DEF Rounds
      <4> QED
        BY <3>1, <3>2, <4>1
    <3>3. CASE i - 1 \notin b
      BY <1>4, <3>1, <3>3 DEF Rounds
    <3> QED
      BY <3>2, <3>3
  <2> HIDE DEF r
  <2> QED
    BY <2>2, <2>3, <2>4 DEF Rounds
<1>6. r[8] = h[p[8]]
  BY SMT
<1> HIDE DEF r
<1>7. GfMul(a, b) = p[8] /\ GfMul(h[a], b) = r[8]
  BY <1>4, <1>5, MulRounds DEF da, dh
<1> QED
  BY <1>6, <1>7

\* A product is a byte.
LEMMA MulType == \A a \in Bytes : \A b : GfMul(a, b) \in Bytes
<1> SUFFICES ASSUME NEW a \in Bytes, NEW b PROVE GfMul(a, b) \in Bytes
  OBVIOUS
<1>1. \E r : Rounds(r, b, Doubles(a))
  BY DoublesAre, RoundsExist
<1> QED
  BY <1>1, MulRounds

\* Doubling goes through a product.
LEMMA DoubleMul == \A a \in Bytes : \A b : GfMul(Double(a), b) = Double(GfMul(a, b))
<1> DEFINE double == [x \in Bytes |-> Double(x)]
<1>1. /\ double \in [Bytes -> Bytes]
      /\ \A x, y \in Bytes : double[GfAdd(x, y)] = GfAdd(double[x], double[y])
      /\ \A x \in Bytes : double[Double(x)] = Double(double[x])
  BY DoubleBits, DoubleLinear, Xor
<1>2. \A x \in Bytes : double[x] = Double(x)
  OBVIOUS
<1> HIDE DEF double
<1>3. \A x \in Bytes : \A b : GfMul(double[x], b) = double[GfMul(x, b)]
  BY <1>1, MapMul
<1> QED
  BY <1>2, <1>3, MulType

\* Two factors change places.
LEMMA MulSwap ==
  ASSUME NEW a \in Bytes, NEW b, NEW c
  PROVE  GfMul(GfMul(a, b), c) = GfMul(GfMul(a, c), b)
<1> DEFINE times == [x \in Bytes |-> GfMul(x, b)]
<1>1. \A x \in Bytes : times[x] = GfMul(x, b)
  OBVIOUS
<1>2. times \in [Bytes -> Bytes]
  BY MulType
<1> HIDE DEF times
<1>3. \A x, y \in Bytes : times[GfAdd(x, y)] = GfAdd(times[x], times[y])
  <2> TAKE x, y \in Bytes
  <2>1. GfAdd(x, y) \in Bytes
    BY Xor
  <2>2. GfMul(GfAdd(x, y), b) = GfAdd(GfMul(x, b), GfMul(y, b))
    BY MulLinear
  <2> QED
    BY <1>1, <2>1, <2>2
<1>4. \A x \in Bytes : times[Double(x)] = Double(times[x])
  BY <1>1, DoubleMul, DoubleBits
<1>5. GfMul(times[a], c) = times[GfMul(a, c)]
  BY <1>2, <1>3, <1>4, MapMul
<1> QED
  BY <1>1, <1>5, MulType

\* The doubles of 1 are the bits, and b is the sum of those it has.
LEMMA OneRounds ==
  ASSUME NEW b \in Bytes
  PROVE  /\ \A i \in 0 .. 7 : Doubles(One8)[i] = {i}
         /\ \E r : Rounds(r, b, Doubles(One8)) /\ r[8] = b
<1> DEFINE d == Doubles(One8)
<1>1. d \in [0 .. 7 -> Bytes] /\ d[0] = {0} /\ \A i \in 1 .. 7 : d[i] = Double(d[i - 1])
  BY DoublesAre, Xor DEF One8
<1> HIDE DEF d
<1>2. \A i \in 0 .. 7 : d[i] = {i}
  <2> DEFINE N == {i \in 0 .. 7 : d[i] = {i}}
  <2>1. 7 \in Nat /\ 0 \in 0 .. 7 /\ \A i \in 1 .. 7 : i \in 0 .. 7 /\ i - 1 \in 0 .. 7
    BY SMT
  <2>2. 0 \in N
    BY <1>1, <2>1
  <2>3. ASSUME NEW i \in 1 .. 7, i - 1 \in N PROVE i \in N
    <3>1. d[i] = Double({i - 1})
      BY <1>1, <2>3
    <3>2. 7 # i - 1 /\ (i - 1) + 1 = i
      BY SMT
    <3>3. {j + 1 : j \in {i - 1} \ {7}} = {i}
      BY <3>2
    <3>4. Double({i - 1}) = {i}
      BY <3>2, <3>3 DEF Double
    <3> QED
      BY <2>1, <3>1, <3>4
  <2> HIDE DEF N
  <2>4. \A i \in 0 .. 7 : i \in N
    BY <2>1, <2>2, <2>3, Upwards
  <2> QED
    BY <2>4 DEF N
<1> DEFINE r == [i \in 0 .. 8 |-> {k \in b : k < i}]
<1>3. b \subseteq 0 .. 7
  BY DEF Bytes, Bits
<1>4. Rounds(r, b, d)
  <2>1. \A i \in 1 .. 8 : i \in 0 .. 8 /\ i - 1 \in 0 .. 8 /\ i - 1 \in 0 .. 7
    BY SMT
  <2>2. r \in [0 .. 8 -> Bytes]
    BY DEF Bytes
  <2>3. r[0] = Zero8
    <3>1. r[0] = {k \in b : k < 0}
      BY SMT
    <3>2. \A k \in b : ~(k < 0)
      BY <1>3, SMT
    <3> QED
      BY <3>1, <3>2 DEF Zero8
  <2>4. ASSUME NEW i \in 1 .. 8
        PROVE  r[i] = IF i - 1 \in b THEN GfAdd(r[i - 1], d[i - 1]) ELSE r[i - 1]
    <3>1. r[i] = {k \in b : k < i} /\ r[i - 1] = {k \in b : k < i - 1} /\ d[i - 1] = {i - 1}
      BY <1>2, <2>1
    <3>2. \A k \in b : k < i <=> k < i - 1 \/ k = i - 1
      BY <1>3, SMT
    <3>3. ~(i - 1 < i - 1)
      BY SMT
    <3> HIDE DEF r
    <3>4. CASE i - 1 \in b
      <4>1. \A k : k \in r[i] <=> k \in GfAdd(r[i - 1], d[i - 1])
        BY <3>1, <3>2, <3>3, <3>4 DEF GfAdd
      <4>2. r[i] = GfAdd(r[i - 1], d[i - 1])
        BY <4>1
      <4> QED
        BY <3>4, <4>2
    <3>5. CASE i - 1 \notin b
      <4>1. r[i] = r[i - 1]
        BY <3>1, <3>2, <3>5
      <4> QED
        BY <3>5, <4>1
    <3> QED
      BY <3>4, <3>5
  <2> HIDE DEF r
  <2> QED
    BY <2>2, <2>3, <2>4 DEF Rounds
<1>5. r[8] = b
  <2>1. r[8] = {k \in b : k < 8}
    BY SMT
  <2>2. \A k \in b : k < 8
    BY <1>3, SMT
  <2> QED
    BY <2>1, <2>2
<1> HIDE DEF r
<1> QED
  BY <1>2, <1>4, <1>5 DEF d

\* 1 is neutral.
LEMMA OneMul == \A b \in Bytes : GfMul(One8, b) = b
BY OneRounds, MulRounds, Xor

\* Bytes with this product are a commutative ring.
LEMMA Ring ==
  /\ \A a, b \in Bytes : GfMul(a, b) \in Bytes /\ GfMul(a, b) = GfMul(b, a)
  /\ \A a, b, c \in Bytes : GfMul(GfMul(a, b), c) = GfMul(a, GfMul(b, c))
  /\ \A a, b, c \in Bytes : /\ GfMul(GfAdd(a, b), c) = GfAdd(GfMul(a, c), GfMul(b, c))
                            /\ GfMul(a, GfAdd(b, c)) = GfAdd(GfMul(a, b), GfMul(a, c))
  /\ \A a \in Bytes : /\ GfMul(a, One8) = a /\ GfMul(One8, a) = a
                      /\ GfMul(a, Zero8) = Zero8 /\ GfMul(Zero8, a) = Zero8
<1>1. \A a, b \in Bytes : GfMul(a, b) \in Bytes
  BY MulType
<1>2. ASSUME NEW a \in Bytes, NEW b \in Bytes PROVE GfMul(a, b) = GfMul(b, a)
  <2>1. GfMul(GfMul(One8, a), b) = GfMul(GfMul(One8, b), a)
    BY MulSwap, Xor
  <2> QED
    BY <2>1, OneMul
<1>3. ASSUME NEW a \in Bytes, NEW b \in Bytes, NEW c \in Bytes
      PROVE  GfMul(GfMul(a, b), c) = GfMul(a, GfMul(b, c))
  <2>1. GfMul(GfMul(b, a), c) = GfMul(GfMul(b, c), a)
    BY MulSwap
  <2> QED
    BY <1>1, <1>2, <2>1
<1>4. \A a, b, c \in Bytes : GfMul(GfAdd(a, b), c) = GfAdd(GfMul(a, c), GfMul(b, c))
  BY MulLinear
<1>5. ASSUME NEW a \in Bytes, NEW b \in Bytes, NEW c \in Bytes
      PROVE  GfMul(a, GfAdd(b, c)) = GfAdd(GfMul(a, b), GfMul(a, c))
  <2>1. GfAdd(b, c) \in Bytes
    BY Xor
  <2>2. GfMul(a, GfAdd(b, c)) = GfMul(GfAdd(b, c), a)
    BY <1>2, <2>1
  <2>3. GfMul(GfAdd(b, c), a) = GfAdd(GfMul(b, a), GfMul(c, a))
    BY <1>4
  <2>4. GfMul(b, a) = GfMul(a, b) /\ GfMul(c, a) = GfMul(a, c)
    BY <1>2
  <2> QED
    BY <2>2, <2>3, <2>4
<1>6. ASSUME NEW a \in Bytes
      PROVE  GfMul(a, One8) = a /\ GfMul(One8, a) = a /\ GfMul(a, Zero8) = Zero8 /\ GfMul(Zero8, a) = Zero8
  <2>1. GfMul(One8, a) = a /\ GfMul(a, One8) = a
    BY <1>2, OneMul, Xor
  <2>2. GfMul(Zero8, a) = GfAdd(GfMul(Zero8, a), GfMul(Zero8, a))
    BY <1>4, Xor
  <2>3. GfMul(Zero8, a) = Zero8
    BY <2>2, Xor
  <2> QED
    BY <1>2, <2>1, <2>3, Xor
<1>7. \A a, b \in Bytes : GfMul(a, b) \in Bytes /\ GfMul(a, b) = GfMul(b, a)
  BY <1>1, <1>2
<1>8. \A a, b, c \in Bytes : GfMul(GfMul(a, b), c) = GfMul(a, GfMul(b, c))
  BY <1>3
<1>9. \A a, b, c \in Bytes : /\ GfMul(GfAdd(a, b), c) = GfAdd(GfMul(a, c), GfMul(b, c))
                            /\ GfMul(a, GfAdd(b, c)) = GfAdd(GfMul(a, b), GfMul(a, c))
  BY <1>4, <1>5
<1>10. \A a \in Bytes : /\ GfMul(a, One8) = a /\ GfMul(One8, a) = a
                       /\ GfMul(a, Zero8) = Zero8 /\ GfMul(Zero8, a) = Zero8
  BY <1>6
<1> QED
  BY <1>7, <1>8, <1>9, <1>10

-----------------------------------------------------------------------------
(* Squares and the inverse. *)

Sq(a) == GfMul(a, a)

\* Squaring is linear and multiplicative, and 2 is the byte by which doubling multiplies.
LEMMA SqMap ==
  /\ \A a \in Bytes : Sq(a) \in Bytes /\ Sq(Double(a)) = Double(Double(Sq(a)))
  /\ \A a, b \in Bytes : Sq(GfAdd(a, b)) = GfAdd(Sq(a), Sq(b))
  /\ \A a, b \in Bytes : Sq(GfMul(a, b)) = GfMul(Sq(a), Sq(b))
<1>1. ASSUME NEW a \in Bytes
      PROVE  Sq(a) \in Bytes /\ Sq(Double(a)) = Double(Double(Sq(a)))
  <2>1. Double(a) \in Bytes
    BY DoubleBits
  <2>2. Sq(Double(a)) = Double(GfMul(a, Double(a)))
    BY DoubleMul DEF Sq
  <2>3. GfMul(a, Double(a)) = GfMul(Double(a), a)
    BY <2>1, Ring
  <2>4. GfMul(Double(a), a) = Double(Sq(a))
    BY DoubleMul DEF Sq
  <2> QED
    BY <2>2, <2>3, <2>4, Ring DEF Sq
<1>2. ASSUME NEW a \in Bytes, NEW b \in Bytes
      PROVE  Sq(GfAdd(a, b)) = GfAdd(Sq(a), Sq(b))
  <2> DEFINE s == GfAdd(a, b)
  <2>1. s \in Bytes
    BY Xor
  <2>2. GfMul(s, s) = GfAdd(GfMul(a, s), GfMul(b, s))
    BY <2>1, Ring
  <2>3. GfMul(a, s) = GfAdd(GfMul(a, a), GfMul(a, b)) /\ GfMul(b, s) = GfAdd(GfMul(b, a), GfMul(b, b))
    BY Ring
  <2>4. GfMul(b, a) = GfMul(a, b)
    BY Ring
  <2> HIDE DEF s
  <2>5. GfMul(s, s) = GfAdd(GfAdd(GfMul(a, a), GfMul(a, b)), GfAdd(GfMul(a, b), GfMul(b, b)))
    BY <2>2, <2>3, <2>4
  <2>6. GfAdd(GfAdd(GfMul(a, a), GfMul(a, b)), GfAdd(GfMul(a, b), GfMul(b, b)))
          = GfAdd(GfMul(a, a), GfAdd(GfMul(a, b), GfAdd(GfMul(a, b), GfMul(b, b))))
    BY XorAssoc
  <2> QED
    BY <2>5, <2>6, XorSwap DEF Sq, s
<1>3. ASSUME NEW a \in Bytes, NEW b \in Bytes
      PROVE  Sq(GfMul(a, b)) = GfMul(Sq(a), Sq(b))
  <2> DEFINE p == GfMul(a, b)
  <2>1. p \in Bytes /\ GfMul(a, a) \in Bytes /\ GfMul(b, b) \in Bytes
    BY Ring
  <2>2. GfMul(p, p) = GfMul(a, GfMul(b, p))
    BY <2>1, Ring
  <2>3. GfMul(b, p) = GfMul(b, GfMul(b, a))
    BY Ring
  <2>4. GfMul(b, GfMul(b, a)) = GfMul(GfMul(b, b), a)
    BY Ring
  <2>5. GfMul(GfMul(b, b), a) = GfMul(a, GfMul(b, b))
    BY <2>1, Ring
  <2>6. GfMul(a, GfMul(a, GfMul(b, b))) = GfMul(GfMul(a, a), GfMul(b, b))
    BY <2>1, Ring
  <2> QED
    BY <2>2, <2>3, <2>4, <2>5, <2>6 DEF Sq
<1> QED
  BY <1>1, <1>2, <1>3

\* The squares of the bits.
LEMMA SqOfBits ==
  /\ Sq({0}) = {0} /\ Sq({1}) = {2} /\ Sq({2}) = {4} /\ Sq({3}) = {6}
  /\ Sq({4}) = {0, 1, 3, 4} /\ Sq({5}) = {2, 3, 5, 6} /\ Sq({6}) = {0, 1, 3, 5, 7}
  /\ Sq({7}) = {1, 3, 4, 7}
<1>1. /\ {0} \in Bytes /\ {1} \in Bytes /\ {2} \in Bytes /\ {3} \in Bytes
      /\ {4} \in Bytes /\ {5} \in Bytes /\ {6} \in Bytes /\ {7} \in Bytes
  BY SMT DEF Bytes, Bits
<1>2. /\ {0, 1, 3, 4} \in Bytes /\ {1, 2, 4, 5} \in Bytes /\ {2, 3, 5, 6} \in Bytes
      /\ {3, 4, 6, 7} \in Bytes /\ {0, 1, 3, 5, 7} \in Bytes /\ {0, 2, 3, 6} \in Bytes
      /\ {1, 3, 4, 7} \in Bytes
  BY SMT DEF Bytes, Bits
<1>3. Double({0}) = {1}
  BY <1>1, DoubleBits, SameBits, SMT
<1>4. Double({1}) = {2}
  BY <1>1, DoubleBits, SameBits, SMT
<1>5. Double({2}) = {3}
  BY <1>1, DoubleBits, SameBits, SMT
<1>6. Double({3}) = {4}
  BY <1>1, DoubleBits, SameBits, SMT
<1>7. Double({4}) = {5}
  BY <1>1, DoubleBits, SameBits, SMT
<1>8. Double({5}) = {6}
  BY <1>1, DoubleBits, SameBits, SMT
<1>9. Double({6}) = {7}
  BY <1>1, DoubleBits, SameBits, SMT
<1>10. Double({7}) = {0, 1, 3, 4}
  BY <1>1, <1>2, DoubleBits, SameBits, SMT
<1>11. Double({0, 1, 3, 4}) = {1, 2, 4, 5}
  BY <1>2, DoubleBits, SameBits, SMT
<1>12. Double({1, 2, 4, 5}) = {2, 3, 5, 6}
  BY <1>2, DoubleBits, SameBits, SMT
<1>13. Double({2, 3, 5, 6}) = {3, 4, 6, 7}
  BY <1>2, DoubleBits, SameBits, SMT
<1>14. Double({3, 4, 6, 7}) = {0, 1, 3, 5, 7}
  BY <1>2, DoubleBits, SameBits, SMT
<1>15. Double({0, 1, 3, 5, 7}) = {0, 2, 3, 6}
  BY <1>2, DoubleBits, SameBits, SMT
<1>16. Double({0, 2, 3, 6}) = {1, 3, 4, 7}
  BY <1>2, DoubleBits, SameBits, SMT
<1>17. \A x \in Bytes : Sq(Double(x)) = Double(Double(Sq(x)))
  BY SqMap
<1>18. Sq({0}) = {0}
  BY Ring, Xor DEF Sq, One8
<1>19. Sq({1}) = {2}
  BY <1>1, <1>3, <1>4, <1>17, <1>18
<1>20. Sq({2}) = {4}
  BY <1>1, <1>4, <1>5, <1>6, <1>17, <1>19
<1>21. Sq({3}) = {6}
  BY <1>1, <1>5, <1>7, <1>8, <1>17, <1>20
<1>22. Sq({4}) = {0, 1, 3, 4}
  BY <1>1, <1>6, <1>9, <1>10, <1>17, <1>21
<1>23. Sq({5}) = {2, 3, 5, 6}
  BY <1>1, <1>7, <1>11, <1>12, <1>17, <1>22
<1>24. Sq({6}) = {0, 1, 3, 5, 7}
  BY <1>1, <1>8, <1>13, <1>14, <1>17, <1>23
<1>25. Sq({7}) = {1, 3, 4, 7}
  BY <1>1, <1>9, <1>15, <1>16, <1>17, <1>24
<1> QED
  BY <1>18, <1>19, <1>20, <1>21, <1>22, <1>23, <1>24, <1>25

\* A square is the sum of the squares of the bits.
LEMMA SqRounds ==
  ASSUME NEW b \in Bytes
  PROVE  \E q : /\ q[8] = Sq(b) /\ q[0] = Zero8
                /\ \A i \in 1 .. 8 : \A k : k \in q[i] <=>
                     ~(k \in q[i - 1] <=> (i - 1 \in b /\ k \in Sq({i - 1})))
<1>1. \A i \in 0 .. 7 : Doubles(One8)[i] = {i} /\ {i} \in Bytes
  BY OneRounds DEF Bytes, Bits
<1>2. PICK r : Rounds(r, b, Doubles(One8)) /\ r[8] = b
  BY OneRounds
<1>3. Sq(Zero8) = Zero8
  BY Ring, Xor DEF Sq
<1> DEFINE q == [i \in 0 .. 8 |-> Sq(r[i])]
<1>4. q[8] = Sq(b) /\ q[0] = Zero8
  BY <1>2, <1>3, SMT DEF Rounds
<1>5. ASSUME NEW i \in 1 .. 8, NEW k
      PROVE  k \in q[i] <=> ~(k \in q[i - 1] <=> (i - 1 \in b /\ k \in Sq({i - 1})))
  <2>1. i \in 0 .. 8 /\ i - 1 \in 0 .. 8 /\ i - 1 \in 0 .. 7
    BY SMT
  <2>2. q[i] = Sq(r[i]) /\ q[i - 1] = Sq(r[i - 1]) /\ r[i - 1] \in Bytes
    BY <1>2, <2>1 DEF Rounds
  <2> HIDE DEF q
  <2>3. CASE i - 1 \in b
    <3>1. r[i] = GfAdd(r[i - 1], {i - 1})
      BY <1>1, <1>2, <2>1, <2>3 DEF Rounds
    <3>2. q[i] = GfAdd(q[i - 1], Sq({i - 1}))
      BY <1>1, <2>1, <2>2, <3>1, SqMap
    <3> QED
      BY <2>3, <3>2, XorBits
  <2>4. CASE i - 1 \notin b
    <3>1. r[i] = r[i - 1]
      BY <1>2, <2>4 DEF Rounds
    <3> QED
      BY <2>2, <2>4, <3>1
  <2> QED
    BY <2>3, <2>4
<1> HIDE DEF q
<1> QED
  BY <1>4, <1>5

\* The bits of a square.
LEMMA SqBits ==
  ASSUME NEW b \in Bytes
  PROVE  /\ Sq(b) \in Bytes
         /\ 0 \in Sq(b) <=> ~(0 \in b <=> ~(4 \in b <=> 6 \in b))
         /\ 1 \in Sq(b) <=> ~(4 \in b <=> ~(6 \in b <=> 7 \in b))
         /\ 2 \in Sq(b) <=> ~(1 \in b <=> 5 \in b)
         /\ 3 \in Sq(b) <=> ((4 \in b <=> 5 \in b) <=> ~(6 \in b <=> 7 \in b))
         /\ 4 \in Sq(b) <=> ~(2 \in b <=> ~(4 \in b <=> 7 \in b))
         /\ 5 \in Sq(b) <=> ~(5 \in b <=> 6 \in b)
         /\ 6 \in Sq(b) <=> ~(3 \in b <=> 5 \in b)
         /\ 7 \in Sq(b) <=> ~(6 \in b <=> 7 \in b)
<1>1. PICK q : /\ q[8] = Sq(b) /\ q[0] = Zero8
               /\ \A i \in 1 .. 8 : \A k : k \in q[i] <=>
                    ~(k \in q[i - 1] <=> (i - 1 \in b /\ k \in Sq({i - 1})))
  BY SqRounds
<1>2. \A k : k \in q[1] <=> (0 \in b /\ k \in {0})
  BY <1>1, SqOfBits, SMT DEF Zero8
<1>3. \A k : k \in q[2] <=> ~(k \in q[1] <=> (1 \in b /\ k \in {2}))
  BY <1>1, SqOfBits, SMT
<1>4. \A k : k \in q[3] <=> ~(k \in q[2] <=> (2 \in b /\ k \in {4}))
  BY <1>1, SqOfBits, SMT
<1>5. \A k : k \in q[4] <=> ~(k \in q[3] <=> (3 \in b /\ k \in {6}))
  BY <1>1, SqOfBits, SMT
<1>6. \A k : k \in q[5] <=> ~(k \in q[4] <=> (4 \in b /\ k \in {0, 1, 3, 4}))
  BY <1>1, SqOfBits, SMT
<1>7. \A k : k \in q[6] <=> ~(k \in q[5] <=> (5 \in b /\ k \in {2, 3, 5, 6}))
  BY <1>1, SqOfBits, SMT
<1>8. \A k : k \in q[7] <=> ~(k \in q[6] <=> (6 \in b /\ k \in {0, 1, 3, 5, 7}))
  BY <1>1, SqOfBits, SMT
<1>9. \A k : k \in Sq(b) <=> ~(k \in q[7] <=> (7 \in b /\ k \in {1, 3, 4, 7}))
  BY <1>1, SqOfBits, SMT
<1>10. 0 \in Sq(b) <=> ~(0 \in b <=> ~(4 \in b <=> 6 \in b))
  BY <1>2, <1>3, <1>4, <1>5, <1>6, <1>7, <1>8, <1>9, SMT
<1>11. 1 \in Sq(b) <=> ~(4 \in b <=> ~(6 \in b <=> 7 \in b))
  BY <1>2, <1>3, <1>4, <1>5, <1>6, <1>7, <1>8, <1>9, SMT
<1>12. 2 \in Sq(b) <=> ~(1 \in b <=> 5 \in b)
  BY <1>2, <1>3, <1>4, <1>5, <1>6, <1>7, <1>8, <1>9, SMT
<1>13. 3 \in Sq(b) <=> ((4 \in b <=> 5 \in b) <=> ~(6 \in b <=> 7 \in b))
  BY <1>2, <1>3, <1>4, <1>5, <1>6, <1>7, <1>8, <1>9, SMT
<1>14. 4 \in Sq(b) <=> ~(2 \in b <=> ~(4 \in b <=> 7 \in b))
  BY <1>2, <1>3, <1>4, <1>5, <1>6, <1>7, <1>8, <1>9, SMT
<1>15. 5 \in Sq(b) <=> ~(5 \in b <=> 6 \in b)
  BY <1>2, <1>3, <1>4, <1>5, <1>6, <1>7, <1>8, <1>9, SMT
<1>16. 6 \in Sq(b) <=> ~(3 \in b <=> 5 \in b)
  BY <1>2, <1>3, <1>4, <1>5, <1>6, <1>7, <1>8, <1>9, SMT
<1>17. 7 \in Sq(b) <=> ~(6 \in b <=> 7 \in b)
  BY <1>2, <1>3, <1>4, <1>5, <1>6, <1>7, <1>8, <1>9, SMT
<1> QED
  BY <1>10, <1>11, <1>12, <1>13, <1>14, <1>15, <1>16, <1>17, SqMap

\* Only 0 and 1 are their own squares.
LEMMA Idempotents == \A b \in Bytes : Sq(b) = b => b = Zero8 \/ b = One8
<1> SUFFICES ASSUME NEW b \in Bytes, Sq(b) = b PROVE b = Zero8 \/ b = One8
  OBVIOUS
<1>1. 1 \notin b /\ 2 \notin b /\ 3 \notin b /\ 4 \notin b /\ 5 \notin b /\ 6 \notin b /\ 7 \notin b
  BY SqBits
<1>2. b \subseteq {0}
  BY <1>1, BitCases DEF Bytes
<1> QED
  BY <1>2 DEF Zero8, One8

\* The eighth square of 2 is 2.
LEMMA SqOfTwo == Sq(Sq(Sq(Sq(Sq(Sq(Sq(Sq({1})))))))) = {1}
<1>1. /\ {1, 2, 3, 4, 6} \in Bytes /\ {2, 5, 6, 7} \in Bytes /\ {0, 2, 3, 6} \in Bytes
      /\ {1, 3, 4, 5, 6, 7} \in Bytes /\ {1} \in Bytes /\ {0, 1, 3, 4} \in Bytes
  BY SMT DEF Bytes, Bits
<1>2. Sq({0, 1, 3, 4}) = {1, 2, 3, 4, 6}
  BY <1>1, SqBits, SameBits, SMT
<1>3. Sq({1, 2, 3, 4, 6}) = {2, 5, 6, 7}
  BY <1>1, SqBits, SameBits, SMT
<1>4. Sq({2, 5, 6, 7}) = {0, 2, 3, 6}
  BY <1>1, SqBits, SameBits, SMT
<1>5. Sq({0, 2, 3, 6}) = {1, 3, 4, 5, 6, 7}
  BY <1>1, SqBits, SameBits, SMT
<1>6. Sq({1, 3, 4, 5, 6, 7}) = {1}
  BY <1>1, SqBits, SameBits, SMT
<1> QED
  BY <1>2, <1>3, <1>4, <1>5, <1>6, SqOfBits

\* The eighth square of any byte is the byte: it is linear, and so it is enough that
\* it commutes with doubling.
LEMMA EighthSquare == \A b \in Bytes : Sq(Sq(Sq(Sq(Sq(Sq(Sq(Sq(b)))))))) = b
<1> DEFINE h == [x \in Bytes |-> Sq(Sq(Sq(Sq(Sq(Sq(Sq(Sq(x))))))))]
<1>1. \A x \in Bytes : h[x] = Sq(Sq(Sq(Sq(Sq(Sq(Sq(Sq(x))))))))
  OBVIOUS
<1>2. h \in [Bytes -> Bytes]
  BY SqMap
<1> HIDE DEF h
<1>3. \A x, y \in Bytes : h[GfAdd(x, y)] = GfAdd(h[x], h[y])
  <2> TAKE x, y \in Bytes
  <2>1. GfAdd(x, y) \in Bytes
    BY Xor
  <2> QED
    BY <1>1, <2>1, SqMap
<1>4. \A x \in Bytes : Double(x) = GfMul({1}, x) /\ {1} \in Bytes
  <2>1. Double(One8) = {1}
    <3>1. {1} \in Bytes
      BY SMT DEF Bytes, Bits
    <3>2. Double({0}) = {1}
      <4>1. {0} \in Bytes
        BY SMT DEF Bytes, Bits
      <4> QED
        BY <3>1, <4>1, DoubleBits, SameBits, SMT
    <3> QED
      BY <3>2 DEF One8
  <2>2. \A x \in Bytes : GfMul(Double(One8), x) = Double(GfMul(One8, x))
    BY DoubleMul, Xor
  <2>3. \A x \in Bytes : GfMul({1}, x) = Double(x)
    BY <2>1, <2>2, OneMul
  <2> QED
    BY <2>3, SMT DEF Bytes, Bits
<1>5. \A x \in Bytes : h[Double(x)] = Double(h[x])
  <2> TAKE x \in Bytes
  <2>1. h[{1}] = {1}
    BY <1>1, <1>4, SqOfTwo
  <2>2. \A y \in Bytes : h[GfMul(y, x)] = GfMul(h[y], h[x])
    <3> TAKE y \in Bytes
    <3>1. GfMul(y, x) \in Bytes
      BY Ring
    <3> QED
      BY <1>1, <3>1, SqMap
  <2> QED
    BY <1>2, <1>4, <2>1, <2>2
<1>6. h[One8] = One8
  <2>1. Sq(One8) = One8 /\ One8 \in Bytes
    BY Ring, Xor DEF Sq
  <2> QED
    BY <1>1, <2>1
<1>7. \A b \in Bytes : GfMul(h[One8], b) = h[GfMul(One8, b)]
  BY <1>2, <1>3, <1>5, MapMul, Xor
<1> QED
  BY <1>1, <1>6, <1>7, OneMul

\* s1 .. s7 of gf_inv.
LEMMA SquaresAre ==
  ASSUME NEW a \in Bytes
  PROVE  /\ Squares(a) \in [0 .. 7 -> Bytes] /\ Squares(a)[0] = a
         /\ \A i \in 1 .. 7 : Squares(a)[i] = Sq(Squares(a)[i - 1])
<1> DEFINE Body(s) == [i \in 0 .. 7 |-> IF i = 0 THEN a ELSE GfMul(s[i - 1], s[i - 1])]
           step == [i \in 1 .. 7 |-> [x \in Bytes |-> Sq(x)]]
<1>1. step \in [1 .. 7 -> [Bytes -> Bytes]]
  BY SqMap
<1>2. PICK f : Recursive(f, Bytes, 7, a, step)
  <2>1. 7 \in Nat
    BY SMT
  <2> HIDE DEF step
  <2> QED
    BY <1>1, <2>1, Recursion
<1>3. \A i \in 1 .. 7 : i - 1 \in 0 .. 7 /\ i \in 0 .. 7 /\ i # 0
  BY SMT
<1>4. f \in [0 .. 7 -> Bytes] /\ f[0] = a /\ \A i \in 1 .. 7 : f[i] = GfMul(f[i - 1], f[i - 1])
  BY <1>2, <1>3 DEF Recursive, Sq
<1>5. \A i \in 0 .. 7 : i = 0 \/ i \in 1 .. 7
  BY SMT
<1>6. f = Body(f)
  BY <1>4, <1>5
<1>7. Squares(a) = CHOOSE s : s = Body(s)
  BY DEF Squares
<1> HIDE DEF Body
<1>8. Squares(a) = Body(Squares(a))
  BY <1>6, <1>7
<1>9. Squares(a)[0] = a /\ \A i \in 1 .. 7 : Squares(a)[i] = Sq(Squares(a)[i - 1])
  BY <1>3, <1>8, SMT DEF Body, Sq
<1> DEFINE N == {i \in 0 .. 7 : Squares(a)[i] \in Bytes}
<1>10. 0 \in N /\ \A i \in 1 .. 7 : i - 1 \in N => i \in N
  BY <1>3, <1>9, SqMap, SMT
<1>11. \A i \in 0 .. 7 : i \in N
  <2>1. 7 \in Nat
    BY SMT
  <2> HIDE DEF N
  <2> QED
    BY <1>10, <2>1, Upwards
<1>12. Squares(a) = [i \in 0 .. 7 |-> Squares(a)[i]]
  BY <1>8 DEF Body
<1> QED
  BY <1>9, <1>11, <1>12

\* The inverse times the square of a is a: with each factor the product so far comes
\* one square nearer to it.
LEMMA InvTimesSquare ==
  ASSUME NEW a \in Bytes
  PROVE  GfInv(a) \in Bytes /\ GfMul(GfInv(a), Sq(a)) = a
<1> DEFINE s == Squares(a)
           Body(r) == [i \in 0 .. 6 |-> IF i = 0 THEN s[7] ELSE GfMul(r[i - 1], s[7 - i])]
           step == [i \in 1 .. 6 |-> [x \in Bytes |-> GfMul(x, s[7 - i])]]
           inv == CHOOSE r : r = Body(r)
<1>1. s \in [0 .. 7 -> Bytes] /\ s[0] = a /\ \A i \in 1 .. 7 : s[i] = Sq(s[i - 1])
  BY SquaresAre
<1>2. GfInv(a) = inv[6]
  BY DEF GfInv
<1> HIDE DEF s
<1>3. s[7] \in Bytes /\ \A i \in 1 .. 6 : /\ s[7 - i] \in Bytes /\ i - 1 \in 0 .. 6 /\ i \in 0 .. 6
                                        /\ i # 0 /\ s[7 - (i - 1)] = Sq(s[7 - i])
  <2>1. \A i \in 1 .. 6 : /\ 7 - i \in 0 .. 7 /\ 7 - (i - 1) \in 1 .. 7 /\ i - 1 \in 0 .. 6
                          /\ i \in 0 .. 6 /\ i # 0 /\ (7 - (i - 1)) - 1 = 7 - i
    BY SMT
  <2>2. 7 \in 0 .. 7
    BY SMT
  <2> QED
    BY <1>1, <2>1, <2>2
<1>4. step \in [1 .. 6 -> [Bytes -> Bytes]]
  BY <1>3, Ring
<1>5. PICK f : Recursive(f, Bytes, 6, s[7], step)
  <2>1. 6 \in Nat
    BY SMT
  <2> HIDE DEF step
  <2> QED
    BY <1>3, <1>4, <2>1, Recursion
<1>6. f \in [0 .. 6 -> Bytes] /\ f[0] = s[7] /\ \A i \in 1 .. 6 : f[i] = GfMul(f[i - 1], s[7 - i])
  BY <1>3, <1>5 DEF Recursive
<1>7. f = Body(f)
  <2>1. \A i \in 0 .. 6 : i = 0 \/ i \in 1 .. 6
    BY SMT
  <2> QED
    BY <1>6, <2>1
<1> HIDE DEF Body
<1>8. inv = Body(inv)
  BY <1>7
<1> HIDE DEF inv
<1>9. inv[0] = s[7] /\ \A i \in 1 .. 6 : inv[i] = GfMul(inv[i - 1], s[7 - i])
  BY <1>3, <1>8, SMT DEF Body
<1>10. GfMul(s[7], s[7]) = a
  <2>1. s[1] = Sq(a) /\ s[2] = Sq(s[1]) /\ s[3] = Sq(s[2]) /\ s[4] = Sq(s[3]) /\ s[5] = Sq(s[4])
        /\ s[6] = Sq(s[5]) /\ s[7] = Sq(s[6])
    BY <1>1, SMT
  <2>2. Sq(s[7]) = a
    BY <2>1, EighthSquare
  <2> QED
    BY <2>2 DEF Sq
<1> DEFINE N == {i \in 0 .. 6 : inv[i] \in Bytes /\ GfMul(inv[i], s[7 - i]) = a}
<1>11. 0 \in N
  BY <1>3, <1>9, <1>10, SMT
<1>12. ASSUME NEW i \in 1 .. 6, i - 1 \in N PROVE i \in N
  <2>1. inv[i - 1] \in Bytes /\ GfMul(inv[i - 1], s[7 - (i - 1)]) = a
    BY <1>12
  <2>2. inv[i] = GfMul(inv[i - 1], s[7 - i])
    BY <1>9
  <2> DEFINE x == s[7 - i]
             y == inv[i - 1]
  <2>3. x \in Bytes /\ y \in Bytes
    BY <1>3, <2>1
  <2>4. GfMul(GfMul(y, x), x) = GfMul(y, GfMul(x, x)) /\ GfMul(y, x) \in Bytes
    <3> HIDE DEF x, y
    <3> QED
      BY <2>3, Ring
  <2>5. GfMul(y, GfMul(x, x)) = a
    BY <1>3, <2>1 DEF Sq
  <2>6. GfMul(inv[i], x) = a /\ inv[i] \in Bytes
    BY <2>2, <2>4, <2>5
  <2> QED
    BY <1>3, <2>6
<1> HIDE DEF N
<1>13. \A i \in 0 .. 6 : i \in N
  <2>1. 6 \in Nat
    BY SMT
  <2> QED
    BY <1>11, <1>12, <2>1, Upwards
<1>14. inv[6] \in Bytes /\ GfMul(inv[6], s[1]) = a
  BY <1>13, SMT DEF N
<1>15. s[1] = Sq(a)
  BY <1>1, SMT
<1> QED
  BY <1>2, <1>14, <1>15

\* gf_inv is the inverse, and 0 for 0.
LEMMA GfInverse ==
  ASSUME NEW a \in Bytes
  PROVE  GfInv(a) \in Bytes /\ (a # Zero8 => GfMul(a, GfInv(a)) = One8 /\ GfMul(GfInv(a), a) = One8)
<1> DEFINE v == GfInv(a)
           y == GfMul(v, a)
<1>1. v \in Bytes /\ GfMul(v, GfMul(a, a)) = a
  BY InvTimesSquare DEF Sq
<1> HIDE DEF v
<1>2. y \in Bytes /\ GfMul(y, a) = a
  BY <1>1, Ring
<1>3. GfMul(y, y) = y
  <2>1. GfMul(y, y) = GfMul(GfMul(y, v), a)
    BY <1>1, <1>2, Ring
  <2>2. GfMul(y, v) = GfMul(v, y)
    BY <1>1, <1>2, Ring
  <2>3. GfMul(GfMul(v, y), a) = GfMul(v, GfMul(y, a))
    BY <1>1, <1>2, Ring
  <2> QED
    BY <1>2, <2>1, <2>2, <2>3
<1>4. y = Zero8 \/ y = One8
  BY <1>2, <1>3, Idempotents DEF Sq
<1>5. a # Zero8 => y = One8
  BY <1>2, <1>4, Ring
<1>6. GfMul(a, v) = y
  BY <1>1, Ring
<1>7. v \in Bytes /\ (a # Zero8 => GfMul(a, v) = One8 /\ GfMul(v, a) = One8)
  BY <1>1, <1>5, <1>6
<1> QED
  BY <1>7 DEF v

\* Products of four, products that are not 0, and the inverse of a product.
LEMMA Mul4 ==
  ASSUME NEW a \in Bytes, NEW b \in Bytes, NEW c \in Bytes, NEW d \in Bytes
  PROVE  GfMul(GfMul(a, b), GfMul(c, d)) = GfMul(GfMul(a, c), GfMul(b, d))
<1>1. GfMul(c, d) \in Bytes /\ GfMul(b, d) \in Bytes /\ GfMul(b, c) \in Bytes
  BY Ring
<1>2. GfMul(GfMul(a, b), GfMul(c, d)) = GfMul(a, GfMul(b, GfMul(c, d)))
  BY <1>1, Ring
<1>3. GfMul(b, GfMul(c, d)) = GfMul(GfMul(b, c), d)
  BY Ring
<1>4. GfMul(b, c) = GfMul(c, b)
  BY Ring
<1>5. GfMul(GfMul(c, b), d) = GfMul(c, GfMul(b, d))
  BY Ring
<1>6. GfMul(a, GfMul(c, GfMul(b, d))) = GfMul(GfMul(a, c), GfMul(b, d))
  BY <1>1, Ring
<1> QED
  BY <1>2, <1>3, <1>4, <1>5, <1>6

\* There are no zero divisors.
LEMMA MulNonZero ==
  ASSUME NEW a \in Bytes, NEW b \in Bytes, a # Zero8, b # Zero8
  PROVE  GfMul(a, b) # Zero8
<1> SUFFICES ASSUME GfMul(a, b) = Zero8 PROVE FALSE
  OBVIOUS
<1>1. GfInv(a) \in Bytes /\ GfMul(GfInv(a), a) = One8
  BY GfInverse
<1>2. GfMul(GfMul(GfInv(a), a), b) = GfMul(GfInv(a), GfMul(a, b))
  BY <1>1, Ring
<1>3. GfMul(GfInv(a), GfMul(a, b)) = Zero8
  BY <1>1, Ring
<1> QED
  BY <1>1, <1>2, <1>3, Ring

\* An inverse is the only one.
LEMMA InvUnique ==
  ASSUME NEW a \in Bytes, NEW v \in Bytes, GfMul(a, v) = One8
  PROVE  v = GfInv(a)
<1>1. a # Zero8
  BY Ring, Xor
<1>2. GfInv(a) \in Bytes /\ GfMul(GfInv(a), a) = One8
  BY <1>1, GfInverse
<1>3. GfMul(GfMul(GfInv(a), a), v) = GfMul(GfInv(a), GfMul(a, v))
  BY <1>2, Ring
<1> QED
  BY <1>2, <1>3, Ring

\* The inverse of a product is the product of the inverses.
LEMMA InvMul ==
  ASSUME NEW a \in Bytes, NEW b \in Bytes, a # Zero8, b # Zero8
  PROVE  GfInv(GfMul(a, b)) = GfMul(GfInv(a), GfInv(b))
<1>1. /\ GfInv(a) \in Bytes /\ GfMul(a, GfInv(a)) = One8
      /\ GfInv(b) \in Bytes /\ GfMul(b, GfInv(b)) = One8
  BY GfInverse
<1>2. GfMul(GfMul(a, b), GfMul(GfInv(a), GfInv(b))) = GfMul(GfMul(a, GfInv(a)), GfMul(b, GfInv(b)))
  BY <1>1, Mul4
<1>3. GfMul(GfMul(a, b), GfMul(GfInv(a), GfInv(b))) = One8
  BY <1>1, <1>2, Ring, Xor
<1>4. GfMul(a, b) \in Bytes /\ GfMul(GfInv(a), GfInv(b)) \in Bytes
  BY <1>1, Ring
<1> QED
  BY <1>3, <1>4, InvUnique

\* 1/a + 1/b, with the common denominator ab.
LEMMA InvAdd ==
  ASSUME NEW a \in Bytes, NEW b \in Bytes, a # Zero8, b # Zero8, GfAdd(a, b) # Zero8
  PROVE  GfMul(GfInv(a), GfInv(b)) = GfMul(GfInv(GfAdd(a, b)), GfAdd(GfInv(a), GfInv(b)))
<1> DEFINE u == GfInv(a)
           v == GfInv(b)
           s == GfAdd(a, b)
           w == GfInv(s)
<1>1. /\ s \in Bytes /\ s # Zero8
      /\ u \in Bytes /\ GfMul(a, u) = One8
      /\ v \in Bytes /\ GfMul(b, v) = One8
  BY GfInverse, Xor
<1>2. w \in Bytes /\ GfMul(w, s) = One8
  BY <1>1, GfInverse
<1>3. GfMul(s, GfMul(u, v)) = GfAdd(GfMul(a, GfMul(u, v)), GfMul(b, GfMul(u, v)))
  BY <1>1, Ring
<1> HIDE DEF u, v, s, w
<1>4. GfMul(a, GfMul(u, v)) = v
  <2>1. GfMul(a, GfMul(u, v)) = GfMul(GfMul(a, u), v)
    BY <1>1, Ring
  <2> QED
    BY <1>1, <2>1, Ring
<1>5. GfMul(b, GfMul(u, v)) = u
  <2>1. GfMul(u, v) = GfMul(v, u)
    BY <1>1, Ring
  <2>2. GfMul(b, GfMul(v, u)) = GfMul(GfMul(b, v), u)
    BY <1>1, Ring
  <2> QED
    BY <1>1, <2>1, <2>2, Ring
<1>6. GfMul(s, GfMul(u, v)) = GfAdd(u, v)
  BY <1>3, <1>4, <1>5, Xor
<1>7. GfMul(w, GfMul(s, GfMul(u, v))) = GfMul(GfMul(w, s), GfMul(u, v))
  <2>1. GfMul(u, v) \in Bytes
    BY <1>1, Ring
  <2> QED
    BY <1>1, <1>2, <2>1, Ring
<1>8. GfMul(w, GfAdd(u, v)) = GfMul(u, v)
  <2>1. GfMul(u, v) \in Bytes
    BY <1>1, Ring
  <2> QED
    BY <1>2, <1>6, <1>7, <2>1, Ring
<1> QED
  BY <1>8 DEF u, v, s, w

-----------------------------------------------------------------------------
(* Sums and products of sequences. *)

\* A function on 1 .. n is a sequence of length n.
LEMMA LenIs ==
  ASSUME NEW n \in Nat, NEW S, NEW f \in [1 .. n -> S]
  PROVE  f \in Seq(S) /\ Len(f) = n /\ DOMAIN f = 1 .. n
BY SMT

\* The partial sums of f.
LEMMA SumsAre ==
  ASSUME NEW n \in Nat, NEW f \in [1 .. n -> Bytes]
  PROVE  /\ Sums8(f) \in [0 .. n -> Bytes] /\ Sums8(f)[0] = Zero8
         /\ \A i \in 1 .. n : Sums8(f)[i] = GfAdd(Sums8(f)[i - 1], f[i])
<1> DEFINE Body(s) == [i \in 0 .. n |-> IF i = 0 THEN Zero8 ELSE GfAdd(s[i - 1], f[i])]
           step == [i \in 1 .. n |-> [x \in Bytes |-> GfAdd(x, f[i])]]
<1>1. step \in [1 .. n -> [Bytes -> Bytes]]
  BY Xor
<1>2. PICK g : Recursive(g, Bytes, n, Zero8, step)
  <2> HIDE DEF step
  <2> QED
    BY <1>1, Recursion, Xor
<1>3. 0 \in 0 .. n /\ \A i \in 1 .. n : i - 1 \in 0 .. n /\ i \in 0 .. n /\ i # 0
  BY SMT
<1>4. g \in [0 .. n -> Bytes] /\ g[0] = Zero8 /\ \A i \in 1 .. n : g[i] = GfAdd(g[i - 1], f[i])
  BY <1>2, <1>3 DEF Recursive
<1>5. \A i \in 0 .. n : i = 0 \/ i \in 1 .. n
  BY SMT
<1>6. g = Body(g)
  BY <1>4, <1>5
<1>7. Sums8(f) = CHOOSE s : s = Body(s)
  BY LenIs DEF Sums8
<1> HIDE DEF Body
<1>8. Sums8(f) = Body(Sums8(f))
  BY <1>6, <1>7
<1>9. Sums8(f)[0] = Zero8 /\ \A i \in 1 .. n : Sums8(f)[i] = GfAdd(Sums8(f)[i - 1], f[i])
  BY <1>3, <1>8 DEF Body
<1> DEFINE N == {i \in 0 .. n : Sums8(f)[i] \in Bytes}
<1>10. 0 \in N /\ \A i \in 1 .. n : i - 1 \in N => i \in N
  BY <1>3, <1>9, Xor
<1>11. \A i \in 0 .. n : i \in N
  <2> HIDE DEF N
  <2> QED
    BY <1>10, Upwards
<1>12. Sums8(f) = [i \in 0 .. n |-> Sums8(f)[i]]
  BY <1>8 DEF Body
<1> QED
  BY <1>9, <1>11, <1>12

\* The partial products of f without f[e].
LEMMA ProductsAre ==
  ASSUME NEW n \in Nat, NEW f \in [1 .. n -> Bytes], NEW e
  PROVE  /\ ProductsWithout(e, f) \in [0 .. n -> Bytes] /\ ProductsWithout(e, f)[0] = One8
         /\ \A i \in 1 .. n : ProductsWithout(e, f)[i] =
              IF i = e THEN ProductsWithout(e, f)[i - 1] ELSE GfMul(ProductsWithout(e, f)[i - 1], f[i])
<1> DEFINE Body(s) == [i \in 0 .. n |-> IF i = 0 THEN One8 ELSE IF i = e THEN s[i - 1] ELSE GfMul(s[i - 1], f[i])]
           step == [i \in 1 .. n |-> [x \in Bytes |-> IF i = e THEN x ELSE GfMul(x, f[i])]]
           p == ProductsWithout(e, f)
<1>1. step \in [1 .. n -> [Bytes -> Bytes]]
  BY Ring
<1>2. PICK g : Recursive(g, Bytes, n, One8, step)
  <2> HIDE DEF step
  <2> QED
    BY <1>1, Recursion, Xor
<1>3. 0 \in 0 .. n /\ \A i \in 1 .. n : i - 1 \in 0 .. n /\ i \in 0 .. n /\ i # 0
  BY SMT
<1>4. g \in [0 .. n -> Bytes] /\ g[0] = One8
      /\ \A i \in 1 .. n : g[i] = IF i = e THEN g[i - 1] ELSE GfMul(g[i - 1], f[i])
  BY <1>2, <1>3 DEF Recursive
<1>5. \A i \in 0 .. n : i = 0 \/ i \in 1 .. n
  BY SMT
<1>6. g = Body(g)
  BY <1>4, <1>5
<1>7. p = CHOOSE s : s = Body(s)
  BY LenIs DEF ProductsWithout
<1> HIDE DEF Body, p
<1>8. p = Body(p)
  BY <1>6, <1>7
<1>9. p[0] = One8 /\ \A i \in 1 .. n : p[i] = IF i = e THEN p[i - 1] ELSE GfMul(p[i - 1], f[i])
  BY <1>3, <1>8 DEF Body
<1> DEFINE N == {i \in 0 .. n : p[i] \in Bytes}
<1>10. 0 \in N
  BY <1>3, <1>9, Xor
<1>11. ASSUME NEW i \in 1 .. n, i - 1 \in N PROVE i \in N
  <2>1. p[i - 1] \in Bytes /\ f[i] \in Bytes /\ i \in 0 .. n
    BY <1>3, <1>11
  <2>2. GfMul(p[i - 1], f[i]) \in Bytes
    BY <2>1, Ring
  <2>3. p[i] = p[i - 1] \/ p[i] = GfMul(p[i - 1], f[i])
    BY <1>9
  <2> QED
    BY <2>1, <2>2, <2>3
<1>12. \A i \in 0 .. n : i \in N
  <2> HIDE DEF N
  <2> QED
    BY <1>10, <1>11, Upwards
<1>13. p = [i \in 0 .. n |-> p[i]]
  BY <1>8 DEF Body
<1> QED
  BY <1>9, <1>12, <1>13 DEF p

\* The first m terms of h are the sums of those of f and g.
TermByTerm(n, f, g, h, m) ==
  /\ n \in Nat /\ m \in 0 .. n
  /\ f \in [1 .. n -> Bytes] /\ g \in [1 .. n -> Bytes] /\ h \in [1 .. n -> Bytes]
  /\ \A i \in 1 .. m : h[i] = GfAdd(f[i], g[i])

\* Sums are added term by term, ...
LEMMA SumAdd ==
  ASSUME NEW n, NEW f, NEW g, NEW h, NEW m, TermByTerm(n, f, g, h, m)
  PROVE  Sums8(h)[m] = GfAdd(Sums8(f)[m], Sums8(g)[m])
<1> DEFINE F == Sums8(f)
           G == Sums8(g)
           H == Sums8(h)
           N == {i \in 0 .. m : H[i] = GfAdd(F[i], G[i])}
<1>1. /\ n \in Nat /\ m \in 0 .. n
      /\ f \in [1 .. n -> Bytes] /\ g \in [1 .. n -> Bytes] /\ h \in [1 .. n -> Bytes]
      /\ \A i \in 1 .. m : h[i] = GfAdd(f[i], g[i])
  BY DEF TermByTerm
<1>2. /\ F[0] = Zero8 /\ \A i \in 1 .. n : F[i] = GfAdd(F[i - 1], f[i])
      /\ G[0] = Zero8 /\ \A i \in 1 .. n : G[i] = GfAdd(G[i - 1], g[i])
      /\ H[0] = Zero8 /\ \A i \in 1 .. n : H[i] = GfAdd(H[i - 1], h[i])
  BY <1>1, SumsAre
<1> HIDE DEF F, G, H
<1>3. m \in Nat /\ 0 \in 0 .. m /\ \A i \in 1 .. m : i \in 1 .. n /\ i \in 0 .. m
  BY <1>1, SMT
<1>4. 0 \in N
  BY <1>2, <1>3, Xor
<1>5. ASSUME NEW i \in 1 .. m, i - 1 \in N PROVE i \in N
  <2>1. H[i] = GfAdd(GfAdd(F[i - 1], G[i - 1]), GfAdd(f[i], g[i]))
    BY <1>1, <1>2, <1>3, <1>5
  <2>2. F[i] = GfAdd(F[i - 1], f[i]) /\ G[i] = GfAdd(G[i - 1], g[i])
    BY <1>2, <1>3
  <2>3. H[i] = GfAdd(F[i], G[i])
    BY <2>1, <2>2, XorSwap
  <2> QED
    BY <1>3, <2>3
<1> HIDE DEF N
<1>6. \A i \in 0 .. m : i \in N
  BY <1>3, <1>4, <1>5, Upwards
<1> QED
  BY <1>1, <1>6, SMT DEF N, F, G, H

\* ... a common factor comes out, ...
LEMMA SumScale ==
  ASSUME NEW n \in Nat, NEW c \in Bytes, NEW f \in [1 .. n -> Bytes],
         NEW h \in [1 .. n -> Bytes], NEW m \in 0 .. n,
         \A i \in 1 .. m : h[i] = GfMul(c, f[i])
  PROVE  Sums8(h)[m] = GfMul(c, Sums8(f)[m])
<1> DEFINE F == Sums8(f)
           H == Sums8(h)
           N == {i \in 0 .. m : H[i] = GfMul(c, F[i])}
<1>1. /\ F \in [0 .. n -> Bytes] /\ F[0] = Zero8 /\ \A i \in 1 .. n : F[i] = GfAdd(F[i - 1], f[i])
      /\ H[0] = Zero8 /\ \A i \in 1 .. n : H[i] = GfAdd(H[i - 1], h[i])
  BY SumsAre
<1> HIDE DEF F, H
<1>2. m \in Nat /\ 0 \in 0 .. m /\ \A i \in 1 .. m : i \in 1 .. n /\ i \in 0 .. m /\ i - 1 \in 0 .. n
  BY SMT
<1>3. 0 \in N
  BY <1>1, <1>2, Ring
<1>4. ASSUME NEW i \in 1 .. m, i - 1 \in N PROVE i \in N
  <2>1. H[i] = GfAdd(GfMul(c, F[i - 1]), GfMul(c, f[i]))
    BY <1>1, <1>2, <1>4
  <2>2. F[i] = GfAdd(F[i - 1], f[i]) /\ F[i - 1] \in Bytes /\ f[i] \in Bytes
    BY <1>1, <1>2
  <2>3. GfMul(c, GfAdd(F[i - 1], f[i])) = GfAdd(GfMul(c, F[i - 1]), GfMul(c, f[i]))
    <3>1. F[i - 1] \in Bytes /\ f[i] \in Bytes
      BY <2>2
    <3>2. \A x, y \in Bytes : GfMul(c, GfAdd(x, y)) = GfAdd(GfMul(c, x), GfMul(c, y))
      BY Ring
    <3> QED
      BY <3>1, <3>2, Zenon
  <2> QED
    BY <1>2, <2>1, <2>2, <2>3
<1> HIDE DEF N
<1>5. \A i \in 0 .. m : i \in N
  BY <1>2, <1>3, <1>4, Upwards
<1> QED
  BY <1>5, SMT DEF N, F, H

\* ... and only the terms that are summed matter.
LEMMA SumSame ==
  ASSUME NEW n \in Nat, NEW f \in [1 .. n -> Bytes], NEW h \in [1 .. n -> Bytes],
         NEW m \in 0 .. n, \A i \in 1 .. m : h[i] = f[i]
  PROVE  Sums8(h)[m] = Sums8(f)[m]
<1> DEFINE F == Sums8(f)
           H == Sums8(h)
           N == {i \in 0 .. m : H[i] = F[i]}
<1>1. /\ F[0] = Zero8 /\ \A i \in 1 .. n : F[i] = GfAdd(F[i - 1], f[i])
      /\ H[0] = Zero8 /\ \A i \in 1 .. n : H[i] = GfAdd(H[i - 1], h[i])
  BY SumsAre
<1> HIDE DEF F, H
<1>2. m \in Nat /\ 0 \in 0 .. m /\ \A i \in 1 .. m : i \in 1 .. n /\ i \in 0 .. m
  BY SMT
<1>3. 0 \in N /\ \A i \in 1 .. m : i - 1 \in N => i \in N
  BY <1>1, <1>2
<1> HIDE DEF N
<1>4. \A i \in 0 .. m : i \in N
  BY <1>2, <1>3, Upwards
<1> QED
  BY <1>4, SMT DEF N, F, H

\* Both in one: the sum of the terms c (f + g).
LEMMA SumCombine ==
  ASSUME NEW n \in Nat, NEW c \in Bytes, NEW f \in [1 .. n -> Bytes], NEW g \in [1 .. n -> Bytes],
         NEW h \in [1 .. n -> Bytes], NEW m \in 0 .. n,
         \A i \in 1 .. m : h[i] = GfMul(c, GfAdd(f[i], g[i]))
  PROVE  Sums8(h)[m] = GfMul(c, GfAdd(Sums8(f)[m], Sums8(g)[m]))
<1> DEFINE e == [i \in 1 .. n |-> GfAdd(f[i], g[i])]
<1>1. \A i \in 1 .. m : i \in 1 .. n
  BY SMT
<1>2. e \in [1 .. n -> Bytes]
  BY Xor
<1>3. \A i \in 1 .. m : e[i] = GfAdd(f[i], g[i])
  BY <1>1
<1> HIDE DEF e
<1>4. Sums8(e)[m] = GfAdd(Sums8(f)[m], Sums8(g)[m])
  <2>1. TermByTerm(n, f, g, e, m)
    BY <1>2, <1>3 DEF TermByTerm
  <2> QED
    BY <2>1, SumAdd
<1>5. \A i \in 1 .. m : h[i] = GfMul(c, e[i])
  BY <1>3
<1>6. Sums8(h)[m] = GfMul(c, Sums8(e)[m])
  BY <1>2, <1>5, SumScale
<1> QED
  BY <1>4, <1>6

\* A product of factors that are not 0 is not 0.
LEMMA ProductNonZero ==
  ASSUME NEW n \in Nat, NEW f \in [1 .. n -> Bytes], NEW e, NEW m \in 0 .. n,
         \A i \in 1 .. m : i # e => f[i] # Zero8
  PROVE  ProductsWithout(e, f)[m] # Zero8
<1> DEFINE p == ProductsWithout(e, f)
           N == {i \in 0 .. m : p[i] # Zero8}
<1>1. /\ p \in [0 .. n -> Bytes] /\ p[0] = One8
      /\ \A i \in 1 .. n : p[i] = IF i = e THEN p[i - 1] ELSE GfMul(p[i - 1], f[i])
  BY ProductsAre
<1> HIDE DEF p
<1>2. m \in Nat /\ 0 \in 0 .. m /\ \A i \in 1 .. m : i \in 1 .. n /\ i \in 0 .. m /\ i - 1 \in 0 .. n
  BY SMT
<1>3. 0 \in N
  BY <1>1, <1>2, Xor
<1>4. ASSUME NEW i \in 1 .. m, i - 1 \in N PROVE i \in N
  <2>1. p[i - 1] \in Bytes /\ p[i - 1] # Zero8 /\ f[i] \in Bytes
    BY <1>1, <1>2, <1>4
  <2>2. CASE i = e
    BY <1>1, <1>2, <2>1, <2>2
  <2>3. CASE i # e
    <3>1. GfMul(p[i - 1], f[i]) # Zero8
      BY <2>1, <2>3, MulNonZero
    <3> QED
      BY <1>1, <1>2, <2>3, <3>1
  <2> QED
    BY <2>2, <2>3
<1> HIDE DEF N
<1>5. \A i \in 0 .. m : i \in N
  BY <1>2, <1>3, <1>4, Upwards
<1> QED
  BY <1>5, SMT DEF N, p

\* The products without f[e] are those of f up to e, and miss the factor from there on.
LEMMA ProductWithout ==
  ASSUME NEW n \in Nat, NEW f \in [1 .. n -> Bytes], NEW e \in 1 .. n, NEW m \in 0 .. n
  PROVE  ProductsWithout(0, f)[m] = IF m < e THEN ProductsWithout(e, f)[m]
                                             ELSE GfMul(ProductsWithout(e, f)[m], f[e])
<1> DEFINE p == ProductsWithout(e, f)
           q == ProductsWithout(0, f)
           N == {i \in 0 .. n : q[i] = IF i < e THEN p[i] ELSE GfMul(p[i], f[e])}
<1>1. /\ p \in [0 .. n -> Bytes] /\ p[0] = One8
      /\ \A i \in 1 .. n : p[i] = IF i = e THEN p[i - 1] ELSE GfMul(p[i - 1], f[i])
      /\ q[0] = One8 /\ \A i \in 1 .. n : q[i] = IF i = 0 THEN q[i - 1] ELSE GfMul(q[i - 1], f[i])
  BY ProductsAre
<1> HIDE DEF p, q
<1>2. 0 \in 0 .. n /\ 0 < e /\ f[e] \in Bytes
      /\ \A i \in 1 .. n : i \in 0 .. n /\ i - 1 \in 0 .. n /\ i # 0
  BY SMT
<1>3. 0 \in N
  BY <1>1, <1>2
<1>4. ASSUME NEW i \in 1 .. n, i - 1 \in N PROVE i \in N
  <2>1. q[i] = GfMul(q[i - 1], f[i]) /\ p[i - 1] \in Bytes /\ f[i] \in Bytes
    BY <1>1, <1>2
  <2>2. q[i - 1] = IF i - 1 < e THEN p[i - 1] ELSE GfMul(p[i - 1], f[e])
    BY <1>4
  <2>3. CASE i < e
    <3>1. i - 1 < e /\ i # e
      BY <2>3, SMT
    <3>2. q[i] = p[i]
      BY <1>1, <2>1, <2>2, <3>1
    <3> QED
      BY <1>2, <2>3, <3>2
  <2>4. CASE i = e
    <3>1. i - 1 < e /\ ~(i < e)
      BY <2>4, SMT
    <3>2. q[i] = GfMul(p[i], f[e])
      BY <1>1, <2>1, <2>2, <2>4, <3>1
    <3> QED
      BY <1>2, <3>1, <3>2
  <2>5. CASE i > e
    <3>1. ~(i - 1 < e) /\ ~(i < e) /\ i # e
      BY <2>5, SMT
    <3>2. q[i] = GfMul(GfMul(p[i - 1], f[e]), f[i]) /\ p[i] = GfMul(p[i - 1], f[i])
      BY <1>1, <2>1, <2>2, <3>1
    <3>3. GfMul(GfMul(p[i - 1], f[e]), f[i]) = GfMul(GfMul(p[i - 1], f[i]), f[e])
      BY <2>1, MulSwap
    <3> QED
      BY <1>2, <3>1, <3>2, <3>3
  <2> QED
    BY <2>3, <2>4, <2>5, SMT
<1> HIDE DEF N
<1>5. \A i \in 0 .. n : i \in N
  BY <1>3, <1>4, Upwards
<1> QED
  BY <1>5 DEF N, p, q

-----------------------------------------------------------------------------
(* Interpolation. *)

\* Points to interpolate at.
Points(n, xs) ==
  n \in Nat /\ xs \in [1 .. n -> Bytes] /\ \A i, j \in 1 .. n : i # j => xs[i] # xs[j]

\* The distances of the points from z.
Distances(n, xs, z) == [j \in 1 .. n |-> GfAdd(xs[j], z)]

\* The product of the distances of the first m points, without the e-th, from z; W is
\* the denominator of lagrange_at_zero for the first m points.
Q(n, xs, z, m) == ProductsWithout(0, Distances(n, xs, z))[m]
W(n, xs, e, m) == ProductsWithout(e, Distances(n, xs, xs[e]))[m]

\* The divided difference of the values F over the first m points.
Weighted(n, xs, F, m) == [i \in 1 .. n |-> GfMul(F[i], GfInv(W(n, xs, i, m)))]
DD(n, xs, F, m)       == Sums8(Weighted(n, xs, F, m))[m]

\* What W is.
LEMMA WIs ==
  ASSUME NEW n, NEW xs, Points(n, xs), NEW e \in 1 .. n
  PROVE  /\ Distances(n, xs, xs[e]) \in [1 .. n -> Bytes]
         /\ \A m \in 0 .. n : /\ W(n, xs, e, m) \in Bytes /\ W(n, xs, e, m) # Zero8
                              /\ GfInv(W(n, xs, e, m)) \in Bytes
         /\ W(n, xs, e, e) = W(n, xs, e, e - 1)
         /\ W(n, xs, e, e - 1) = Q(n, xs, xs[e], e - 1)
         /\ \A m \in 1 .. n : m # e => W(n, xs, e, m) = GfMul(W(n, xs, e, m - 1), GfAdd(xs[m], xs[e]))
         /\ \A m \in 1 .. n : m # e => GfAdd(xs[m], xs[e]) # Zero8
<1> DEFINE f == Distances(n, xs, xs[e])
           p == ProductsWithout(e, f)
<1>1. n \in Nat /\ xs \in [1 .. n -> Bytes] /\ (\A i, j \in 1 .. n : i # j => xs[i] # xs[j])
      /\ xs[e] \in Bytes
  BY DEF Points
<1>2. f \in [1 .. n -> Bytes]
  BY <1>1, Xor DEF Distances
<1>3. \A m \in 1 .. n : m # e => f[m] # Zero8
  BY <1>1, XorSwap DEF Distances
<1>4. \A m \in 1 .. n : f[m] = GfAdd(xs[m], xs[e])
  BY DEF Distances
<1> HIDE DEF f
<1>5. /\ p \in [0 .. n -> Bytes] /\ p[0] = One8
      /\ \A i \in 1 .. n : p[i] = IF i = e THEN p[i - 1] ELSE GfMul(p[i - 1], f[i])
  BY <1>1, <1>2, ProductsAre
<1>6. \A m \in 0 .. n : W(n, xs, e, m) = p[m]
  BY DEF W, f
<1>7. ASSUME NEW m \in 0 .. n
      PROVE  W(n, xs, e, m) \in Bytes /\ W(n, xs, e, m) # Zero8 /\ GfInv(W(n, xs, e, m)) \in Bytes
  <2>1. \A i \in 1 .. m : i \in 1 .. n
    BY <1>1, SMT
  <2>2. p[m] # Zero8
    BY <1>1, <1>2, <1>3, <2>1, ProductNonZero
  <2>3. p[m] \in Bytes
    BY <1>5
  <2> QED
    BY <1>6, <2>2, <2>3, GfInverse
<1>8. e \in 0 .. n /\ e - 1 \in 0 .. n /\ e - 1 < e /\ \A m \in 1 .. n : m \in 0 .. n /\ m - 1 \in 0 .. n
  BY <1>1, SMT
<1>9. W(n, xs, e, e) = W(n, xs, e, e - 1)
  BY <1>5, <1>6, <1>8
<1>10. W(n, xs, e, e - 1) = Q(n, xs, xs[e], e - 1)
  <2>1. ProductsWithout(0, f)[e - 1] = p[e - 1]
    BY <1>1, <1>2, <1>8, ProductWithout
  <2> QED
    BY <1>6, <1>8, <2>1 DEF Q, f
<1>11. \A m \in 1 .. n : m # e => W(n, xs, e, m) = GfMul(W(n, xs, e, m - 1), GfAdd(xs[m], xs[e]))
  BY <1>4, <1>5, <1>6, <1>8
<1> QED
  BY <1>2, <1>3, <1>4, <1>7, <1>9, <1>10, <1>11 DEF f

\* What Q is, for a z that is none of the first m points.
LEMMA QIs ==
  ASSUME NEW n, NEW xs, Points(n, xs), NEW z \in Bytes
  PROVE  /\ Q(n, xs, z, 0) = One8
         /\ \A m \in 1 .. n : Q(n, xs, z, m) = GfMul(Q(n, xs, z, m - 1), GfAdd(xs[m], z))
         /\ \A m \in 0 .. n : /\ Q(n, xs, z, m) \in Bytes
                              /\ (\A i \in 1 .. m : xs[i] # z) => Q(n, xs, z, m) # Zero8
<1> DEFINE f == Distances(n, xs, z)
           p == ProductsWithout(0, f)
<1>1. n \in Nat /\ xs \in [1 .. n -> Bytes]
  BY DEF Points
<1>2. f \in [1 .. n -> Bytes] /\ \A m \in 1 .. n : f[m] = GfAdd(xs[m], z)
  BY <1>1, Xor DEF Distances
<1> HIDE DEF f
<1>3. /\ p \in [0 .. n -> Bytes] /\ p[0] = One8
      /\ \A i \in 1 .. n : p[i] = IF i = 0 THEN p[i - 1] ELSE GfMul(p[i - 1], f[i])
  BY <1>1, <1>2, ProductsAre
<1>4. \A m : Q(n, xs, z, m) = p[m]
  BY DEF Q, f
<1>5. \A m \in 1 .. n : m # 0
  BY <1>1, SMT
<1>6. ASSUME NEW m \in 0 .. n, \A i \in 1 .. m : xs[i] # z
      PROVE  p[m] # Zero8
  <2>1. \A i \in 1 .. m : i \in 1 .. n
    BY <1>1, SMT
  <2>2. \A i \in 1 .. m : f[i] # Zero8
    <3> TAKE i \in 1 .. m
    <3>1. f[i] = GfAdd(xs[i], z) /\ xs[i] # z
      BY <1>2, <1>6, <2>1
    <3> QED
      BY <3>1, XorSwap
  <2> QED
    BY <1>1, <1>2, <2>2, ProductNonZero
<1> HIDE DEF p
<1>7. \A m \in 1 .. n : Q(n, xs, z, m) = GfMul(Q(n, xs, z, m - 1), GfAdd(xs[m], z))
  BY <1>2, <1>3, <1>4, <1>5
<1> QED
  BY <1>3, <1>4, <1>6, <1>7

\* Adding a point to W divides its weight by their distance.
LEMMA WeightStep ==
  ASSUME NEW n, NEW xs, Points(n, xs), NEW i \in 1 .. n, NEW m \in 1 .. n, i # m
  PROVE  /\ GfInv(GfAdd(xs[i], xs[m])) \in Bytes
         /\ GfInv(W(n, xs, i, m)) = GfMul(GfInv(W(n, xs, i, m - 1)), GfInv(GfAdd(xs[i], xs[m])))
<1> DEFINE w == W(n, xs, i, m - 1)
           d == GfAdd(xs[m], xs[i])
<1>1. n \in Nat /\ m - 1 \in 0 .. n /\ xs[i] \in Bytes /\ xs[m] \in Bytes
  BY SMT DEF Points
<1>2. w \in Bytes /\ w # Zero8 /\ d # Zero8 /\ W(n, xs, i, m) = GfMul(w, d)
  BY <1>1, WIs
<1>3. d \in Bytes /\ GfAdd(xs[i], xs[m]) = d
  BY <1>1, Xor
<1> HIDE DEF w, d
<1>4. GfInv(GfMul(w, d)) = GfMul(GfInv(w), GfInv(d)) /\ GfInv(d) \in Bytes
  BY <1>2, <1>3, InvMul, GfInverse
<1> QED
  BY <1>2, <1>3, <1>4 DEF w

\* The terms of the partial fractions of 1 / Q(z).
Fractions(n, xs, z, m) == [i \in 1 .. n |-> GfMul(GfInv(GfAdd(xs[i], z)), GfInv(W(n, xs, i, m)))]

\* A term of the partial fractions, with one more point.
LEMMA FractionStep ==
  ASSUME NEW n, NEW xs, Points(n, xs), NEW m \in 1 .. n, NEW i \in 1 .. n, i # m,
         NEW z \in Bytes, z # xs[i], z # xs[m]
  PROVE  Fractions(n, xs, z, m)[i]
           = GfMul(GfInv(GfAdd(xs[m], z)),
                   GfAdd(Fractions(n, xs, z, m - 1)[i], Fractions(n, xs, xs[m], m - 1)[i]))
<1> DEFINE a == GfAdd(xs[i], z)
           b == GfAdd(xs[i], xs[m])
           v == GfInv(W(n, xs, i, m - 1))
           s == GfAdd(xs[m], z)
<1>1. n \in Nat /\ m - 1 \in 0 .. n /\ xs[i] \in Bytes /\ xs[m] \in Bytes /\ xs[i] # xs[m]
  BY SMT DEF Points
<1>2. a \in Bytes /\ b \in Bytes /\ s \in Bytes /\ a # Zero8 /\ b # Zero8 /\ s # Zero8
  BY <1>1, Xor, XorSwap
<1>3. GfAdd(a, b) = s
  <2>1. GfAdd(a, b) = GfAdd(GfAdd(xs[i], xs[i]), GfAdd(z, xs[m]))
    BY XorSwap
  <2> QED
    BY <2>1, Xor
<1>4. v \in Bytes /\ GfInv(W(n, xs, i, m)) = GfMul(v, GfInv(b))
  BY <1>1, WeightStep, WIs
<1>5. /\ Fractions(n, xs, z, m)[i] = GfMul(GfInv(a), GfInv(W(n, xs, i, m)))
      /\ Fractions(n, xs, z, m - 1)[i] = GfMul(GfInv(a), v)
      /\ Fractions(n, xs, xs[m], m - 1)[i] = GfMul(GfInv(b), v)
  BY DEF Fractions
<1> HIDE DEF a, b, v, s
<1> DEFINE p == GfInv(a)
           q == GfInv(b)
           r == GfInv(s)
<1>6. p \in Bytes /\ q \in Bytes /\ r \in Bytes
  BY <1>2, GfInverse
<1>7. GfMul(p, q) = GfMul(r, GfAdd(p, q))
  BY <1>2, <1>3, InvAdd
<1> HIDE DEF p, q, r
<1>8. GfMul(p, GfMul(v, q)) = GfMul(GfMul(p, q), v)
  <2>1. GfMul(v, q) = GfMul(q, v)
    BY <1>4, <1>6, Ring
  <2>2. GfMul(p, GfMul(q, v)) = GfMul(GfMul(p, q), v)
    BY <1>4, <1>6, Ring
  <2> QED
    BY <2>1, <2>2
<1>9. GfMul(GfMul(r, GfAdd(p, q)), v) = GfMul(r, GfMul(GfAdd(p, q), v))
  <2>1. GfAdd(p, q) \in Bytes
    BY <1>6, Xor
  <2> QED
    BY <1>4, <1>6, <2>1, Ring
<1>10. GfMul(GfAdd(p, q), v) = GfAdd(GfMul(p, v), GfMul(q, v))
  BY <1>4, <1>6, Ring
<1>11. Fractions(n, xs, z, m)[i] = GfMul(p, GfMul(v, q))
  BY <1>4, <1>5 DEF p, q
<1>12. GfMul(r, GfAdd(GfMul(p, v), GfMul(q, v)))
         = GfMul(GfInv(GfAdd(xs[m], z)), GfAdd(Fractions(n, xs, z, m - 1)[i], Fractions(n, xs, xs[m], m - 1)[i]))
  BY <1>5 DEF p, q, r, s
<1> QED
  BY <1>7, <1>8, <1>9, <1>10, <1>11, <1>12

\* Fractions are bytes.
LEMMA FractionsType ==
  ASSUME NEW n, NEW xs, Points(n, xs), NEW z \in Bytes, NEW m \in 0 .. n
  PROVE  Fractions(n, xs, z, m) \in [1 .. n -> Bytes]
<1> SUFFICES ASSUME NEW i \in 1 .. n
             PROVE  GfMul(GfInv(GfAdd(xs[i], z)), GfInv(W(n, xs, i, m))) \in Bytes
  BY DEF Fractions
<1>1. GfInv(W(n, xs, i, m)) \in Bytes /\ xs[i] \in Bytes
  BY WIs DEF Points
<1>2. GfAdd(xs[i], z) \in Bytes
  BY <1>1, Xor
<1>3. GfInv(GfAdd(xs[i], z)) \in Bytes
  BY <1>2, GfInverse
<1> QED
  BY <1>1, <1>3, Ring

\* The partial fractions of 1 / Q(z) add up to it.
LEMMA PartialFractions ==
  ASSUME NEW n, NEW xs, Points(n, xs)
  PROVE  \A m \in 1 .. n : \A z \in Bytes :
           (\A i \in 1 .. m : xs[i] # z) => Sums8(Fractions(n, xs, z, m))[m] = GfInv(Q(n, xs, z, m))
<1> DEFINE Sum(z, m) == Sums8(Fractions(n, xs, z, m))
           Adds(m) == \A z \in Bytes : (\A i \in 1 .. m : xs[i] # z) => Sum(z, m)[m] = GfInv(Q(n, xs, z, m))
           N == {m \in 0 .. n : m # 0 => Adds(m)}
<1>1. n \in Nat /\ xs \in [1 .. n -> Bytes] /\ (\A i, j \in 1 .. n : i # j => xs[i] # xs[j])
  BY DEF Points
<1>2. ASSUME NEW z \in Bytes, NEW m \in 0 .. n
      PROVE  /\ Sum(z, m) \in [0 .. n -> Bytes] /\ Sum(z, m)[0] = Zero8
             /\ \A i \in 1 .. n : Sum(z, m)[i] = GfAdd(Sum(z, m)[i - 1], Fractions(n, xs, z, m)[i])
  BY <1>1, FractionsType, SumsAre
<1> HIDE DEF Sum
<1>3. 0 \in N
  BY <1>1, SMT
<1>4. ASSUME NEW m \in 1 .. n, m - 1 \in N PROVE m \in N
  <2> SUFFICES ASSUME NEW z \in Bytes, \A i \in 1 .. m : xs[i] # z
               PROVE  Sum(z, m)[m] = GfInv(Q(n, xs, z, m))
    BY <1>1, SMT
  <2> DEFINE w == xs[m]
             s == GfAdd(w, z)
             k == m - 1
  <2>1. k \in 0 .. n /\ m \in 0 .. n /\ m \in 1 .. m /\ w \in Bytes /\ w # z
        /\ \A i \in 1 .. k : i \in 1 .. n /\ i \in 1 .. m /\ i # m
    BY <1>1, SMT
  <2>2. s \in Bytes /\ s # Zero8
    BY <2>1, Xor, XorSwap
  <2>3. Q(n, xs, z, k) \in Bytes /\ Q(n, xs, z, k) # Zero8
        /\ Q(n, xs, z, m) = GfMul(Q(n, xs, z, k), s)
    BY <2>1, QIs
  <2>4. GfInv(Q(n, xs, z, m)) = GfMul(GfInv(Q(n, xs, z, k)), GfInv(s))
    BY <2>2, <2>3, InvMul
  <2>5. Fractions(n, xs, z, m)[m] = GfMul(GfInv(s), GfInv(Q(n, xs, w, k)))
    <3>1. W(n, xs, m, m) = Q(n, xs, w, k)
      BY WIs
    <3> QED
      BY <3>1 DEF Fractions
  <2>6. Sum(z, m)[m] = GfAdd(Sum(z, m)[k], Fractions(n, xs, z, m)[m])
    BY <1>2, <2>1
  <2>7. GfInv(s) \in Bytes /\ GfInv(Q(n, xs, z, k)) \in Bytes /\ GfInv(Q(n, xs, w, k)) \in Bytes
    <3>1. Q(n, xs, w, k) \in Bytes
      BY <2>1, QIs
    <3> QED
      BY <2>2, <2>3, <3>1, GfInverse
  <2>8. Sum(z, m)[k] = GfMul(GfInv(s), GfAdd(Sum(z, k)[k], Sum(w, k)[k]))
    <3>1. \A i \in 1 .. k : Fractions(n, xs, z, m)[i]
                             = GfMul(GfInv(s), GfAdd(Fractions(n, xs, z, k)[i], Fractions(n, xs, w, k)[i]))
      <4> TAKE i \in 1 .. k
      <4>1. i \in 1 .. n /\ i # m /\ z # xs[i] /\ z # xs[m]
        BY <2>1
      <4> QED
        BY <4>1, FractionStep
    <3> HIDE DEF s, w, k
    <3>2. /\ Fractions(n, xs, z, k) \in [1 .. n -> Bytes] /\ Fractions(n, xs, w, k) \in [1 .. n -> Bytes]
          /\ Fractions(n, xs, z, m) \in [1 .. n -> Bytes] /\ k \in 0 .. n
      BY <2>1, FractionsType
    <3>3. GfInv(s) \in Bytes
      BY <2>7
    <3> DEFINE f == Fractions(n, xs, z, k)
               g == Fractions(n, xs, w, k)
               h == Fractions(n, xs, z, m)
               u == GfInv(s)
    <3>4. n \in Nat /\ u \in Bytes /\ f \in [1 .. n -> Bytes] /\ g \in [1 .. n -> Bytes]
          /\ h \in [1 .. n -> Bytes] /\ k \in 0 .. n
      BY <1>1, <3>2, <3>3
    <3>5. \A i \in 1 .. k : h[i] = GfMul(u, GfAdd(f[i], g[i]))
      BY <3>1
    <3> HIDE DEF f, g, h, u
    <3>6. Sums8(h)[k] = GfMul(u, GfAdd(Sums8(f)[k], Sums8(g)[k]))
      BY <3>4, <3>5, SumCombine
    <3> QED
      BY <3>6 DEF Sum, f, g, h, u
  <2>9. CASE k = 0
    <3>1. Sum(z, m)[k] = Zero8
      BY <1>2, <2>1, <2>9
    <3>2. Q(n, xs, z, k) = One8 /\ Q(n, xs, w, k) = One8
      BY <2>1, <2>9, QIs
    <3>3. GfInv(One8) = One8
      BY InvUnique, Ring, Xor
    <3>4. Sum(z, m)[m] = GfInv(s) /\ GfInv(Q(n, xs, z, m)) = GfInv(s)
      BY <2>4, <2>5, <2>6, <2>7, <3>1, <3>2, <3>3, Ring, Xor
    <3> QED
      BY <3>4
  <2>10. CASE k # 0
    <3>1. Sum(z, k)[k] = GfInv(Q(n, xs, z, k))
      BY <1>4, <2>1, <2>10
    <3>2. Sum(w, k)[k] = GfInv(Q(n, xs, w, k))
      <4>1. \A i \in 1 .. k : xs[i] # w
        BY <1>1, <2>1
      <4> QED
        BY <1>4, <2>1, <2>10, <4>1
    <3> DEFINE u == GfInv(s)
               p == GfInv(Q(n, xs, z, k))
               q == GfInv(Q(n, xs, w, k))
    <3>3. Sum(z, m)[m] = GfAdd(GfMul(u, GfAdd(p, q)), GfMul(u, q))
      BY <2>5, <2>6, <2>8, <3>1, <3>2
    <3>4. u \in Bytes /\ p \in Bytes /\ q \in Bytes
      BY <2>7
    <3>5. GfInv(Q(n, xs, z, m)) = GfMul(p, u)
      BY <2>4
    <3> HIDE DEF u, p, q
    <3>6. GfMul(u, GfAdd(p, q)) = GfAdd(GfMul(u, p), GfMul(u, q))
      BY <3>4, Ring
    <3>7. GfAdd(GfAdd(GfMul(u, p), GfMul(u, q)), GfMul(u, q)) = GfMul(u, p)
      BY XorAssoc, Xor
    <3>8. GfMul(u, p) = GfMul(p, u)
      BY <3>4, Ring
    <3> QED
      BY <3>3, <3>5, <3>6, <3>7, <3>8
  <2> QED
    BY <2>9, <2>10
<1> HIDE DEF N
<1>5. \A m \in 0 .. n : m \in N
  BY <1>1, <1>3, <1>4, Upwards
<1> QED
  BY <1>1, <1>5, SMT DEF N, Sum

\* The weights of the points for m of them.
Weights(n, xs, m) == [i \in 1 .. n |-> GfInv(W(n, xs, i, m))]

\* Weights are bytes, and so are weighted values.
LEMMA WeightsType ==
  ASSUME NEW n, NEW xs, Points(n, xs), NEW m \in 0 .. n
  PROVE  /\ Weights(n, xs, m) \in [1 .. n -> Bytes]
         /\ \A F \in [1 .. n -> Bytes] :
              /\ Weighted(n, xs, F, m) \in [1 .. n -> Bytes]
              /\ \A i \in 1 .. n : Weighted(n, xs, F, m)[i] = GfMul(F[i], Weights(n, xs, m)[i])
              /\ DD(n, xs, F, m) \in Bytes
<1>1. \A i \in 1 .. n : GfInv(W(n, xs, i, m)) \in Bytes
  BY WIs
<1>2. Weights(n, xs, m) \in [1 .. n -> Bytes]
  BY <1>1 DEF Weights
<1>3. ASSUME NEW F \in [1 .. n -> Bytes]
      PROVE  /\ Weighted(n, xs, F, m) \in [1 .. n -> Bytes]
             /\ \A i \in 1 .. n : Weighted(n, xs, F, m)[i] = GfMul(F[i], Weights(n, xs, m)[i])
             /\ DD(n, xs, F, m) \in Bytes
  <2>1. \A i \in 1 .. n : GfMul(F[i], GfInv(W(n, xs, i, m))) \in Bytes
    <3> TAKE i \in 1 .. n
    <3>1. F[i] \in Bytes /\ GfInv(W(n, xs, i, m)) \in Bytes
      BY <1>1
    <3> QED
      BY <3>1, Ring
  <2>2. Weighted(n, xs, F, m) \in [1 .. n -> Bytes]
    BY <2>1 DEF Weighted
  <2>3. n \in Nat
    BY DEF Points
  <2>4. Sums8(Weighted(n, xs, F, m)) \in [0 .. n -> Bytes]
    BY <2>2, <2>3, SumsAre
  <2> QED
    BY <2>2, <2>4 DEF Weighted, Weights, DD
<1> QED
  BY <1>2, <1>3

\* With more than one point, the weights cancel.
LEMMA WeightsCancel ==
  ASSUME NEW n, NEW xs, Points(n, xs), NEW m \in 2 .. n
  PROVE  Sums8(Weights(n, xs, m))[m] = Zero8
<1> DEFINE k == m - 1
           w == xs[m]
           f == Fractions(n, xs, w, k)
           h == Weights(n, xs, m)
<1>1. n \in Nat /\ xs \in [1 .. n -> Bytes] /\ (\A i, j \in 1 .. n : i # j => xs[i] # xs[j])
  BY DEF Points
<1>2. m \in 1 .. n /\ m \in 0 .. n /\ k \in 1 .. n /\ k \in 0 .. n /\ \A i \in 1 .. k : i \in 1 .. n /\ i # m
  BY <1>1, SMT
<1>3. w \in Bytes /\ \A i \in 1 .. k : xs[i] # w
  BY <1>1, <1>2
<1>4. \A i \in 1 .. k : h[i] = f[i]
  <2> TAKE i \in 1 .. k
  <2>1. i \in 1 .. n /\ i # m
    BY <1>2
  <2>2. /\ GfInv(GfAdd(xs[i], xs[m])) \in Bytes
        /\ GfInv(W(n, xs, i, m)) = GfMul(GfInv(W(n, xs, i, m - 1)), GfInv(GfAdd(xs[i], xs[m])))
    BY <1>2, <2>1, WeightStep
  <2>3. GfInv(W(n, xs, i, m - 1)) \in Bytes
    BY <1>2, <2>1, WIs
  <2> DEFINE p == GfInv(W(n, xs, i, m - 1))
             q == GfInv(GfAdd(xs[i], xs[m]))
  <2>4. p \in Bytes /\ q \in Bytes
    BY <2>2, <2>3
  <2>5. h[i] = GfMul(p, q) /\ f[i] = GfMul(q, p)
    BY <2>1, <2>2 DEF Weights, Fractions
  <2> HIDE DEF p, q
  <2> QED
    BY <2>4, <2>5, Ring
<1>5. h[m] = GfInv(Q(n, xs, w, k))
  <2>1. W(n, xs, m, m) = Q(n, xs, w, k)
    BY <1>2, WIs
  <2> QED
    BY <1>2, <2>1 DEF Weights
<1>6. Sums8(f)[k] = GfInv(Q(n, xs, w, k))
  <2> HIDE DEF k, w
  <2> QED
    BY <1>2, <1>3, PartialFractions
<1>7. f \in [1 .. n -> Bytes] /\ h \in [1 .. n -> Bytes]
  <2> HIDE DEF k, w
  <2> QED
    BY <1>2, <1>3, FractionsType, WeightsType
<1> HIDE DEF f, h
<1>8. Sums8(h)[k] = Sums8(f)[k]
  <2> HIDE DEF k
  <2> QED
    BY <1>1, <1>2, <1>4, <1>7, SumSame
<1>9. Sums8(h)[m] = GfAdd(Sums8(h)[k], h[m])
  BY <1>1, <1>2, <1>7, SumsAre
<1>10. Sums8(h)[m] = GfAdd(h[m], h[m])
  BY <1>5, <1>6, <1>8, <1>9
<1> QED
  BY <1>10, Xor DEF h

\* The divided difference of x F(x) is that of F over one point less, and the last point
\* times that of F.
LEMMA DifferenceStep ==
  ASSUME NEW n, NEW xs, Points(n, xs), NEW m \in 1 .. n,
         NEW F \in [1 .. n -> Bytes], NEW G \in [1 .. n -> Bytes],
         \A i \in 1 .. n : G[i] = GfMul(F[i], xs[i])
  PROVE  DD(n, xs, G, m) = GfAdd(DD(n, xs, F, m - 1), GfMul(xs[m], DD(n, xs, F, m)))
<1> DEFINE k == m - 1
           w == xs[m]
           a == Weighted(n, xs, G, m)
           b == Weighted(n, xs, F, k)
           c == Weighted(n, xs, F, m)
           e == [i \in 1 .. n |-> GfMul(w, c[i])]
<1>1. n \in Nat /\ xs \in [1 .. n -> Bytes] /\ (\A i, j \in 1 .. n : i # j => xs[i] # xs[j])
  BY DEF Points
<1>2. m \in 0 .. n /\ k \in 0 .. n /\ w \in Bytes /\ \A i \in 1 .. k : i \in 1 .. n /\ i # m
  BY <1>1, SMT
<1>3. a \in [1 .. n -> Bytes] /\ b \in [1 .. n -> Bytes] /\ c \in [1 .. n -> Bytes]
  BY <1>2, WeightsType
<1>4. e \in [1 .. n -> Bytes]
  BY <1>2, <1>3, Ring
<1>5. \A i \in 1 .. n : a[i] = GfMul(xs[i], c[i])
  <2> TAKE i \in 1 .. n
  <2> DEFINE v == GfInv(W(n, xs, i, m))
             x == xs[i]
             y == F[i]
  <2>1. v \in Bytes /\ x \in Bytes /\ y \in Bytes
    BY <1>1, <1>2, WIs
  <2>2. a[i] = GfMul(GfMul(y, x), v) /\ c[i] = GfMul(y, v)
    BY DEF Weighted
  <2> HIDE DEF v, x, y
  <2>3. GfMul(GfMul(y, x), v) = GfMul(GfMul(y, v), x)
    BY <2>1, MulSwap
  <2>4. GfMul(y, v) \in Bytes
    BY <2>1, Ring
  <2>5. GfMul(GfMul(y, v), x) = GfMul(x, GfMul(y, v))
    BY <2>1, <2>4, Ring
  <2> QED
    BY <2>2, <2>3, <2>5 DEF x
<1>6. \A i \in 1 .. k : b[i] = GfMul(GfAdd(xs[i], w), c[i])
  <2> TAKE i \in 1 .. k
  <2>1. i \in 1 .. n /\ i # m
    BY <1>2
  <2> DEFINE v == GfInv(W(n, xs, i, k))
             d == GfAdd(xs[i], w)
             y == F[i]
             q == GfInv(d)
  <2>2. v \in Bytes /\ xs[i] \in Bytes /\ y \in Bytes /\ xs[i] # w
    BY <1>1, <1>2, <2>1, WIs
  <2>3. d \in Bytes /\ d # Zero8
    BY <1>2, <2>2, Xor, XorSwap
  <2>4. GfInv(W(n, xs, i, m)) = GfMul(v, q)
    BY <2>1, WeightStep
  <2>5. b[i] = GfMul(y, v) /\ c[i] = GfMul(y, GfMul(v, q))
    BY <2>1, <2>4 DEF Weighted
  <2> HIDE DEF v, y, d
  <2>6. q \in Bytes /\ GfMul(d, q) = One8
    BY <2>3, GfInverse
  <2> HIDE DEF q
  <2>7. GfMul(y, v) \in Bytes /\ GfMul(y, GfMul(v, q)) = GfMul(GfMul(y, v), q)
    BY <2>2, <2>6, Ring
  <2> DEFINE r == GfMul(y, v)
  <2> HIDE DEF r
  <2>8. r \in Bytes
    BY <2>7 DEF r
  <2>9. GfMul(d, GfMul(r, q)) = r
    <3>1. GfMul(r, q) = GfMul(q, r)
      BY <2>6, <2>8, Ring
    <3>2. GfMul(d, GfMul(q, r)) = GfMul(GfMul(d, q), r)
      BY <2>3, <2>6, <2>8, Ring
    <3>3. GfMul(One8, r) = r
      BY <2>8, Ring
    <3> QED
      BY <2>6, <3>1, <3>2, <3>3
  <2> QED
    BY <2>5, <2>7, <2>9 DEF r, d
<1>7. \A i \in 1 .. n : e[i] = GfMul(w, c[i])
  OBVIOUS
<1> HIDE DEF a, b, c, e
<1>8. \A i \in 1 .. k : a[i] = GfAdd(b[i], e[i])
  <2> TAKE i \in 1 .. k
  <2>1. i \in 1 .. n
    BY <1>2
  <2> DEFINE x == xs[i]
             y == c[i]
  <2>2. x \in Bytes /\ y \in Bytes
    BY <1>1, <1>3, <2>1
  <2>3. a[i] = GfMul(x, y) /\ e[i] = GfMul(w, y) /\ b[i] = GfMul(GfAdd(x, w), y)
    BY <1>5, <1>6, <1>7, <2>1
  <2> HIDE DEF x, y, w
  <2>4. GfMul(GfAdd(x, w), y) = GfAdd(GfMul(x, y), GfMul(w, y))
    BY <1>2, <2>2, Ring
  <2>5. GfAdd(GfAdd(GfMul(x, y), GfMul(w, y)), GfMul(w, y)) = GfMul(x, y)
    BY XorAssoc, Xor
  <2> QED
    BY <2>3, <2>4, <2>5
<1> HIDE DEF k, w
<1>9. Sums8(a)[k] = GfAdd(Sums8(b)[k], Sums8(e)[k])
  <2>1. TermByTerm(n, b, e, a, k)
    BY <1>1, <1>2, <1>3, <1>4, <1>8 DEF TermByTerm
  <2> QED
    BY <2>1, SumAdd
<1>10. Sums8(e)[m] = GfMul(w, Sums8(c)[m])
  <2>1. n \in Nat /\ w \in Bytes /\ m \in 0 .. n /\ \A i \in 1 .. m : i \in 1 .. n
    BY <1>1, <1>2, SMT
  <2>2. \A i \in 1 .. m : e[i] = GfMul(w, c[i])
    BY <2>1, <1>7
  <2>3. n \in Nat /\ w \in Bytes /\ m \in 0 .. n
    BY <2>1
  <2> QED
    BY <2>2, <2>3, <1>3, <1>4, SumScale
<1>11. Sums8(a)[m] = GfAdd(Sums8(a)[k], a[m]) /\ Sums8(e)[m] = GfAdd(Sums8(e)[k], e[m])
  BY <1>1, <1>3, <1>4, SumsAre DEF k
<1>12. a[m] = e[m]
  BY <1>5, <1>7 DEF w
<1>13. Sums8(a)[m] = GfAdd(Sums8(b)[k], Sums8(e)[m])
  BY <1>9, <1>11, <1>12, XorAssoc
<1> QED
  BY <1>10, <1>13 DEF DD, a, b, c, k, w

\* A constant adds itself times the sum of the weights.
LEMMA DifferenceAdd ==
  ASSUME NEW n, NEW xs, Points(n, xs), NEW m \in 0 .. n, NEW c \in Bytes,
         NEW F \in [1 .. n -> Bytes], NEW G \in [1 .. n -> Bytes],
         \A i \in 1 .. n : F[i] = GfAdd(G[i], c)
  PROVE  DD(n, xs, F, m) = GfAdd(DD(n, xs, G, m), GfMul(c, Sums8(Weights(n, xs, m))[m]))
<1> DEFINE v == Weights(n, xs, m)
           f == Weighted(n, xs, F, m)
           g == Weighted(n, xs, G, m)
           e == [i \in 1 .. n |-> GfMul(c, v[i])]
<1>1. n \in Nat /\ \A i \in 1 .. m : i \in 1 .. n
  BY SMT DEF Points
<1>2. v \in [1 .. n -> Bytes] /\ f \in [1 .. n -> Bytes] /\ g \in [1 .. n -> Bytes]
  BY WeightsType
<1>3. \A i \in 1 .. n : f[i] = GfMul(F[i], v[i]) /\ g[i] = GfMul(G[i], v[i]) /\ e[i] = GfMul(c, v[i])
  BY WeightsType
<1> HIDE DEF v, f, g
<1>4. e \in [1 .. n -> Bytes]
  BY <1>2, Ring
<1> HIDE DEF e
<1>5. \A i \in 1 .. n : f[i] = GfAdd(g[i], e[i])
  <2> TAKE i \in 1 .. n
  <2> DEFINE x == G[i]
             y == v[i]
  <2>1. x \in Bytes /\ y \in Bytes /\ F[i] = GfAdd(x, c)
    BY <1>2
  <2>2. f[i] = GfMul(GfAdd(x, c), y) /\ g[i] = GfMul(x, y) /\ e[i] = GfMul(c, y)
    BY <1>3, <2>1
  <2> HIDE DEF x, y
  <2> QED
    BY <2>1, <2>2, Ring
<1>6. Sums8(f)[m] = GfAdd(Sums8(g)[m], Sums8(e)[m])
  <2>1. TermByTerm(n, g, e, f, m)
    BY <1>1, <1>2, <1>4, <1>5 DEF TermByTerm
  <2> QED
    BY <2>1, SumAdd
<1>7. Sums8(e)[m] = GfMul(c, Sums8(v)[m])
  <2>1. n \in Nat /\ \A i \in 1 .. m : e[i] = GfMul(c, v[i])
    BY <1>1, <1>3
  <2> QED
    BY <2>1, <1>2, <1>4, SumScale
<1> QED
  BY <1>6, <1>7 DEF DD, v, f, g

\* What Horner's method computes round by round.
LEMMA HornerAre ==
  ASSUME NEW t \in Nat, NEW c \in [1 .. t -> Bytes], NEW x \in Bytes
  PROVE  /\ Horner(c, x) \in [0 .. t -> Bytes] /\ Horner(c, x)[0] = Zero8
         /\ \A k \in 1 .. t : Horner(c, x)[k] = GfAdd(GfMul(Horner(c, x)[k - 1], x), c[t + 1 - k])
         /\ EvalPoly(c, x) = Horner(c, x)[t]
<1> DEFINE Body(h) == [k \in 0 .. t |-> IF k = 0 THEN Zero8 ELSE GfAdd(GfMul(h[k - 1], x), c[t + 1 - k])]
           step == [k \in 1 .. t |-> [y \in Bytes |-> GfAdd(GfMul(y, x), c[t + 1 - k])]]
           p == Horner(c, x)
<1>1. 0 \in 0 .. t /\ \A k \in 1 .. t : k - 1 \in 0 .. t /\ k \in 0 .. t /\ k # 0 /\ t + 1 - k \in 1 .. t
  BY SMT
<1>2. \A k \in 1 .. t : \A y \in Bytes : GfAdd(GfMul(y, x), c[t + 1 - k]) \in Bytes
  <2> TAKE k \in 1 .. t
  <2> TAKE y \in Bytes
  <2>1. GfMul(y, x) \in Bytes
    BY Ring
  <2>2. c[t + 1 - k] \in Bytes
    BY <1>1
  <2> QED
    BY <2>1, <2>2, Xor
<1>3. step \in [1 .. t -> [Bytes -> Bytes]]
  BY <1>2
<1>4. PICK g : Recursive(g, Bytes, t, Zero8, step)
  <2> HIDE DEF step
  <2> QED
    BY <1>3, Recursion, Xor
<1>5. g \in [0 .. t -> Bytes] /\ g[0] = Zero8
      /\ \A k \in 1 .. t : g[k] = GfAdd(GfMul(g[k - 1], x), c[t + 1 - k])
  BY <1>1, <1>4 DEF Recursive
<1>6. \A k \in 0 .. t : k = 0 \/ k \in 1 .. t
  BY SMT
<1>7. g = Body(g)
  BY <1>5, <1>6
<1>8. p = CHOOSE h : h = Body(h)
  BY LenIs DEF Horner
<1> HIDE DEF Body, p
<1>9. p = Body(p)
  BY <1>7, <1>8
<1>10. p[0] = Zero8 /\ \A k \in 1 .. t : p[k] = GfAdd(GfMul(p[k - 1], x), c[t + 1 - k])
  BY <1>1, <1>9 DEF Body
<1> DEFINE N == {k \in 0 .. t : p[k] \in Bytes}
<1>11. 0 \in N
  BY <1>1, <1>10, Xor
<1>12. \A k \in 1 .. t : k - 1 \in N => k \in N
  BY <1>1, <1>2, <1>10
<1>13. \A k \in 0 .. t : k \in N
  <2> HIDE DEF N
  <2> QED
    BY <1>11, <1>12, Upwards
<1>14. p = [k \in 0 .. t |-> p[k]]
  BY <1>9 DEF Body
<1>15. EvalPoly(c, x) = p[t]
  BY LenIs DEF EvalPoly, p
<1> QED
  BY <1>10, <1>13, <1>14, <1>15 DEF p

\* The values at the points after k rounds of Horner's method.
HornerAt(c, xs, n, k) == [i \in 1 .. n |-> Horner(c, xs[i])[k]]

\* A polynomial with k coefficients has no divided difference over more than k points.
LEMMA DifferencesVanish ==
  ASSUME NEW n, NEW xs, Points(n, xs), NEW t \in Nat, NEW c \in [1 .. t -> Bytes]
  PROVE  \A k \in 0 .. t : /\ HornerAt(c, xs, n, k) \in [1 .. n -> Bytes]
                           /\ \A m \in 1 .. n : m > k => DD(n, xs, HornerAt(c, xs, n, k), m) = Zero8
<1> DEFINE H(k) == HornerAt(c, xs, n, k)
           N == {k \in 0 .. t : \A m \in 1 .. n : m > k => DD(n, xs, H(k), m) = Zero8}
<1>1. n \in Nat /\ xs \in [1 .. n -> Bytes] /\ 0 \in 0 .. t
  BY SMT DEF Points
<1>2. ASSUME NEW i \in 1 .. n
      PROVE  /\ Horner(c, xs[i]) \in [0 .. t -> Bytes] /\ Horner(c, xs[i])[0] = Zero8
             /\ \A k \in 1 .. t : Horner(c, xs[i])[k] = GfAdd(GfMul(Horner(c, xs[i])[k - 1], xs[i]), c[t + 1 - k])
  <2>1. xs[i] \in Bytes
    BY <1>1
  <2> QED
    BY <2>1, HornerAre
<1>3. \A k \in 0 .. t : H(k) \in [1 .. n -> Bytes]
  BY <1>2 DEF HornerAt
<1>4. \A k \in 0 .. t : \A i \in 1 .. n : H(k)[i] = Horner(c, xs[i])[k]
  BY DEF HornerAt
<1> HIDE DEF H
<1>5. 0 \in N
  <2> SUFFICES ASSUME NEW m \in 1 .. n PROVE DD(n, xs, H(0), m) = Zero8
    BY <1>1
  <2> DEFINE f == Weighted(n, xs, H(0), m)
             v == Weights(n, xs, m)
  <2>1. m \in 0 .. n /\ \A i \in 1 .. m : i \in 1 .. n
    BY <1>1, SMT
  <2>2. H(0) \in [1 .. n -> Bytes]
    BY <1>1, <1>3
  <2>3. f \in [1 .. n -> Bytes] /\ v \in [1 .. n -> Bytes]
    BY <2>1, <2>2, WeightsType
  <2>4. \A i \in 1 .. n : f[i] = GfMul(H(0)[i], v[i])
    BY <2>1, <2>2, WeightsType
  <2>5. \A i \in 1 .. n : H(0)[i] = Zero8
    BY <1>1, <1>2, <1>4
  <2>6. Zero8 \in Bytes
    BY Xor
  <2> HIDE DEF f, v
  <2>7. \A i \in 1 .. m : f[i] = GfMul(Zero8, v[i])
    BY <2>1, <2>4, <2>5
  <2>8. Sums8(f)[m] = GfMul(Zero8, Sums8(v)[m])
    BY <1>1, <2>1, <2>3, <2>6, <2>7, SumScale
  <2>9. Sums8(v)[m] \in Bytes
    <3>1. Sums8(v) \in [0 .. n -> Bytes]
      BY <1>1, <2>3, SumsAre
    <3> QED
      BY <2>1, <3>1
  <2> QED
    BY <2>8, <2>9, Ring DEF DD, f
<1>6. ASSUME NEW k \in 1 .. t, k - 1 \in N PROVE k \in N
  <2> SUFFICES ASSUME NEW m \in 1 .. n, m > k PROVE DD(n, xs, H(k), m) = Zero8
    BY SMT
  <2> DEFINE j == k - 1
             G == [i \in 1 .. n |-> GfMul(H(j)[i], xs[i])]
             a == c[t + 1 - k]
  <2>1. /\ j \in 0 .. t /\ k \in 0 .. t /\ t + 1 - k \in 1 .. t /\ m - 1 \in 1 .. n /\ m \in 2 .. n
        /\ m \in 0 .. n /\ m > j /\ m - 1 > j
    BY <1>1, SMT
  <2>2. a \in Bytes
    BY <2>1
  <2>3. H(j) \in [1 .. n -> Bytes] /\ H(k) \in [1 .. n -> Bytes]
    BY <1>3, <2>1
  <2>4. G \in [1 .. n -> Bytes]
    BY <1>1, <2>3, Ring
  <2>5. \A i \in 1 .. n : G[i] = GfMul(H(j)[i], xs[i])
    OBVIOUS
  <2>6. \A i \in 1 .. n : H(k)[i] = GfAdd(G[i], a)
    BY <1>2, <1>4, <2>1
  <2>7. DD(n, xs, H(j), m) = Zero8 /\ DD(n, xs, H(j), m - 1) = Zero8
    BY <1>6, <2>1
  <2> HIDE DEF G, a, j, H
  <2>8. DD(n, xs, G, m) = GfAdd(DD(n, xs, H(j), m - 1), GfMul(xs[m], DD(n, xs, H(j), m)))
    BY <2>3, <2>4, <2>5, DifferenceStep
  <2>9. DD(n, xs, H(k), m) = GfAdd(DD(n, xs, G, m), GfMul(a, Sums8(Weights(n, xs, m))[m]))
    BY <2>1, <2>2, <2>3, <2>4, <2>6, DifferenceAdd
  <2>10. Sums8(Weights(n, xs, m))[m] = Zero8
    BY <2>1, WeightsCancel
  <2>11. xs[m] \in Bytes
    BY <1>1
  <2>12. GfMul(xs[m], Zero8) = Zero8 /\ GfMul(a, Zero8) = Zero8
    BY <2>2, <2>11, Ring
  <2>13. GfAdd(Zero8, Zero8) = Zero8
    BY Xor
  <2> QED
    BY <2>7, <2>8, <2>9, <2>10, <2>12, <2>13
<1> HIDE DEF N
<1>7. \A k \in 0 .. t : k \in N
  BY <1>5, <1>6, Upwards
<1> QED
  BY <1>3, <1>7 DEF N, H

\* The ys are the values at the points xs of the polynomial with the coefficients c.
Samples(n, xs, t, c, ys) ==
  /\ Points(n, xs) /\ \A i \in 1 .. n : xs[i] # Zero8
  /\ t \in 1 .. n /\ c \in [1 .. t -> Bytes] /\ ys \in [1 .. n -> Bytes]
  /\ \A i \in 1 .. n : ys[i] = EvalPoly(c, xs[i])

\* Interpolating at 0: the values of a polynomial at points that are not 0, as many as it
\* has coefficients or more, give its first coefficient.
LEMMA Interpolation ==
  ASSUME NEW n, NEW xs, NEW t, NEW c, NEW ys, Samples(n, xs, t, c, ys)
  PROVE  LagrangeAtZero(xs, ys) = c[1]
<1> SUFFICES ASSUME Points(n, xs), \A i \in 1 .. n : xs[i] # Zero8,
                    t \in 1 .. n, c \in [1 .. t -> Bytes], ys \in [1 .. n -> Bytes],
                    \A i \in 1 .. n : ys[i] = EvalPoly(c, xs[i])
             PROVE  LagrangeAtZero(xs, ys) = c[1]
  BY DEF Samples
<1> DEFINE k == t - 1
           G == HornerAt(c, xs, n, k)
           X == Q(n, xs, Zero8, n)
           b == c[1]
           B == GfMul(X, b)
           v == Weights(n, xs, n)
           h == [i \in 1 .. n |-> GfMul(ys[i], LagrangeCoeff(xs, i))]
           f == Weighted(n, xs, G, n)
           r == Fractions(n, xs, Zero8, n)
<1>1. /\ n \in Nat /\ n \in 1 .. n /\ n \in 0 .. n /\ t \in Nat /\ t \in 1 .. t /\ 1 \in 1 .. t /\ k \in 0 .. t
      /\ t + 1 - t = 1 /\ n > k /\ xs \in [1 .. n -> Bytes] /\ \A i \in 1 .. n : ~(n < i)
  BY SMT DEF Points
<1>2. b \in Bytes
  BY <1>1
<1>3. \A i \in 1 .. n : ys[i] = GfAdd(GfMul(G[i], xs[i]), b)
  <2> TAKE i \in 1 .. n
  <2>1. xs[i] \in Bytes
    BY <1>1
  <2>2. EvalPoly(c, xs[i]) = GfAdd(GfMul(Horner(c, xs[i])[k], xs[i]), b)
    <3> DEFINE p == Horner(c, xs[i])
    <3>1. EvalPoly(c, xs[i]) = p[t] /\ \A j \in 1 .. t : p[j] = GfAdd(GfMul(p[j - 1], xs[i]), c[t + 1 - j])
      BY <1>1, <2>1, HornerAre
    <3> HIDE DEF p
    <3>2. p[t] = GfAdd(GfMul(p[t - 1], xs[i]), c[t + 1 - t])
      BY <1>1, <3>1
    <3> QED
      BY <1>1, <3>1, <3>2 DEF p
  <2> QED
    BY <2>2 DEF HornerAt
<1>4. G \in [1 .. n -> Bytes] /\ DD(n, xs, G, n) = Zero8
  <2> HIDE DEF k
  <2> QED
    BY <1>1, DifferencesVanish
<1>5. X \in Bytes /\ X # Zero8
  BY <1>1, QIs, Xor
<1> HIDE DEF G, b, k
<1>6. f \in [1 .. n -> Bytes] /\ r \in [1 .. n -> Bytes] /\ v \in [1 .. n -> Bytes]
      /\ \A i \in 1 .. n : f[i] = GfMul(G[i], v[i])
  <2>1. Zero8 \in Bytes
    BY Xor
  <2>2. v \in [1 .. n -> Bytes]
    BY <1>1, WeightsType
  <2>3. r \in [1 .. n -> Bytes]
    BY <1>1, <2>1, FractionsType
  <2>4. f \in [1 .. n -> Bytes] /\ \A i \in 1 .. n : f[i] = GfMul(G[i], v[i])
    BY <1>1, <1>4, WeightsType
  <2> QED
    BY <2>2, <2>3, <2>4
<1>7. \A i \in 1 .. n : GfInv(xs[i]) \in Bytes /\ r[i] = GfMul(GfInv(xs[i]), v[i])
  <2> TAKE i \in 1 .. n
  <2>1. xs[i] \in Bytes /\ xs[i] # Zero8
    BY <1>1
  <2>2. GfAdd(xs[i], Zero8) = xs[i]
    BY Xor
  <2> QED
    BY <2>1, <2>2, GfInverse DEF Fractions, Weights
<1>8. ASSUME NEW i \in 1 .. n
      PROVE  LagrangeCoeff(xs, i) = GfMul(GfMul(X, GfInv(xs[i])), v[i])
  <2> DEFINE p == ProductsWithout(i, xs)[n]
             x == xs[i]
  <2>1. DOMAIN xs = 1 .. n /\ Len(xs) = n
    BY <1>1, LenIs
  <2>2. LagrangeCoeff(xs, i) = GfMul(p, v[i])
    <3>1. [j \in DOMAIN xs |-> GfAdd(xs[j], xs[i])] = Distances(n, xs, xs[i])
      BY <2>1 DEF Distances
    <3> QED
      BY <2>1, <3>1 DEF LagrangeCoeff, Weights, W
  <2>3. Distances(n, xs, Zero8) = xs
    <3>1. \A j \in 1 .. n : GfAdd(xs[j], Zero8) = xs[j]
      BY Xor
    <3>2. xs = [j \in 1 .. n |-> xs[j]]
      BY <1>1
    <3> QED
      BY <3>1, <3>2 DEF Distances
  <2>4. X = GfMul(p, x)
    <3>1. ProductsWithout(0, xs)[n] = GfMul(p, x)
      BY <1>1, ProductWithout
    <3> QED
      BY <2>3, <3>1 DEF Q
  <2>5. p \in Bytes
    <3>1. ProductsWithout(i, xs) \in [0 .. n -> Bytes]
      BY <1>1, ProductsAre
    <3> QED
      BY <1>1, <3>1
  <2>6. x \in Bytes /\ x # Zero8
    BY <1>1
  <2> HIDE DEF p, X, x
  <2>7. GfInv(x) \in Bytes /\ GfMul(x, GfInv(x)) = One8
    BY <2>6, GfInverse
  <2>8. GfMul(GfMul(p, x), GfInv(x)) = GfMul(p, GfMul(x, GfInv(x)))
    BY <2>5, <2>6, <2>7, Ring
  <2>9. GfMul(p, One8) = p
    BY <2>5, Ring
  <2>10. GfMul(X, GfInv(x)) = p
    BY <2>4, <2>7, <2>8, <2>9
  <2> QED
    BY <2>2, <2>10 DEF x
<1> HIDE DEF X, v, f, r
<1>9. B \in Bytes
  BY <1>2, <1>5, Ring
<1>10. \A i \in 1 .. n : h[i] = GfAdd(GfMul(X, f[i]), GfMul(B, r[i]))
  <2> TAKE i \in 1 .. n
  <2> DEFINE x == xs[i]
             y == GfInv(x)
             g == G[i]
             u == v[i]
  <2>1. x \in Bytes /\ x # Zero8 /\ g \in Bytes /\ u \in Bytes
    BY <1>1, <1>4, <1>6
  <2>2. y \in Bytes /\ GfMul(x, y) = One8
    BY <2>1, GfInverse
  <2>3. h[i] = GfMul(GfAdd(GfMul(g, x), b), GfMul(GfMul(X, y), u))
    BY <1>3, <1>8
  <2>4. f[i] = GfMul(g, u) /\ r[i] = GfMul(y, u)
    BY <1>6, <1>7
  <2> HIDE DEF x, y, g, u, h
  <2>5. GfMul(X, y) \in Bytes
    BY <1>5, <2>2, Ring
  <2>6. GfMul(GfMul(X, y), u) \in Bytes /\ GfMul(g, x) \in Bytes /\ GfMul(g, u) \in Bytes /\ GfMul(y, u) \in Bytes
    BY <2>1, <2>2, <2>5, Ring
  <2>7. GfMul(GfAdd(GfMul(g, x), b), GfMul(GfMul(X, y), u))
          = GfAdd(GfMul(GfMul(g, x), GfMul(GfMul(X, y), u)), GfMul(b, GfMul(GfMul(X, y), u)))
    BY <1>2, <2>6, Ring
  <2>8. GfMul(b, GfMul(GfMul(X, y), u)) = GfMul(B, GfMul(y, u))
    <3>1. GfMul(GfMul(X, y), u) = GfMul(X, GfMul(y, u))
      BY <1>5, <2>1, <2>2, Ring
    <3>2. GfMul(b, GfMul(X, GfMul(y, u))) = GfMul(GfMul(b, X), GfMul(y, u))
      BY <1>2, <1>5, <2>6, Ring
    <3>3. GfMul(b, X) = B
      BY <1>2, <1>5, Ring
    <3> QED
      BY <3>1, <3>2, <3>3
  <2>9. GfMul(GfMul(g, x), GfMul(GfMul(X, y), u)) = GfMul(X, GfMul(g, u))
    <3>1. GfMul(GfMul(g, x), GfMul(GfMul(X, y), u)) = GfMul(GfMul(GfMul(g, x), GfMul(X, y)), u)
      BY <2>1, <2>5, <2>6, Ring
    <3>2. GfMul(GfMul(g, x), GfMul(X, y)) = GfMul(g, GfMul(x, GfMul(X, y)))
      BY <2>1, <2>5, Ring
    <3>3. GfMul(x, GfMul(X, y)) = X
      <4>1. GfMul(X, y) = GfMul(y, X)
        BY <1>5, <2>2, Ring
      <4>2. GfMul(x, GfMul(y, X)) = GfMul(GfMul(x, y), X)
        BY <1>5, <2>1, <2>2, Ring
      <4>3. GfMul(One8, X) = X
        BY <1>5, Ring
      <4> QED
        BY <2>2, <4>1, <4>2, <4>3
    <3>4. GfMul(g, X) = GfMul(X, g)
      BY <1>5, <2>1, Ring
    <3>5. GfMul(GfMul(X, g), u) = GfMul(X, GfMul(g, u))
      BY <1>5, <2>1, Ring
    <3> QED
      BY <3>1, <3>2, <3>3, <3>4, <3>5
  <2> QED
    BY <2>3, <2>4, <2>7, <2>8, <2>9
<1> DEFINE p == [i \in 1 .. n |-> GfMul(X, f[i])]
           q == [i \in 1 .. n |-> GfMul(B, r[i])]
<1>11. p \in [1 .. n -> Bytes] /\ q \in [1 .. n -> Bytes]
  <2> HIDE DEF B
  <2> QED
    BY <1>5, <1>6, <1>9, Ring
<1>12. \A i \in 1 .. n : p[i] = GfMul(X, f[i]) /\ q[i] = GfMul(B, r[i])
  OBVIOUS
<1>13. h \in [1 .. n -> Bytes]
  <2>1. \A i \in 1 .. n : GfAdd(p[i], q[i]) \in Bytes
    BY <1>11, Xor
  <2>2. \A i \in 1 .. n : h[i] \in Bytes
    BY <1>10, <1>12, <2>1
  <2> QED
    BY <2>2
<1>14. LagrangeAtZero(xs, ys) = Sums8(h)[n]
  BY <1>1, LenIs DEF LagrangeAtZero
<1>15. Sums8(r)[n] = GfInv(X)
  <2>1. Zero8 \in Bytes
    BY Xor
  <2> QED
    BY <1>1, <2>1, PartialFractions DEF r, X
<1>16. Sums8(f)[n] = Zero8
  BY <1>4 DEF f, DD
<1> HIDE DEF h, p, q, B
<1>17. Sums8(h)[n] = GfAdd(Sums8(p)[n], Sums8(q)[n])
  <2>1. TermByTerm(n, p, q, h, n)
    BY <1>1, <1>10, <1>11, <1>12, <1>13 DEF TermByTerm
  <2> QED
    BY <2>1, SumAdd
<1>18. Sums8(p)[n] = GfMul(X, Sums8(f)[n])
  <2>1. \A i \in 1 .. n : p[i] = GfMul(X, f[i])
    BY <1>12
  <2> QED
    BY <1>1, <1>5, <1>6, <1>11, <2>1, SumScale
<1>19. Sums8(q)[n] = GfMul(B, Sums8(r)[n])
  <2>1. \A i \in 1 .. n : q[i] = GfMul(B, r[i])
    BY <1>12
  <2> QED
    BY <1>1, <1>6, <1>9, <1>11, <2>1, SumScale
<1>20. GfMul(B, GfInv(X)) = b
  <2>1. GfInv(X) \in Bytes /\ GfMul(X, GfInv(X)) = One8
    BY <1>5, GfInverse
  <2>2. B = GfMul(b, X)
    BY <1>2, <1>5, Ring DEF B
  <2>3. GfMul(GfMul(b, X), GfInv(X)) = GfMul(b, GfMul(X, GfInv(X)))
    BY <1>2, <1>5, <2>1, Ring
  <2>4. GfMul(b, One8) = b
    BY <1>2, Ring
  <2> QED
    BY <2>1, <2>2, <2>3, <2>4
<1>21. GfMul(X, Zero8) = Zero8
  BY <1>5, Ring
<1>22. Sums8(h)[n] = GfAdd(Zero8, b)
  BY <1>15, <1>16, <1>17, <1>18, <1>19, <1>20, <1>21
<1>23. GfAdd(Zero8, b) = b
  BY Xor
<1> QED
  BY <1>14, <1>22, <1>23 DEF b

\* A number below 256 is the sum of its bits.
LEMMA BinaryDigits ==
  ASSUME NEW n \in 0 .. 255
  PROVE  n = (n % 2) + 2 * ((n \div 2) % 2) + 4 * ((n \div 4) % 2) + 8 * ((n \div 8) % 2)
             + 16 * ((n \div 16) % 2) + 32 * ((n \div 32) % 2) + 64 * ((n \div 64) % 2)
             + 128 * ((n \div 128) % 2)
BY SMTT(60)

\* Different indices are different points, and none of them is 0.
LEMMA ByteInjective ==
  /\ \A m, n \in 0 .. 255 : Byte(m) = Byte(n) => m = n
  /\ \A n \in 1 .. 255 : Byte(n) \in Bytes /\ Byte(n) # Zero8
<1>1. ASSUME NEW m \in 0 .. 255, NEW n \in 0 .. 255, Byte(m) = Byte(n) PROVE m = n
  <2>1. m \in Nat /\ n \in Nat
    BY SMT
  <2>2. /\ m % 2 = 1 <=> n % 2 = 1
        /\ (m \div 2) % 2 = 1 <=> (n \div 2) % 2 = 1
        /\ (m \div 4) % 2 = 1 <=> (n \div 4) % 2 = 1
        /\ (m \div 8) % 2 = 1 <=> (n \div 8) % 2 = 1
        /\ (m \div 16) % 2 = 1 <=> (n \div 16) % 2 = 1
        /\ (m \div 32) % 2 = 1 <=> (n \div 32) % 2 = 1
        /\ (m \div 64) % 2 = 1 <=> (n \div 64) % 2 = 1
        /\ (m \div 128) % 2 = 1 <=> (n \div 128) % 2 = 1
    BY <1>1, <2>1, ByteBits
  <2>3. \A k \in Nat : k % 2 = 0 \/ k % 2 = 1
    BY SMT
  <2>4. \A k \in {m, n} : /\ k \div 2 \in Nat /\ k \div 4 \in Nat /\ k \div 8 \in Nat /\ k \div 16 \in Nat
                          /\ k \div 32 \in Nat /\ k \div 64 \in Nat /\ k \div 128 \in Nat
    BY <2>1, SMT
  <2>5. /\ m % 2 = n % 2
        /\ (m \div 2) % 2 = (n \div 2) % 2
        /\ (m \div 4) % 2 = (n \div 4) % 2
        /\ (m \div 8) % 2 = (n \div 8) % 2
        /\ (m \div 16) % 2 = (n \div 16) % 2
        /\ (m \div 32) % 2 = (n \div 32) % 2
        /\ (m \div 64) % 2 = (n \div 64) % 2
        /\ (m \div 128) % 2 = (n \div 128) % 2
    BY <2>1, <2>2, <2>3, <2>4
  <2>6. /\ m = (m % 2) + 2 * ((m \div 2) % 2) + 4 * ((m \div 4) % 2) + 8 * ((m \div 8) % 2)
               + 16 * ((m \div 16) % 2) + 32 * ((m \div 32) % 2) + 64 * ((m \div 64) % 2)
               + 128 * ((m \div 128) % 2)
        /\ n = (n % 2) + 2 * ((n \div 2) % 2) + 4 * ((n \div 4) % 2) + 8 * ((n \div 8) % 2)
               + 16 * ((n \div 16) % 2) + 32 * ((n \div 32) % 2) + 64 * ((n \div 64) % 2)
               + 128 * ((n \div 128) % 2)
    BY BinaryDigits
  <2> QED
    BY <2>5, <2>6
<1>2. ASSUME NEW n \in 1 .. 255 PROVE Byte(n) \in Bytes /\ Byte(n) # Zero8
  <2>1. n \in Nat /\ n \in 0 .. 255 /\ 0 \in 0 .. 255 /\ n # 0 /\ 0 \in Nat
    BY SMT
  <2>2. Byte(0) = Zero8
    <3> DEFINE z == 0
    <3>1. /\ z % 2 # 1 /\ (z \div 2) % 2 # 1 /\ (z \div 4) % 2 # 1 /\ (z \div 8) % 2 # 1 /\ (z \div 16) % 2 # 1
          /\ (z \div 32) % 2 # 1 /\ (z \div 64) % 2 # 1 /\ (z \div 128) % 2 # 1 /\ z \in Nat
      BY SMT
    <3>2. \A i \in Bits : i \notin Byte(z)
      <4> HIDE DEF z
      <4>1. /\ 0 \notin Byte(z) /\ 1 \notin Byte(z) /\ 2 \notin Byte(z) /\ 3 \notin Byte(z)
            /\ 4 \notin Byte(z) /\ 5 \notin Byte(z) /\ 6 \notin Byte(z) /\ 7 \notin Byte(z)
        BY <3>1, ByteBits
      <4> QED
        BY <4>1, BitCases
    <3>3. \A i \in Byte(0) : i \in Bits
      BY DEF Byte
    <3> QED
      BY <3>2, <3>3, Zenon DEF Zero8
  <2> QED
    BY <1>1, <2>1, <2>2, ByteBits
<1> QED
  BY <1>1, <1>2

-----------------------------------------------------------------------------
(* The specification. *)

\* An index of a split is an index of the code.
LEMMA IndexInRange == \A n \in 1 .. 255 : \A i \in 1 .. n : i \in 1 .. 255 /\ i \in 0 .. 255 /\ i # 0
BY SMT

\* What split_secret returned.
IsSplit ==
  \E n \in 1 .. 255 : \E random \in [Width -> [1 .. Degree(threshold) -> Bytes]] :
    /\ ValidSplitParams(threshold, n) /\ threshold \in Nat
    /\ shares = [i \in 1 .. n |-> <<i, ShareValue(secret, random, i)>>]

\* The shares that exist.
Known == Foreign \cup {shares[i] : i \in DOMAIN shares}

\* The inductive invariant: shares come from one polynomial per byte, and the outcome is
\* what the shares collected since say.
IInv ==
  /\ secret \in Secrets
  /\ shares = << >> => collected = << >> /\ outcome = Unasked
  /\ shares # << >> => IsSplit
  /\ collected \in Seq(Known)
  /\ outcome = Unasked \/ outcome = RecoverSecretChecked(collected)

\* The invariant holds initially, ...
LEMMA InitIInv == Init => IInv
BY DEF Init, IInv

\* ... and is preserved by every step.
LEMMA StepIInv == IInv /\ [Next]_vars => IInv'
<1> SUFFICES ASSUME IInv, [Next]_vars PROVE IInv'
  OBVIOUS
<1>1. CASE SplitSecret
  <2>1. collected = << >> /\ outcome = Unasked /\ secret \in Secrets
    BY <1>1 DEF IInv, SplitSecret
  <2>2. IsSplit'
    <3>a. PICK p \in Sharings :
            /\ ValidSplitParams(p[1], p[2]) /\ threshold' = p[1]
            /\ \E random \in [Width -> [1 .. Degree(p[1]) -> Coefficients]] :
                 shares' = [i \in 1 .. p[2] |-> <<i, ShareValue(secret, random, i)>>]
      BY <1>1 DEF SplitSecret
    <3>b. PICK random \in [Width -> [1 .. Degree(p[1]) -> Coefficients]] :
            shares' = [i \in 1 .. p[2] |-> <<i, ShareValue(secret, random, i)>>]
      BY <3>a
    <3>1. /\ ValidSplitParams(p[1], p[2]) /\ threshold' = p[1]
          /\ shares' = [i \in 1 .. p[2] |-> <<i, ShareValue(secret, random, i)>>]
      BY <3>a, <3>b
    <3>2. p[1] \in Nat /\ p[2] \in Nat
      BY ShamirAssumption
    <3>3. p[2] \in 1 .. 255
      <4> DEFINE t == p[1]
                 n == p[2]
      <4>1. t \in Nat /\ n \in Nat /\ t >= 2 /\ n >= t /\ n <= 255
        BY <3>1, <3>2 DEF ValidSplitParams
      <4> HIDE DEF t, n
      <4>2. n \in 1 .. 255
        BY <4>1, SMT
      <4> QED
        BY <4>2 DEF n
    <3>4. random \in [Width -> [1 .. Degree(p[1]) -> Bytes]]
      BY ShamirAssumption
    <3>5. secret' = secret
      BY <1>1 DEF SplitSecret
    <3> QED
      BY <3>1, <3>2, <3>3, <3>4, <3>5 DEF IsSplit, Width
  <2>3. secret' = secret /\ collected' = collected /\ outcome' = outcome
    BY <1>1 DEF SplitSecret
  <2>4. << >> \in Seq(Known')
    BY SMT
  <2> QED
    BY <2>1, <2>2, <2>3, <2>4 DEF IInv
<1>2. CASE Receive
  <2>1. /\ secret' = secret /\ threshold' = threshold /\ shares' = shares /\ outcome' = Unasked
        /\ shares # << >>
    BY <1>2 DEF Receive
  <2>2. PICK s \in Known : collected' = Append(collected, s)
    BY <1>2 DEF Receive, Known
  <2>3. collected' \in Seq(Known)
    BY <2>2, AppendProperties DEF IInv
  <2>4. Known' = Known /\ IsSplit' = IsSplit
    BY <2>1 DEF Known, IsSplit, Width
  <2> QED
    BY <2>1, <2>3, <2>4 DEF IInv
<1>3. CASE Recover
  <2>1. /\ secret' = secret /\ threshold' = threshold /\ shares' = shares /\ collected' = collected
        /\ shares # << >> /\ outcome' = RecoverSecretChecked(collected)
    BY <1>3 DEF Recover
  <2>2. Known' = Known /\ IsSplit' = IsSplit /\ RecoverSecretChecked(collected)' = RecoverSecretChecked(collected)
    BY <2>1 DEF Known, IsSplit, Width, RecoverSecretChecked, RecoverSecret, CommitmentMatches
  <2> QED
    BY <2>1, <2>2 DEF IInv
<1>4. CASE UNCHANGED vars
  <2>1. /\ secret' = secret /\ threshold' = threshold /\ shares' = shares /\ collected' = collected
        /\ outcome' = outcome
    BY <1>4 DEF vars
  <2>2. Known' = Known /\ IsSplit' = IsSplit /\ RecoverSecretChecked(collected)' = RecoverSecretChecked(collected)
    BY <2>1 DEF Known, IsSplit, Width, RecoverSecretChecked, RecoverSecret, CommitmentMatches
  <2> QED
    BY <2>1, <2>2 DEF IInv
<1> QED
  BY <1>1, <1>2, <1>3, <1>4 DEF Next

\* Every behaviour has the invariant.
LEMMA AlwaysIInv == Spec => []IInv
<1>1. Init => IInv
  BY InitIInv
<1>2. IInv /\ [Next]_vars => IInv'
  BY StepIInv
<1> QED
  BY <1>1, <1>2, PTL DEF Spec

\* The coefficients of the polynomial of a byte.
LEMMA CoefficientsAre ==
  ASSUME NEW t \in Nat, t >= 1, NEW s \in Bytes, NEW r \in [1 .. t - 1 -> Bytes]
  PROVE  /\ <<s>> \o r \in [1 .. t -> Bytes] /\ (<<s>> \o r)[1] = s
         /\ \A k \in 2 .. t : (<<s>> \o r)[k] = r[k - 1]
<1>1. t - 1 \in Nat /\ 1 + (t - 1) = t
  BY SMT
<1>2. r \in Seq(Bytes) /\ Len(r) = t - 1
  BY <1>1, LenIs
<1>3. <<s>> \in Seq(Bytes) /\ Len(<<s>>) = 1 /\ <<s>>[1] = s
  BY SMT
<1>4. /\ <<s>> \o r \in Seq(Bytes) /\ Len(<<s>> \o r) = t
      /\ \A i \in 1 .. t : (<<s>> \o r)[i] = IF i <= 1 THEN <<s>>[i] ELSE r[i - 1]
  BY <1>1, <1>2, <1>3, ConcatProperties
<1> DEFINE d == <<s>> \o r
<1>5. d \in [1 .. t -> Bytes]
  <2>1. d \in Seq(Bytes) /\ Len(d) = t
    BY <1>4
  <2> HIDE DEF d
  <2> QED
    BY <2>1, LenProperties
<1> QED
  BY <1>3, <1>4, <1>5, SMT

\* The points and the values of a byte in a list of shares.
PointsOf(c)    == [i \in DOMAIN c |-> Byte(c[i][1])]
ValuesOf(c, b) == [i \in DOMAIN c |-> c[i][2][b]]

\* A list of shares as recover_secret asks for them, and what it makes of them.
Usable(c) ==
  /\ Points(Len(c), PointsOf(c)) /\ \A i \in 1 .. Len(c) : PointsOf(c)[i] # Zero8
  /\ \A b \in Width : ValuesOf(c, b) \in [1 .. Len(c) -> Bytes]
  /\ RecoverSecret(c) = Ok([b \in Width |-> LagrangeAtZero(PointsOf(c), ValuesOf(c, b))])

\* Enough different shares of a split recover the secret.
LEMMA Recovers ==
  ASSUME IInv, shares # << >>, NEW c \in Seq(Known), Genuine(c), Distinct(c), Len(c) >= threshold
  PROVE  /\ Usable(c)
         /\ \A b \in Width : LagrangeAtZero(PointsOf(c), ValuesOf(c, b)) = secret[b]
         /\ RecoverSecret(c) = Ok(secret)
<1> DEFINE n == Len(c)
           t == threshold
           xs == PointsOf(c)
           ys(b) == ValuesOf(c, b)
<1> USE DEF PointsOf, ValuesOf
<1>1. PICK N \in 1 .. 255, random \in [Width -> [1 .. Degree(threshold) -> Bytes]] :
        /\ ValidSplitParams(t, N) /\ t \in Nat
        /\ shares = [i \in 1 .. N |-> <<i, ShareValue(secret, random, i)>>]
  BY DEF IInv, IsSplit
<1>2. n \in Nat /\ DOMAIN c = 1 .. n /\ n >= t /\ t >= 2 /\ t \in 1 .. n /\ t >= 1 /\ 1 \in 1 .. n
  <2>1. n \in Nat /\ DOMAIN c = 1 .. n
    BY LenProperties
  <2> QED
    BY <1>1, <2>1, SMT DEF ValidSplitParams
<1>3. secret \in Seq(Bytes)
  BY ShamirAssumption DEF IInv
<1>4. \A b \in Width : secret[b] \in Bytes
  BY <1>3, ElementOfSeq, LenProperties DEF Width
<1>5. ASSUME NEW i \in 1 .. n
      PROVE  c[i][1] \in 1 .. 255 /\ c[i][2] = ShareValue(secret, random, c[i][1])
  <2>1. PICK j \in DOMAIN shares : c[i] = shares[j]
    BY <1>2 DEF Genuine
  <2>2. j \in 1 .. N /\ c[i] = <<j, ShareValue(secret, random, j)>>
    BY <1>1, <2>1
  <2>3. c[i][1] = j /\ c[i][2] = ShareValue(secret, random, j)
    BY <2>2
  <2>4. j \in 1 .. 255
    BY <2>2, IndexInRange
  <2> QED
    BY <2>3, <2>4
<1>6. \A i, j \in 1 .. n : i # j => c[i][1] # c[j][1]
  BY <1>2 DEF Distinct
<1>7. \A i \in 1 .. n : xs[i] = Byte(c[i][1])
  BY <1>2
<1>8. xs \in [1 .. n -> Bytes]
  BY <1>2, <1>5, ByteInjective
<1> HIDE DEF xs
<1>9. Points(n, xs) /\ \A i \in 1 .. n : xs[i] # Zero8
  <2>1. ASSUME NEW i \in 1 .. n, NEW j \in 1 .. n, i # j PROVE xs[i] # xs[j]
    <3> DEFINE a == c[i][1]
               b == c[j][1]
    <3>1. a \in 1 .. 255 /\ b \in 1 .. 255 /\ a # b /\ xs[i] = Byte(a) /\ xs[j] = Byte(b)
      BY <1>5, <1>6, <1>7, <2>1
    <3> HIDE DEF a, b
    <3>2. a \in 0 .. 255 /\ b \in 0 .. 255
      BY <3>1, SMT
    <3> QED
      BY <3>1, <3>2, ByteInjective
  <2>2. \A i \in 1 .. n : xs[i] # Zero8
    BY <1>5, <1>7, ByteInjective
  <2> QED
    BY <1>2, <1>8, <2>1, <2>2 DEF Points
<1>10. ASSUME NEW b \in Width
       PROVE  LagrangeAtZero(xs, ys(b)) = secret[b] /\ ys(b) \in [1 .. n -> Bytes]
  <2> DEFINE r == random[b]
             s == secret[b]
             d == <<s>> \o r
             y == ys(b)
  <2>1. s \in Bytes /\ r \in [1 .. t - 1 -> Bytes]
    BY <1>1, <1>4 DEF Degree
  <2>2. d \in [1 .. t -> Bytes] /\ d[1] = s
    <3> HIDE DEF s, r
    <3> QED
      BY <1>1, <1>2, <2>1, CoefficientsAre
  <2>3. \A i \in 1 .. n : y[i] = EvalPoly(d, xs[i])
    <3> TAKE i \in 1 .. n
    <3>1. y[i] = ShareValue(secret, random, c[i][1])[b]
      BY <1>2, <1>5
    <3>2. ShareValue(secret, random, c[i][1])[b] = EvalPoly(d, Byte(c[i][1]))
      BY DEF ShareValue, Width
    <3> QED
      BY <1>7, <3>1, <3>2
  <2>4. y = [i \in 1 .. n |-> y[i]]
    BY <1>2
  <2> HIDE DEF d, y
  <2>5. \A i \in 1 .. n : EvalPoly(d, xs[i]) \in Bytes
    <3> TAKE i \in 1 .. n
    <3>a. xs[i] \in Bytes
      BY <1>8
    <3>b. t \in 0 .. t
      BY <1>1, SMT
    <3>1. xs[i] \in Bytes /\ t \in 0 .. t
      BY <3>a, <3>b
    <3>2. EvalPoly(d, xs[i]) = Horner(d, xs[i])[t] /\ Horner(d, xs[i]) \in [0 .. t -> Bytes]
      BY <1>1, <2>2, <3>1, HornerAre
    <3> QED
      BY <3>1, <3>2
  <2>6. y \in [1 .. n -> Bytes]
    BY <2>3, <2>4, <2>5
  <2>7. LagrangeAtZero(xs, y) = d[1]
    <3>1. Samples(n, xs, t, d, y)
      BY <1>2, <1>9, <2>2, <2>3, <2>6 DEF Samples
    <3> HIDE DEF n, t
    <3> QED
      BY <3>1, Interpolation
  <2> QED
    BY <2>2, <2>6, <2>7 DEF y
<1>11. RecoverSecret(c) = Ok([b \in Width |-> LagrangeAtZero(xs, ys(b))])
  <2>1. c # << >>
    BY <1>2
  <2>2. ~ \E i \in DOMAIN c : c[i][1] = 0
    <3>1. \A k \in 1 .. 255 : k # 0
      BY SMT
    <3> QED
      BY <1>2, <1>5, <3>1
  <2>3. ~ \E i, j \in DOMAIN c : i # j /\ c[i][1] = c[j][1]
    BY <1>2, <1>6
  <2> QED
    BY <2>1, <2>2, <2>3, Zenon DEF RecoverSecret, xs
<1>12. [b \in Width |-> LagrangeAtZero(xs, ys(b))] = secret
  <2>1. [b \in Width |-> LagrangeAtZero(xs, ys(b))] = [b \in Width |-> secret[b]]
    BY <1>10
  <2>2. secret = [b \in Width |-> secret[b]]
    BY <1>3, LenProperties DEF Width
  <2> QED
    BY <2>1, <2>2
<1>13. RecoverSecret(c) = Ok(secret)
  BY <1>11, <1>12
<1>14. Usable(c)
  BY <1>9, <1>10, <1>11 DEF Usable, xs
<1>15. \A b \in Width : LagrangeAtZero(PointsOf(c), ValuesOf(c, b)) = secret[b]
  BY <1>10 DEF xs
<1> QED
  BY <1>13, <1>14, <1>15

\* RecoveryCorrect: as many different shares of a split as the threshold asks for, or more,
\* in any order, make recover_secret_checked return the secret that was split: for every
\* threshold, number of shares, choice of coefficients and secret of bytes.
THEOREM RecoveryCorrect == Spec => []EnoughSharesRecover
<1>1. ASSUME IInv PROVE EnoughSharesRecover
  <2> SUFFICES ASSUME outcome # Unasked, Genuine(collected), Distinct(collected), Len(collected) >= threshold
               PROVE  outcome = Ok(secret)
    BY DEF EnoughSharesRecover
  <2>1. /\ shares # << >> /\ outcome = RecoverSecretChecked(collected)
        /\ collected \in Seq(Known)
    BY <1>1 DEF IInv
  <2>2. RecoverSecret(collected) = Ok(secret)
    BY <1>1, <2>1, Recovers
  <2> QED
    BY <2>1, <2>2 DEF RecoverSecretChecked, CommitmentMatches, Ok
<1> QED
  BY <1>1, AlwaysIInv, PTL

\* A sum in which one term only is not zero is that term.
LEMMA SumOfOne ==
  ASSUME NEW n \in Nat, NEW f \in [1 .. n -> Bytes], NEW e \in 1 .. n,
         \A i \in 1 .. n : i # e => f[i] = Zero8
  PROVE  Sums8(f)[n] = f[e]
<1> DEFINE S == Sums8(f)
           N == {i \in 0 .. n : S[i] = IF i < e THEN Zero8 ELSE f[e]}
<1>1. S[0] = Zero8 /\ \A i \in 1 .. n : S[i] = GfAdd(S[i - 1], f[i])
  BY SumsAre
<1>2. /\ 0 \in 0 .. n /\ n \in 0 .. n /\ 0 < e /\ ~(n < e)
      /\ \A i \in 1 .. n : /\ i \in 0 .. n /\ i - 1 \in 0 .. n
                           /\ i < e => i - 1 < e /\ i # e
                           /\ i = e => i - 1 < e /\ ~(i < e)
                           /\ ~(i < e) /\ i # e => ~(i - 1 < e)
  BY SMT
<1>3. 0 \in N
  BY <1>1, <1>2
<1>4. ASSUME NEW i \in 1 .. n, i - 1 \in N PROVE i \in N
  <2>1. S[i] = GfAdd(S[i - 1], f[i]) /\ S[i - 1] = IF i - 1 < e THEN Zero8 ELSE f[e]
    BY <1>1, <1>4
  <2>2. GfAdd(Zero8, Zero8) = Zero8 /\ GfAdd(Zero8, f[e]) = f[e] /\ GfAdd(f[e], Zero8) = f[e]
    BY Xor
  <2>3. CASE i < e
    BY <1>2, <2>1, <2>2, <2>3
  <2>4. CASE i = e
    BY <1>2, <2>1, <2>2, <2>4
  <2>5. CASE ~(i < e) /\ i # e
    BY <1>2, <2>1, <2>2, <2>5
  <2> QED
    BY <2>3, <2>4, <2>5
<1> HIDE DEF N, S
<1>5. \A i \in 0 .. n : i \in N
  BY <1>3, <1>4, Upwards
<1> QED
  BY <1>2, <1>5 DEF N, S

\* Every share counts: no coefficient of the interpolation is zero.
LEMMA CoeffNonZero ==
  ASSUME NEW n, NEW xs, Points(n, xs), \A i \in 1 .. n : xs[i] # Zero8, NEW e \in 1 .. n
  PROVE  LagrangeCoeff(xs, e) \in Bytes /\ LagrangeCoeff(xs, e) # Zero8
<1> DEFINE p == ProductsWithout(e, xs)[n]
           w == W(n, xs, e, n)
<1>1. n \in Nat /\ n \in 0 .. n /\ xs \in [1 .. n -> Bytes]
  BY SMT DEF Points
<1>2. DOMAIN xs = 1 .. n /\ Len(xs) = n
  BY <1>1, LenIs
<1>3. LagrangeCoeff(xs, e) = GfMul(p, GfInv(w))
  <2>1. [j \in DOMAIN xs |-> GfAdd(xs[j], xs[e])] = Distances(n, xs, xs[e])
    BY <1>2 DEF Distances
  <2> QED
    BY <1>2, <2>1 DEF LagrangeCoeff, W
<1>4. p \in Bytes
  <2>1. ProductsWithout(e, xs) \in [0 .. n -> Bytes]
    BY <1>1, ProductsAre
  <2> QED
    BY <1>1, <2>1
<1>5. p # Zero8
  BY <1>1, ProductNonZero
<1>6. w \in Bytes /\ w # Zero8
  BY <1>1, WIs
<1> HIDE DEF p, w
<1>7. GfInv(w) \in Bytes /\ GfMul(w, GfInv(w)) = One8
  BY <1>6, GfInverse
<1>8. GfInv(w) # Zero8
  BY <1>6, <1>7, Ring, Xor
<1> QED
  BY <1>3, <1>4, <1>5, <1>7, <1>8, MulNonZero, Ring

\* Two lists of values at the points xs that differ in one place.
DifferAt(n, xs, ys, zs, e) ==
  /\ Points(n, xs) /\ \A i \in 1 .. n : xs[i] # Zero8
  /\ ys \in [1 .. n -> Bytes] /\ zs \in [1 .. n -> Bytes]
  /\ e \in 1 .. n /\ ys[e] # zs[e] /\ \A i \in 1 .. n : i # e => ys[i] = zs[i]

\* They interpolate to different values.
LEMMA OneOff ==
  ASSUME NEW n, NEW xs, NEW ys, NEW zs, NEW e, DifferAt(n, xs, ys, zs, e)
  PROVE  LagrangeAtZero(xs, ys) # LagrangeAtZero(xs, zs)
<1> DEFINE f == [i \in 1 .. n |-> GfMul(ys[i], LagrangeCoeff(xs, i))]
           g == [i \in 1 .. n |-> GfMul(zs[i], LagrangeCoeff(xs, i))]
           d == [i \in 1 .. n |-> GfAdd(g[i], f[i])]
<1>1. /\ n \in Nat /\ n \in 0 .. n /\ xs \in [1 .. n -> Bytes] /\ e \in 1 .. n
      /\ ys \in [1 .. n -> Bytes] /\ zs \in [1 .. n -> Bytes]
      /\ ys[e] # zs[e] /\ \A i \in 1 .. n : i # e => ys[i] = zs[i]
  <2>1. n \in Nat
    BY DEF DifferAt, Points
  <2>2. n \in 0 .. n
    BY <2>1, SMT
  <2> QED
    BY <2>1, <2>2 DEF DifferAt, Points
<1>2. \A i \in 1 .. n : LagrangeCoeff(xs, i) \in Bytes /\ LagrangeCoeff(xs, i) # Zero8
  BY CoeffNonZero DEF DifferAt
<1>3. f \in [1 .. n -> Bytes] /\ g \in [1 .. n -> Bytes]
  BY <1>1, <1>2, Ring
<1>4. /\ LagrangeAtZero(xs, ys) = Sums8(f)[n]
      /\ LagrangeAtZero(xs, zs) = Sums8(g)[n]
  BY <1>1, LenIs DEF LagrangeAtZero
<1>5. d \in [1 .. n -> Bytes]
  <2> HIDE DEF f, g
  <2> QED
    BY <1>3, Xor
<1>6. \A i \in 1 .. n : d[i] = GfAdd(g[i], f[i])
  OBVIOUS
<1>7. \A i \in 1 .. n : i # e => d[i] = Zero8
  <2> SUFFICES ASSUME NEW i \in 1 .. n, i # e PROVE d[i] = Zero8
    OBVIOUS
  <2>1. f[i] = g[i]
    BY <1>1
  <2> QED
    BY <1>6, <2>1, Xor
<1>8. d[e] # Zero8
  <2> DEFINE l == LagrangeCoeff(xs, e)
             y == ys[e]
             z == zs[e]
  <2>1. f[e] = GfMul(y, l) /\ g[e] = GfMul(z, l)
    BY <1>1
  <2>2. l \in Bytes /\ l # Zero8 /\ y \in Bytes /\ z \in Bytes /\ y # z
    BY <1>1, <1>2
  <2>3. d[e] = GfAdd(GfMul(z, l), GfMul(y, l))
    BY <1>1, <1>6, <2>1
  <2> HIDE DEF l, y, z, d, f, g
  <2>4. GfAdd(z, y) \in Bytes /\ GfAdd(z, y) # Zero8
    BY <2>2, Xor, XorSwap
  <2>5. GfMul(GfAdd(z, y), l) # Zero8
    BY <2>2, <2>4, MulNonZero
  <2>6. GfMul(GfAdd(z, y), l) = GfAdd(GfMul(z, l), GfMul(y, l))
    BY <2>2, MulLinear
  <2> QED
    BY <2>3, <2>5, <2>6
<1>9. Sums8(d)[n] = d[e]
  <2> HIDE DEF d
  <2> QED
    BY <1>1, <1>5, <1>7, SumOfOne
<1>10. Sums8(f)[n] = GfAdd(Sums8(g)[n], Sums8(d)[n])
  <2>1. \A i \in 1 .. n : f[i] = GfAdd(g[i], d[i])
    BY <1>6, XorSwap
  <2> HIDE DEF f, g, d
  <2>2. TermByTerm(n, g, d, f, n)
    BY <1>1, <1>3, <1>5, <2>1 DEF TermByTerm
  <2> QED
    BY <2>2, SumAdd
<1> HIDE DEF f, g, d
<1>11. ASSUME Sums8(f)[n] = Sums8(g)[n] PROVE FALSE
  <2> DEFINE s == Sums8(g)[n]
             w == d[e]
  <2>1. s = GfAdd(s, w)
    BY <1>9, <1>10, <1>11
  <2> HIDE DEF s, w
  <2>2. GfAdd(s, GfAdd(s, w)) = w /\ GfAdd(s, s) = Zero8
    BY Xor, XorSwap
  <2>3. w = Zero8
    BY <2>1, <2>2
  <2> QED
    BY <1>8, <2>3 DEF w
<1> QED
  BY <1>4, <1>11

\* A list of enough different shares, all but the e-th genuine and that one altered.
AlteredAt(c, e) ==
  /\ Distinct(c) /\ Len(c) >= threshold /\ e \in DOMAIN c /\ Altered(c[e])
  /\ \A i \in DOMAIN c \ {e} : \E j \in DOMAIN shares : c[i] = shares[j]

\* It recovers something else than the secret.
LEMMA AlteredDiffers ==
  ASSUME IInv, shares # << >>, NEW c \in Seq(Known), NEW e, AlteredAt(c, e)
  PROVE  RecoverSecret(c).status = "Ok" /\ RecoverSecret(c).value # secret
<1> DEFINE n == Len(c)
           k == c[e][1]
           g == [i \in 1 .. n |-> IF i = e THEN shares[k] ELSE c[i]]
<1>1. n \in Nat /\ DOMAIN c = 1 .. n /\ e \in 1 .. n /\ \A i \in 1 .. n : c[i] \in Known
  <2>1. n \in Nat /\ DOMAIN c = 1 .. n /\ \A i \in 1 .. n : c[i] \in Known
    BY LenProperties, ElementOfSeq
  <2> QED
    BY <2>1 DEF AlteredAt
<1>2. PICK N \in 1 .. 255, random \in [Width -> [1 .. Degree(threshold) -> Bytes]] :
        shares = [i \in 1 .. N |-> <<i, ShareValue(secret, random, i)>>]
  BY DEF IInv, IsSplit
<1>3. k \in 1 .. N /\ DOMAIN shares = 1 .. N /\ shares[k] = <<k, ShareValue(secret, random, k)>>
  BY <1>2 DEF AlteredAt, Altered
<1>4. shares[k][1] = k /\ c[e] # shares[k] /\ \A j \in 1 .. N : shares[j][1] = j
  BY <1>2, <1>3 DEF AlteredAt, Altered
<1>5. /\ g[e] = shares[k]
      /\ \A i \in 1 .. n : i # e => g[i] = c[i]
      /\ \A i \in 1 .. n : g[i][1] = c[i][1]
      /\ DOMAIN g = 1 .. n
  BY <1>1, <1>4
<1>6. \A i \in 1 .. n : \E j \in DOMAIN shares : g[i] = shares[j]
  <2> SUFFICES ASSUME NEW i \in 1 .. n PROVE \E j \in DOMAIN shares : g[i] = shares[j]
    OBVIOUS
  <2>1. CASE i = e
    BY <1>3, <1>5, <2>1
  <2>2. CASE i # e
    BY <1>1, <1>5, <2>2 DEF AlteredAt
  <2> QED
    BY <2>1, <2>2
<1> HIDE DEF g, k
<1>7. g \in Seq(Known) /\ Len(g) = n
  <2>1. \A i \in 1 .. n : g[i] \in Known
    BY <1>6 DEF Known
  <2>2. g \in [1 .. n -> Known]
    <3>1. g = [i \in 1 .. n |-> g[i]]
      BY DEF g
    <3> QED
      BY <2>1, <3>1
  <2> QED
    BY <1>1, <2>2, LenIs
<1>8. Genuine(g) /\ Distinct(g) /\ Len(g) >= threshold
  BY <1>1, <1>5, <1>6, <1>7 DEF Genuine, Distinct, AlteredAt
<1>9. Usable(g) /\ \A b \in Width : LagrangeAtZero(PointsOf(g), ValuesOf(g, b)) = secret[b]
  BY <1>7, <1>8, Recovers
<1>10. PointsOf(c) = PointsOf(g)
  BY <1>1, <1>5 DEF PointsOf
<1>11. c[e] \in Foreign
  <2>1. ASSUME NEW j \in DOMAIN shares, c[e] = shares[j] PROVE FALSE
    <3>1. k = j
      BY <1>3, <1>4, <2>1 DEF k
    <3> QED
      BY <1>4, <2>1, <3>1
  <2> QED
    BY <1>1, <2>1 DEF Known
<1>12. c[e][2] \in [Width -> Bytes] /\ c[e] = <<k, c[e][2]>>
  <2>1. Foreign \subseteq (0 .. 255) \X [Width -> Bytes]
    BY ShamirAssumption DEF IInv, Width
  <2> QED
    BY <1>11, <2>1 DEF k
<1>13. g[e][2] \in [Width -> Bytes] /\ g[e] = <<k, g[e][2]>> /\ g[e][2] # c[e][2]
  <2>1. g[e] = <<k, ShareValue(secret, random, k)>>
    BY <1>3, <1>5
  <2>2. g[e][2] = ShareValue(secret, random, k)
    BY <2>1
  <2>3. \A b \in Width : g[e][2][b] \in Bytes
    <3> TAKE b \in Width
    <3>1. ValuesOf(g, b) \in [1 .. n -> Bytes]
      BY <1>7, <1>9 DEF Usable
    <3>2. ValuesOf(g, b)[e] = g[e][2][b]
      BY <1>1, <1>5 DEF ValuesOf
    <3> QED
      BY <1>1, <3>1, <3>2
  <2>4. ShareValue(secret, random, k) = [b \in Width |-> ShareValue(secret, random, k)[b]]
    BY DEF ShareValue, Width
  <2>5. g[e][2] \in [Width -> Bytes]
    BY <2>2, <2>3, <2>4
  <2>6. g[e] # c[e]
    BY <1>4, <1>5
  <2> QED
    BY <1>12, <2>1, <2>2, <2>5, <2>6
<1>14. PICK b \in Width : c[e][2][b] # g[e][2][b]
  BY <1>12, <1>13
<1>15. \A w \in Width : ValuesOf(c, w) \in [1 .. n -> Bytes]
  <2> TAKE w \in Width
  <2>1. ValuesOf(g, w) \in [1 .. n -> Bytes]
    BY <1>7, <1>9 DEF Usable
  <2>2. ASSUME NEW i \in 1 .. n PROVE c[i][2][w] \in Bytes
    <3>1. CASE i = e
      BY <1>12, <3>1
    <3>2. CASE i # e
      <4>1. ValuesOf(g, w)[i] = c[i][2][w]
        BY <1>5, <3>2 DEF ValuesOf
      <4> QED
        BY <2>1, <4>1
    <3> QED
      BY <3>1, <3>2
  <2> QED
    BY <1>1, <2>2 DEF ValuesOf
<1>16. DifferAt(n, PointsOf(g), ValuesOf(c, b), ValuesOf(g, b), e)
  <2>1. /\ Points(n, PointsOf(g)) /\ \A i \in 1 .. n : PointsOf(g)[i] # Zero8
        /\ ValuesOf(g, b) \in [1 .. n -> Bytes]
    BY <1>7, <1>9 DEF Usable
  <2>2. ValuesOf(c, b)[e] # ValuesOf(g, b)[e]
    BY <1>1, <1>5, <1>14 DEF ValuesOf
  <2>3. \A i \in 1 .. n : i # e => ValuesOf(c, b)[i] = ValuesOf(g, b)[i]
    BY <1>1, <1>5 DEF ValuesOf
  <2> QED
    BY <1>1, <1>15, <2>1, <2>2, <2>3 DEF DifferAt
<1>17. LagrangeAtZero(PointsOf(c), ValuesOf(c, b)) # secret[b]
  BY <1>9, <1>10, <1>16, OneOff
<1>18. RecoverSecret(c) = Ok([w \in Width |-> LagrangeAtZero(PointsOf(c), ValuesOf(c, w))])
  <2>1. c # << >>
    BY <1>1
  <2>2. ~ \E i \in DOMAIN c : c[i][1] = 0
    <3>1. \A j \in 1 .. 255 : \A m \in 1 .. j : m # 0
      BY SMT
    <3>2. \A i \in 1 .. n : g[i][1] \in 1 .. N
      BY <1>3, <1>4, <1>6
    <3> QED
      BY <1>1, <1>5, <3>1, <3>2
  <2>3. ~ \E i, j \in DOMAIN c : i # j /\ c[i][1] = c[j][1]
    BY DEF AlteredAt, Distinct
  <2> QED
    BY <2>1, <2>2, <2>3, Zenon DEF RecoverSecret, PointsOf, ValuesOf
<1>19. RecoverSecret(c).value[b] # secret[b]
  BY <1>17, <1>18 DEF Ok
<1> QED
  BY <1>18, <1>19 DEF Ok

\* AlteredCorrect: one altered share among as many shares as the threshold or more makes
\* recover_secret_checked answer CommitmentMismatch, for every threshold, number of shares,
\* secret, choice of coefficients and altered value.
THEOREM AlteredCorrect == Spec => []AlteredIsNoticed
<1>1. ASSUME IInv PROVE AlteredIsNoticed
  <2> SUFFICES ASSUME outcome # Unasked, NEW e, AlteredAt(collected, e)
               PROVE  outcome = Err("CommitmentMismatch")
    BY DEF AlteredIsNoticed, AlteredAt
  <2>1. /\ shares # << >> /\ outcome = RecoverSecretChecked(collected)
        /\ collected \in Seq(Known)
    BY <1>1 DEF IInv
  <2>2. /\ RecoverSecret(collected).status = "Ok"
        /\ RecoverSecret(collected).value # secret
    BY <1>1, <2>1, AlteredDiffers
  <2> QED
    BY <2>1, <2>2 DEF RecoverSecretChecked, CommitmentMatches
<1> QED
  BY <1>1, AlwaysIInv, PTL

\* SecrecyCorrect: a share of a split with threshold 2 takes every value as its coefficient
\* ranges over the bytes, whatever the secret byte is, for every index.
THEOREM SecrecyCorrect == Spec => []OneShareSaysNothing
<1>1. ASSUME IInv PROVE OneShareSaysNothing
  <2> SUFFICES ASSUME NEW i \in DOMAIN shares, NEW b \in Width
               PROVE  {ShareValue(<<secret[b]>>, <<r>>, i) : r \in [1 .. Degree(2) -> Bytes]} = {<<y>> : y \in Bytes}
    BY DEF OneShareSaysNothing
  <2> DEFINE s == secret[b]
             x == Byte(i)
             Value(r) == EvalPoly(<<s>> \o r, x)
  <2>1. i \in 1 .. 255
    <3>1. PICK n \in 1 .. 255 : DOMAIN shares = 1 .. n
      <4>1. shares # << >>
        OBVIOUS
      <4> QED
        BY <1>1, <4>1 DEF IInv, IsSplit
    <3> QED
      BY <3>1, IndexInRange
  <2>2. x \in Bytes /\ x # Zero8
    BY <2>1, ByteInjective
  <2>3. s \in Bytes
    <3>1. secret \in Seq(Bytes)
      BY <1>1, ShamirAssumption DEF IInv
    <3> QED
      BY <3>1, ElementOfSeq, LenProperties DEF Width
  <2>4. Degree(2) = 1
    BY DEF Degree
  <2> HIDE DEF s, x
  <2>5. ASSUME NEW r \in [1 .. 1 -> Bytes]
        PROVE  ShareValue(<<s>>, <<r>>, i) = <<Value(r)>>
    <3>1. ShareValue(<<s>>, <<r>>, i) = [k \in 1 .. 1 |-> EvalPoly(<<<<s>>[k]>> \o <<r>>[k], x)]
      BY DEF ShareValue, x
    <3>2. \A k \in 1 .. 1 : <<s>>[k] = s /\ <<r>>[k] = r
      BY SMT
    <3>3. ShareValue(<<s>>, <<r>>, i) = [k \in 1 .. 1 |-> Value(r)]
      BY <3>1, <3>2
    <3> HIDE DEF Value
    <3> QED
      BY <3>3, SMT
  <2>6. ASSUME NEW r \in [1 .. 1 -> Bytes]
        PROVE  r[1] \in Bytes /\ Value(r) = GfAdd(GfMul(r[1], x), s)
    <3> DEFINE d == <<s>> \o r
               h == Horner(d, x)
    <3>1. d \in [1 .. 2 -> Bytes] /\ d[1] = s /\ d[2] = r[1]
      <4>1. 2 \in Nat /\ 2 >= 1 /\ 2 - 1 = 1 /\ 2 \in 2 .. 2
        BY SMT
      <4> QED
        BY <2>3, <4>1, CoefficientsAre
    <3>2. r[1] \in Bytes
      BY SMT
    <3> HIDE DEF d
    <3>3. /\ h[0] = Zero8 /\ EvalPoly(d, x) = h[2]
          /\ \A k \in 1 .. 2 : h[k] = GfAdd(GfMul(h[k - 1], x), d[2 + 1 - k])
      <4>1. 2 \in Nat
        BY SMT
      <4> QED
        BY <2>2, <3>1, <4>1, HornerAre
    <3> HIDE DEF h
    <3>4. h[1] = GfAdd(GfMul(Zero8, x), d[2]) /\ h[2] = GfAdd(GfMul(h[1], x), d[1])
      BY <3>3, SMT
    <3>5. GfMul(Zero8, x) = Zero8
      BY <2>2, Ring
    <3>6. h[1] = r[1]
      BY <3>1, <3>4, <3>5, Xor
    <3> QED
      BY <3>1, <3>2, <3>3, <3>4, <3>6 DEF d
  <2> HIDE DEF Value
  <2>7. \A r \in [1 .. 1 -> Bytes] : Value(r) \in Bytes
    <3> TAKE r \in [1 .. 1 -> Bytes]
    <3>1. r[1] \in Bytes /\ Value(r) = GfAdd(GfMul(r[1], x), s)
      BY <2>6
    <3>2. GfMul(r[1], x) \in Bytes
      BY <2>2, <3>1, Ring
    <3> QED
      BY <2>3, <3>1, <3>2, Xor
  <2>8. ASSUME NEW y \in Bytes PROVE \E r \in [1 .. 1 -> Bytes] : Value(r) = y
    <3> DEFINE u == GfInv(x)
               e == GfAdd(y, s)
               v == GfMul(e, u)
               r == [k \in 1 .. 1 |-> v]
    <3>1. u \in Bytes /\ GfMul(x, u) = One8 /\ e \in Bytes
      BY <2>2, <2>3, GfInverse, Xor
    <3> HIDE DEF u
    <3>2. GfAdd(e, s) = y
      BY XorAssoc, Xor
    <3> HIDE DEF e
    <3>3. v \in Bytes
      BY <3>1, Ring
    <3>4. GfMul(GfMul(e, u), x) = e
      <4>1. GfMul(GfMul(e, u), x) = GfMul(e, GfMul(u, x))
        BY <2>2, <3>1, Ring
      <4>2. GfMul(u, x) = GfMul(x, u) /\ GfMul(e, One8) = e
        BY <2>2, <3>1, Ring
      <4> QED
        BY <3>1, <4>1, <4>2
    <3>5. r \in [1 .. 1 -> Bytes] /\ r[1] = v
      BY <3>3, SMT
    <3> HIDE DEF r
    <3>6. Value(r) = GfAdd(GfMul(v, x), s)
      BY <2>6, <3>5
    <3> QED
      BY <3>2, <3>4, <3>5, <3>6
  <2>9. {ShareValue(<<s>>, <<r>>, i) : r \in [1 .. 1 -> Bytes]} = {<<Value(r)>> : r \in [1 .. 1 -> Bytes]}
    BY <2>5
  <2>10. {<<Value(r)>> : r \in [1 .. 1 -> Bytes]} = {<<y>> : y \in Bytes}
    BY <2>7, <2>8
  <2> QED
    BY <2>4, <2>9, <2>10 DEF s
<1> QED
  BY <1>1, AlwaysIInv, PTL
=============================================================================
