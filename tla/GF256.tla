------------------------------- MODULE GF256 -------------------------------
(***************************************************************************)
(* The field GF(2^8) of src/crypto/shamir.rs, with the AES polynomial      *)
(* x^8 + x^4 + x^3 + x + 1.  A byte is the set of the bits that are 1, so  *)
(* that gf_add, the XOR of two bytes, is the symmetric difference.         *)
(***************************************************************************)
EXTENDS Integers

Bits  == 0 .. 7
Bytes == SUBSET Bits
Zero8 == {}
One8  == {0}

\* The byte that represents a number below 256, as 1 .. 7 by their bits.
Byte(n) == {i \in Bits : (n \div 2^i) % 2 = 1}

AesPoly == Byte(27)

GfAdd(a, b) == (a \ b) \cup (b \ a)

\* Slips of the code that the properties must notice; no specification uses
\* them.
DoubleUnreduced(a) == {i + 1 : i \in a \ {7}}

\* a <<= 1, reduced by the polynomial when the high bit is shifted out.
Double(a) ==
  LET shifted == {i + 1 : i \in a \ {7}}
  IN  IF 7 \in a THEN GfAdd(shifted, AesPoly) ELSE shifted

\* The a of the rounds of gf_mul.
Doubles(a) ==
  LET d[i \in 0 .. 7] == IF i = 0 THEN a ELSE Double(d[i - 1])
  IN  d

\* Shift and add: the a of a round is added if its bit of b is set.
GfMul(a, b) ==
  LET result[i \in 0 .. 8] ==
        IF i = 0 THEN Zero8
        ELSE IF i - 1 \in b THEN GfAdd(result[i - 1], Doubles(a)[i - 1])
        ELSE result[i - 1]
  IN  result[8]

\* s1 .. s7 of gf_inv, each the square of the one before it, and s0 = a.
Squares(a) ==
  LET s[i \in 0 .. 7] == IF i = 0 THEN a ELSE GfMul(s[i - 1], s[i - 1])
  IN  s

\* The product a^128 a^64 ... a^2, that is, a^254.  The mask for a = 0 at the end of the code
\* changes nothing, 0^254 being 0.
GfInv(a) ==
  LET r[i \in 0 .. 6] ==
        IF i = 0 THEN Squares(a)[7] ELSE GfMul(r[i - 1], Squares(a)[7 - i])
  IN  r[6]
=============================================================================
