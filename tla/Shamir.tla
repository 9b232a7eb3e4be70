------------------------------- MODULE Shamir -------------------------------
(***************************************************************************)
(* Shamir secret sharing (src/crypto/shamir.rs).  A dealer splits a secret *)
(* into shares; a collector receives shares one by one, in any order, of   *)
(* this split or of an earlier one, some twice and some altered, and tries *)
(* to recover the secret from what it has.                                 *)
(*                                                                         *)
(* A secret is a sequence of bytes, each shared with a polynomial of its   *)
(* own.  The commitment is a hash, which is to say the secret itself where *)
(* two commitments are compared.                                           *)
(***************************************************************************)
EXTENDS GF256, Sequences

CONSTANTS
  Secrets,       \* byte sequences of one length, 32 in the code
  Coefficients,  \* the bytes the random generator can give
  Sharings,      \* the pairs <<threshold, shares>> asked for
  Foreign,       \* the shares that are not of this split, <<index, bytes>>
  MaxCollected   \* bound: shares the collector receives

ASSUME ShamirAssumption ==
  /\ Secrets \subseteq Seq(Bytes) /\ Coefficients \subseteq Bytes
  /\ Sharings \subseteq Nat \X Nat
  /\ \A s \in Secrets : Foreign \subseteq (0 .. 255) \X [DOMAIN s -> Bytes]
  /\ MaxCollected \in Nat

VARIABLES
  secret,      \* the secret that was split
  threshold,
  shares,      \* what split_secret returned, << >> after an error
  collected,   \* the shares the collector has, in the order they came
  outcome      \* what recover_secret_checked says of them

vars == <<secret, threshold, shares, collected, outcome>>

Width == DOMAIN secret

\* Horner's method, from the last coefficient to the first: the result after each
\* round.
Horner(coeffs, x) ==
  LET h[k \in 0 .. Len(coeffs)] ==
        IF k = 0 THEN Zero8
        ELSE GfAdd(GfMul(h[k - 1], x), coeffs[Len(coeffs) + 1 - k])
  IN  h

EvalPoly(coeffs, x) == Horner(coeffs, x)[Len(coeffs)]

\* Slips of the code that the properties must notice; no specification uses
\* them.
DegreeOneLess(t) == t - 2
AnyCommitment(value) == TRUE

\* The random coefficients of a polynomial, above the secret byte.
Degree(t) == t - 1

ValidSplitParams(t, n) == t >= 2 /\ n >= t /\ n <= 255

\* The value of the share with this index.
ShareValue(s, random, index) ==
  [b \in DOMAIN s |-> EvalPoly(<<s[b]>> \o random[b], Byte(index))]

\* The products of the first entries of f, leaving out the i-th.
ProductsWithout(i, f) ==
  LET p[j \in 0 .. Len(f)] ==
        IF j = 0 THEN One8 ELSE IF j = i THEN p[j - 1] ELSE GfMul(p[j - 1], f[j])
  IN  p

\* The sums of the first entries of f.
Sums8(f) ==
  LET s[i \in 0 .. Len(f)] == IF i = 0 THEN Zero8 ELSE GfAdd(s[i - 1], f[i])
  IN  s

LagrangeCoeff(xs, i) ==
  LET numerator   == ProductsWithout(i, xs)[Len(xs)]
      denominator == ProductsWithout(i, [j \in DOMAIN xs |-> GfAdd(xs[j], xs[i])])[Len(xs)]
  IN  GfMul(numerator, GfInv(denominator))

\* The points are given by their first components and their second.
LagrangeAtZero(xs, ys) ==
  Sums8([i \in DOMAIN xs |-> GfMul(ys[i], LagrangeCoeff(xs, i))])[Len(xs)]

Ok(value)   == [status |-> "Ok", value |-> value]
Err(reason) == [status |-> reason, value |-> << >>]
Unasked     == Err("not called")

\* recover_secret
RecoverSecret(c) ==
  IF c = << >> THEN Err("NoSharesProvided")
  ELSE IF \E i \in DOMAIN c : c[i][1] = 0 THEN Err("InvalidShareIndex")
  ELSE IF \E i, j \in DOMAIN c : i # j /\ c[i][1] = c[j][1] THEN Err("DuplicateShareIndex")
  ELSE Ok([b \in Width |-> LagrangeAtZero([i \in DOMAIN c |-> Byte(c[i][1])],
                                         [i \in DOMAIN c |-> c[i][2][b]])])

\* The commitments of the value and of the secret that was split are equal.
CommitmentMatches(value) == value = secret

RecoverSecretChecked(c) ==
  LET r == RecoverSecret(c)
  IN  IF r.status # "Ok" \/ CommitmentMatches(r.value) THEN r ELSE Err("CommitmentMismatch")

-----------------------------------------------------------------------------
Init ==
  /\ secret \in Secrets
  /\ threshold = 0 /\ shares = << >> /\ collected = << >> /\ outcome = Unasked

SplitSecret ==
  /\ shares = << >>
  /\ \E p \in Sharings :
       /\ ValidSplitParams(p[1], p[2])
       /\ \E random \in [Width -> [1 .. Degree(p[1]) -> Coefficients]] :
            shares' = [i \in 1 .. p[2] |-> <<i, ShareValue(secret, random, i)>>]
       /\ threshold' = p[1]
  /\ UNCHANGED <<secret, collected, outcome>>

Receive ==
  /\ shares # << >> /\ Len(collected) < MaxCollected
  /\ \E s \in Foreign \cup {shares[i] : i \in DOMAIN shares} :
       collected' = Append(collected, s)
  /\ outcome' = Unasked
  /\ UNCHANGED <<secret, threshold, shares>>

Recover ==
  /\ shares # << >> /\ outcome = Unasked
  /\ outcome' = RecoverSecretChecked(collected)
  /\ UNCHANGED <<secret, threshold, shares, collected>>

Next == SplitSecret \/ Receive \/ Recover

Spec == Init /\ [][Next]_vars

-----------------------------------------------------------------------------
Genuine(c) == \A i \in DOMAIN c : \E j \in DOMAIN shares : c[i] = shares[j]
Distinct(c) == \A i, j \in DOMAIN c : i # j => c[i][1] # c[j][1]

\* Any threshold shares of a split, or more, in any order, give the secret back.
EnoughSharesRecover ==
  outcome # Unasked /\ Genuine(collected) /\ Distinct(collected) /\ Len(collected) >= threshold
    => outcome = Ok(secret)

\* A share of this split with another value than the dealer gave it.
Altered(s) == s[1] \in DOMAIN shares /\ s # shares[s[1]]

\* One altered share among the threshold or more that are brought is noticed,
\* wherever it stands and however many genuine ones come with it: every share
\* counts, so that the value comes out wrong, and the commitment tells it from
\* the secret.
AlteredIsNoticed ==
  /\ outcome # Unasked /\ Distinct(collected) /\ Len(collected) >= threshold
  /\ \E e \in DOMAIN collected :
       /\ Altered(collected[e])
       /\ \A i \in DOMAIN collected \ {e} : \E j \in DOMAIN shares : collected[i] = shares[j]
  => outcome = Err("CommitmentMismatch")

\* One share of a split with threshold 2 says nothing: as its coefficient ranges
\* over the bytes, every share takes every value, whatever the secret is.
OneShareSaysNothing ==
  threshold = 2 /\ collected = << >> =>
    \A i \in DOMAIN shares : \A b \in Width :
      {ShareValue(<<secret[b]>>, <<r>>, i) : r \in [1 .. Degree(2) -> Bytes]} = {<<y>> : y \in Bytes}
=============================================================================
