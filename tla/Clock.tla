------------------------------- MODULE Clock -------------------------------
(***************************************************************************)
(* The arithmetic of src/crypto/clock.rs: the number drawn from the seed   *)
(* is moved into the range where 19A + 9B represents every number, read as *)
(* a clock, and a second hash picks one of its representations.  All of it *)
(* goes into the key, so both ends of an envelope must compute the same.   *)
(*                                                                         *)
(* The code works in u128; the two hashes are arguments here, natural      *)
(* numbers, and no value below exceeds the number it is computed from.     *)
(***************************************************************************)
EXTENDS Diophantine

MinNumber == 144   \* MIN_N: (19 - 1) * (9 - 1) - 1, and one more

SecMs  == 1000
MinMs  == 60 * SecMs
HourMs == 60 * MinMs
DayMs  == 24 * HourMs

-----------------------------------------------------------------------------
(* Slips of the code that the properties must notice; no definition uses them. *)

NumberAsDrawn(drawn) == drawn

DecomposeWholeMinutes(n) ==
  LET rem == n % DayMs
  IN  [d |-> n \div DayMs, h |-> rem \div HourMs, m |-> rem \div MinMs,
       s |-> (rem % MinMs) \div SecMs, ms |-> n % SecMs]

-----------------------------------------------------------------------------
\* derive_key_from_clock: the number of the key, from the hash of the seed.
ClockNumber(drawn) == IF drawn < MinNumber THEN drawn + MinNumber ELSE drawn

Decompose(n) ==
  LET rem == n % DayMs
  IN  [d |-> n \div DayMs, h |-> rem \div HourMs, m |-> (rem % HourMs) \div MinMs,
       s |-> (rem % MinMs) \div SecMs, ms |-> n % SecMs]

\* rn(n).max(1): the divisor of the second hash is never 0.
PointCount(n) == IF ForestCount(n) = 0 THEN 1 ELSE ForestCount(n)

\* representation(n, k): unlike ForestNode::branch it checks nothing.
Representation(n, k) == Pair(ForestAnchor(n) + 9 * k, ForestB0(n) - 19 * k)

\* The pair that goes into the key, from the number and the second hash.
ClockPoint(n, hash) == Representation(n, hash % PointCount(n))

=============================================================================
