---------------------------- MODULE UniformDraw ----------------------------
(***************************************************************************)
(* uniform_below_ct and uniform_below_u128_ct of src/sampler/              *)
(* cdf_sampler.rs: a uniform number below a bound by rejection sampling,   *)
(* with a fixed number of draws.  The two differ in the word they draw     *)
(* from (2^64 or 2^128) and in how often they call the generator for it.   *)
(***************************************************************************)
EXTENDS Integers, FiniteSets

CONSTANTS
  RandomWord,   \* the number of values of a drawn word
  Tries,        \* the draws of one call, 8 in the code
  Bounds        \* the bounds a call may be made with

ASSUME DrawAssumption ==
  /\ RandomWord \in Nat /\ RandomWord >= 2
  /\ Tries \in Nat
  /\ Bounds \subseteq 0 .. RandomWord - 1

VARIABLES
  bound,
  drawn,    \* the words drawn so far
  result,
  found     \* whether one of them was in range

drawVars == <<bound, drawn, result, found>>

\* Slips of the code that the properties below must notice; no specification
\* uses them.
AcceptLimit(b, r) == r <= (RandomWord - 1) - ((RandomWord - 1) % (IF b = 0 THEN 1 ELSE b))

\* `% 0` would abort, so a bound of 0 is drawn from as if it were 1.
SafeBound(b) == IF b = 0 THEN 1 ELSE b

\* The words below this limit fall into every residue class equally often.
Limit(b) == (RandomWord - 1) - ((RandomWord - 1) % SafeBound(b))

Accept(b, r) == r < Limit(b)

\* accept: only the first word in range is taken.
Takes(b, r) == Accept(b, r) /\ ~found

Reduce(b, r) == r % SafeBound(b)

Selected(b, r) == IF Takes(b, r) THEN Reduce(b, r) ELSE result

-----------------------------------------------------------------------------
DrawInit ==
  /\ bound \in Bounds
  /\ drawn = 0
  /\ result = 0
  /\ found = FALSE

\* One iteration, with the word r from the generator.
Draw(r) ==
  /\ drawn < Tries
  /\ result' = Selected(bound, r)
  /\ found' = (found \/ Takes(bound, r))
  /\ drawn' = drawn + 1
  /\ UNCHANGED bound

DrawNext == \E r \in 0 .. RandomWord - 1 : Draw(r)

DrawSpec == DrawInit /\ [][DrawNext]_drawVars

-----------------------------------------------------------------------------
DrawTypeOK ==
  /\ bound \in Bounds
  /\ drawn \in 0 .. Tries
  /\ result \in 0 .. SafeBound(bound) - 1
  /\ found \in BOOLEAN

\* No value below the bound is likelier than another: as many words are
\* accepted for each of them, at every bound, powers of two included.
Unbiased ==
  \A v, w \in 0 .. SafeBound(bound) - 1 :
    LET Words(x) == {r \in 0 .. RandomWord - 1 : Accept(bound, r) /\ r % SafeBound(bound) = x}
    IN  Cardinality(Words(v)) = Cardinality(Words(w))

\* A single draw misses with a probability of at most a half, so that Tries of
\* them miss with one of at most 2^-Tries: most words are accepted.
MostWordsAccepted == 2 * Limit(bound) >= RandomWord - 1

\* The value a call hands out is the first accepted one: later words, accepted
\* or not, change neither it nor the bit.
FirstAcceptedKept == [][found => found' /\ result' = result]_drawVars

\* Without an accepted word the value is 0, and the bit that tells it from a
\* genuine draw of 0 is unset.
ZeroUnlessFound == ~found => result = 0

=============================================================================
