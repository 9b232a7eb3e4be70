------------------------------ MODULE FloorSum ------------------------------
(***************************************************************************)
(* floor_sum_ct of src/sampler/cdf_sampler.rs: the Euclid-like algorithm   *)
(* for a sum of floors, unrolled to a fixed number of iterations in which  *)
(* the state is frozen once the sum is complete.                           *)
(*                                                                         *)
(* The arguments are u64 and the arithmetic is u128.  The code wraps at    *)
(* 2^128, except for one product that is a plain one: a build with         *)
(* overflow checks aborts there, and one without them wraps.  The model    *)
(* wraps everywhere, and what it promises is for sums that fit in 128      *)
(* bits, for which no operation of an iteration overflows.                 *)
(***************************************************************************)
EXTENDS Sums

CONSTANTS
  ArgWord,      \* the number of values of an argument, 2^64 in the code
  Calls,        \* the arguments [n, m, a, b] of the calls that are made
  Iterations    \* 64 in the code

Arg     == 0 .. ArgWord - 1
Args    == [n : Arg, m : Arg, a : Arg, b : Arg]
SumWord == ArgWord * ArgWord    \* the number of values of a u128

ASSUME FloorSumAssumption ==
  /\ ArgWord \in Nat /\ ArgWord >= 2
  /\ Calls \subseteq Args
  /\ Iterations \in Nat

VARIABLES
  call,            \* the arguments, with m floored to 1
  n, m, a, b,      \* the parameters of the part of the sum not yet in ans
  ans,
  done,            \* the sum is complete
  iteration

sumVars == <<call, n, m, a, b, ans, done, iteration>>

\* Slips of the code that the properties below must notice; no specification
\* uses them.
CompleteAtOne(y) == y \div m <= 1

Iterating == iteration < Iterations

\* terminates_now: the largest term of what remains is 0.
Complete(yMax) == yMax < m

\* wrapping_add and wrapping_mul on u128.
WrapAdd(x, y) == (x + y) % SumWord
WrapMul(x, y) == (x * y) % SumWord

\* The locals before the first iteration of a call.
StartsWith(c) ==
  /\ call = [c EXCEPT !.m = IF c.m < 1 THEN 1 ELSE c.m]
  /\ n = c.n /\ m = call.m /\ a = c.a /\ b = c.b
  /\ ans = 0
  /\ done = FALSE
  /\ iteration = 0

SumInit == \E c \in Calls : StartsWith(c)

\* The whole multiples of m in a and b go into ans in closed form.  What remains
\* is the sum for a mod m and b mod m: it is 0 when its largest term is, and is
\* otherwise counted along the other axis, which swaps m and a.
Iterate ==
  LET a1        == a % m
      b1        == b % m
      pairs     == WrapMul(WrapAdd(n, -1), n) \div 2
      addA      == WrapMul(pairs, a \div m)
      addB      == WrapMul(n, b \div m)
      yMax      == WrapAdd(WrapMul(a1, n), b1)
      terminate == Complete(yMax)
  IN
  /\ ~done
  /\ ans' = WrapAdd(WrapAdd(ans, addA), addB)
  /\ b' = IF terminate THEN b1 ELSE yMax % m
  /\ n' = IF terminate THEN n ELSE yMax \div m
  /\ m' = IF terminate THEN m ELSE a1
  /\ a' = IF terminate THEN a1 ELSE m
  /\ done' = terminate

\* Every mask is off: the iteration runs, on the frozen state, for its time.
Idle == done /\ UNCHANGED <<n, m, a, b, ans, done>>

SumNext ==
  /\ Iterating
  /\ iteration' = iteration + 1
  /\ UNCHANGED call
  /\ Iterate \/ Idle

SumSpec == SumInit /\ [][SumNext]_sumVars

-----------------------------------------------------------------------------
\* The parameters of what is left are words of the width of the arguments throughout.
SumTypeOK ==
  /\ call \in Args
  /\ n \in Arg /\ m \in Arg /\ a \in Arg /\ b \in Arg
  /\ ans \in 0 .. SumWord - 1
  /\ done \in BOOLEAN
  /\ iteration \in 0 .. Iterations

\* The divisor of the next iteration is positive, phantom iterations included,
\* although each swap replaces it by a remainder: nothing divides by zero.
NeverDividesByZero == m >= 1

\* The sum that is asked for is a u128.
SumFits == SumOfFloors(call.n, call.m, call.a, call.b) < SumWord

\* Every iteration moves a part of the sum into ans and loses none of it, although
\* the products and sums it makes wrap at 2^128, if the sum as a whole fits ...
NothingIsLost ==
  SumFits =>
    ans + (IF done THEN 0 ELSE SumOfFloors(n, m, a, b))
      = SumOfFloors(call.n, call.m, call.a, call.b)

\* ... which it does for the calls that weigh a layer, and for them the iterations
\* the code runs are enough to move all of it.
SumIsPreserved == SumFits /\ NothingIsLost /\ (iteration = Iterations => done)

=============================================================================
