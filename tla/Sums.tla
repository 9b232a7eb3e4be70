-------------------------------- MODULE Sums --------------------------------
(***************************************************************************)
(* The sum that floor_sum_ct of src/sampler/cdf_sampler.rs is documented   *)
(* to compute, from its definition: floor((a*i + b) / m) over 0 <= i < n.  *)
(***************************************************************************)
EXTENDS Integers

SumOfFloors(n, m, a, b) ==
  LET sum[i \in 0 .. n] ==
        IF i = 0 THEN 0 ELSE sum[i - 1] + (a * (i - 1) + b) \div m
  IN  sum[n]
=============================================================================
