# A TLA+ development of MRS-AUTH-PQC

This directory models the Rust crate in `src/` (the repository's `src/src/`) in
TLA+, checks the models with TLC and proves the results that matter most with
TLAPS. Line numbers below are lines of files under `src/src/`.

The crate represents numbers as N = 19A + 9B. A *witness* is a chain of three
such pairs, each decomposing the A of the pair above it. A user who holds a
master secret generates a witness from it and a tag that binds the witness to
an identity and a session; anybody can generate another chain of the same
space, an *alibi*, with a random tag. Around this stand a sampler that draws
chains without branching on secrets, a second sampler for numbers that are
timestamps, Shamir sharing for the master secret, a key derived from a clock
reading, a Merkle tree and an envelope on top of Kyber.

## 1. Inventory

| Component | State | Operations | What must hold | Module |
|---|---|---|---|---|
| `core/diophantine.rs` | none | anchor, cardinality, two family generators, triangle test | the family is the set of all solutions | `Diophantine` |
| `forest/` | none | anchors, `branch`, `all` | same, with A = 0 allowed | `Diophantine` |
| `sampler/cdf_sampler.rs`, layer parameters and weights | none | `new_ct`, `a_at_ct`, `b_at_ct`, `weight_params_ct` | candidates, filter and weights are exact; no overflow | `LayerMath` |
| same, `floor_sum_ct` | loop variables | 64 fixed iterations | no division by 0, the sum is preserved | `FloorSum` |
| same, `uniform_below_ct` | loop variables | 8 fixed draws | unbiased, first accepted word wins | `UniformDraw` |
| same, `ct_binary_search` | loop variables | 64 fixed rounds | finds the slice the draw lies in | `WeightedPick` |
| same, the descent and its retries | the attempt, the kept chain | one layer; end of an attempt; return | what is returned is a chain of the root; fixed work | `Sampler` |
| `sampler/supergrid.rs` | none | scaled layers, temporal chains, verification | chains decompose the scaled root | `Supergrid` |
| `security/witness.rs`, master secret | the secret in memory; sealed copies; shares | derive, split, recover, seal, unseal, drop | only derived keys, the two modes stay apart | `MasterSecret` |
| `security/witness.rs`, witnesses | the running generator, what it handed out | generate, generate alternative, verify | bound, reproducible, alibis apart | `Witness` |
| `security/witness_supergrid.rs` | same, and the clocks of both sides | same, with a timestamp | same, expiry | `TemporalWitness` |
| `crypto/shamir.rs` | shares | split, recover, checked recover | enough shares recover, an altered one is noticed | `GF256`, `Shamir` |
| `crypto/clock.rs` | none | number, reading, point, key; AEAD | the reading and the point are well defined | `Clock`, `Envelope` |
| `security/merkle.rs` | the levels of a tree being built; the hash being checked | root, proof check | a proof for every leaf, none for what is not in the tree, a root binds its list | `Acceptance` |
| `security/timecode.rs` | the barrier's measurement; the oracle's log | time code, barrier, two games | what is late is dropped, a game is won with old knowledge only | `TimeCode` |
| `framework.rs` | none of its own | keygen, encrypt, decrypt | an opened envelope is the one that was sealed | `Envelope` |

How they interact. `witness.rs` calls the sampler through
`sample_three_layers_safe_raw`, which returns a chain and a bit and nothing
else; that is the interface `WitnessDraw` states, `Sampler` implements and
`Witness` uses. `witness_supergrid.rs` calls `supergrid.rs` in the same way and
borrows the master secret of `witness.rs`. `MasterSecret::split` and `recover`
call `shamir.rs`. `framework.rs` derives the key of an envelope with `clock.rs`,
which uses the anchors of `forest/`, everything else
those of `core/`. `merkle.rs` takes chains of the sampler, and nothing in the
crate makes the proofs it checks. There are no threads, no callbacks and no files in the crate:
its states are those of calls in progress, of a process that holds a secret or
has lost it, and of the values (witnesses, alibis, shares, sealed secrets,
envelopes) that outlive a process and come back in any order.

What is hard. The loops are branch-free: they never stop early and go on with
masked values after a failure, so a bit forgotten or a value kept too long is
not seen by a test that draws one good chain. The arithmetic wraps or aborts
depending on the build. Chain and tag are selected separately in each of 512
attempts. The master secret comes back by three ways, and everything it issued
must come out the same. A timestamp decides on the root, the level and the
expiry of a witness, and the clock it is compared with is another's. An envelope
is opened with values that travel apart from it. `PROJECT.json` lists each hazard at its line with the
properties that cover it.

## 2. Modules

| Module | Models | Extends |
|---|---|---|
| `Diophantine` | digital roots, anchors, families (core and forest) | |
| `LayerMath` | one layer of the sampler: parameters, filter, weights, overflow | `Diophantine` |
| `Clock` | the number, reading and point of a clock key | `Diophantine` |
| `LayerCheck` | walks through inputs; compares the closed forms with enumeration | `LayerMath`, `Clock` |
| `Chains` | what a chain is, what a call returns | `Diophantine` |
| `WitnessDraw` | **abstract**: a call answers once, with a chain of its root or none | `Chains` |
| `Sampler` | a call of the sampler, layer by layer; implements `WitnessDraw` | `LayerMath`, `Chains` |
| `UniformDraw`, `FloorSum`, `WeightedPick` | the three fixed loops inside a layer | `Sums` |
| `LayerDraw` | the three composed: weigh the layer, draw below the weight, search with a new sum in each round | the three |
| `WitnessService` | **abstract**: one witness for each request, tags that vouch for one chain, alibis that stand apart | |
| `MasterSecret` | the life of a master secret | |
| `Witness` | witnesses and alibis of a process that holds one; implements `WitnessService` | `MasterSecret`, `Chains` |
| `Supergrid` | the arithmetic of the scaled sampler and its verification | `Diophantine` |
| `TemporalWitness` | witnesses bound to a time, and two clocks; implements `WitnessService` | `Supergrid` |
| `GF256`, `Shamir` | the field, the dealer and the collector of shares | |
| `Acceptance` | trees over lists, proofs, their verification | |
| `Envelope` | holders of keys, senders, and envelopes that arrive in parts | |
| `TimeCode` | the barrier and the two games | |
| `Sums` | finite sums, to state what the floor sum preserves | |
| `MC...` | instances for TLC | |
| `LayerProofs`, `LayerDrawProofs`, `SamplerProofs`, `WitnessProofs`, `TemporalProofs`, `ShamirProofs`, `AcceptanceProofs`, `MessageProofs` | theorems | |

How state and actions correspond to the code:

- `Sampler`. `SampleLayer` is one iteration of the loop in
  `sample_three_layers_ct_raw` (474-585) with everything it folds into
  `overall_valid`, in the code's order; `EndAttempt` is the rest of the body of
  the retry loop (638-645), with `verify_descent` and `select_chain`; `Return`
  turns `feasible & found` into the `Option`. `checked` is TRUE in a build with
  overflow checks, where an unchecked product aborts the call. Randomness is a
  choice among the candidates a draw can land on, and whether one of the eight
  words was accepted. The word is a constant; the code's is 2^64.
- `UniformDraw`, `FloorSum`, `WeightedPick`. One iteration of the fixed loop is
  one action, the iterations after the result is known included. `FloorSum`
  wraps as the code's `u128` does; one product of the code, that with `a_div_m`
  (243), is a plain one and would abort in a build with overflow checks where
  the model wraps, which it never does for a sum that fits in 128 bits.
- `LayerDraw`. `phase` says which of the three loops of a layer is running.
  `TakeTotal` hands the layer's weight to the draw, `TakeDrawn` the number drawn
  to the search, and each `SearchStep` is followed by a whole call of
  `floor_sum_ct` for the weight the next round asks for (519-544). The last
  layer, which draws without weights, is `UniformDraw` alone.
- `MasterSecret`, `Witness`. Argon2, HMAC, SHA-256 and AES-GCM are symbolic:
  equal outputs for equal inputs only. A 32-byte key is the set of atoms whose
  XOR it is, so that an absent token changes nothing and two equal factors
  cancel, as in the code. Length prefixes are numbers in front of byte
  sequences, cut to the width of their header (`as u32` in the code), since a
  property is about them. The seeded generator of a witness
  is a function of its seed, which the history variable `draws` remembers: a
  seed used for the first time may give anything `WitnessDraw` allows, and the
  same again ever after. `Stop` ends the process at any point.
- `TemporalWitness`. As `Witness`, with `now` for the clock the generator's
  caller reads and `theirs` for the verifier's. `Tick` advances either, also in
  the middle of a generation, and neither is ever set by the other. The scaling
  by 90 is computed in the word, so that it wraps.
- `WitnessService`. A step is a call that returns: a witness of the space for a
  request, the same one if the request was made before, or an alibi for a
  witness. `Served` and `Stood` are the refinement mapping, in `Witness` and in
  `TemporalWitness` alike.
- `Acceptance`. A hash is the tuple of what was hashed; a leaf is told from a
  node, as chains of three layers are hashed from 48 bytes and nodes from 64.
  `BuildLevel` is one round of the loop at 44-60, `VerifyLevel` one at 72-82.
  `Prove` and `ProveLevel` stand for the user of the crate who makes a proof:
  they read siblings off the tree, an odd last node being its own, and set the
  flags with `LeftFlag`. A proof may be handed over before it is complete, which
  is what `zip` makes of a path or a list of flags that is too short, and may be
  checked from any of its steps on, with any hash in the place of the leaf,
  against any root built so far: the code tests neither.
- `Envelope`. An encapsulation is numbered, for the randomness it uses. `Open`
  takes the key, both ciphertexts, the session, the nonce and the data each
  from anywhere: they travel apart. A decapsulation with the wrong key gives an
  unrelated secret and no error, as Kyber's implicit rejection does.
- `TimeCode`. The clock may advance between any two steps of
  `run_with_temporal_barrier` (40-60). The games are actions that begin, query
  and end, with `known` for what the adversary was shown, in this game or in an
  earlier one on the same anchor. An adversary computes no code by itself.
- `Shamir`. A byte is a set of bits; the product, the inverse, Horner's method
  and the interpolation are computed as in the code. The collector receives
  shares in any order, repeated, altered, of an earlier split, or with index 0.
- `Clock`. The two hashes are arguments. `NumberAsDrawn`, `KeyOfFactors` and
  the other definitions under the heading "Slips of the code" are not part of
  the models: each is a plausible bug that some property has to notice.

## 3. Runs

Every passing run ends within three minutes. `CHECK_DEADLOCK FALSE` is set
throughout: a call that returned, a walk that reached its end and a bounded
history have no next step.

| Run | Bounds | What it shows |
|---|---|---|
| `layers` | N = 1..3000, then every 23rd up to 62000; word 2^16 | The family generator lists exactly the solutions, and the forest those with A = 0 as well (`FamilyIsExact`), the sampler's progression is the family (`ProgressionIsFamily`). The check-ahead filter is exact (`FilterIsCheckAhead`), a weight is the child count of the shifted pair (`WeightIsShiftedChildCount`), no candidate overflows (`NoOverflowOnCandidates`). The clock's points are the forest (`ClockReachesForest`) and its reading is exact (`ClockReadingIsExact`). |
| `sampler` | 11 roots up to 180 at the boundaries; 569296 (the smallest with chains), 570835, 700000; 3 attempts, both builds | An abort only where nothing can be drawn (`PanicOnlyOnEmptyRoot`); a kept chain is a chain of the root (`KeptIsGenuine`), whatever failed before it; the first success stays (`FirstSuccessKept`); a call returns what `WitnessDraw` allows (`ImplementsWitnessDraw`). |
| `weighted_draw` | the layers of 70 numbers, none, few and many weighted candidates; words of 1000, 3 draws; positions in a word of 256; 3 iterations of a sum | A candidate's share of the accepted words is its weight (`PickIsWeighted`); the search ends on the slice drawn (`PickHasItsSlice`), over an inverted interval on an end (`EmptyLayerEndsOnAnEnd`); every call of the floor sum is complete when it returns (`SumIsPreserved`). |
| `witness` | one user's two logins, a root with two chains and one with a single chain, 2 attempts, 3 seeds, 1 sealed copy or split, 1 alibi | `IssuedIsBoundMember`, `AlibiStandsApart`, `IssuedIsFirstDraw`; the loops implement the service, so that a request made again after a restart gets the same witness (`ImplementsService`); a generator that was called returns, with no alibi where there is no second chain (`CallsReturn`). |
| `witness_keys` | a second user's login, 2 sealed copies or splits, whose shares get mixed, three requests that are equal without their lengths or when a length does not fit its header, 1 attempt | What is in memory is a key some login derives (`KeyWasDerived`); a tag stands for one request (`TagOfOneRequest`); a witness is authentic to the logins that derive its key and to no others, however the key is labelled (`AuthenticToItsLogins`). |
| `temporal` | 5 times in 4 windows, one of which wraps, on either clock; 2 attempts; word 2^23 | `HandedOutDecomposes`, `CannotBeRedated`, `AlibiStandsApart`, `ImplementsService`; what a verifier accepts when its clock is ahead or behind (`StaleByAtMostOneWindow`). |
| `shamir` | one byte, thresholds 2 of 3 and 3 of 4, two coefficients, up to 4 shares received | Any choice of enough shares gives the secret (`EnoughSharesRecover`); one altered share among them is noticed (`AlteredIsNoticed`); one share of a split with threshold 2 says nothing (`OneShareSaysNothing`). |
| `acceptance` | lists of 1 to 5 of two chains, k of 1, 2, 3, 5, 6; two trees | The proof of every leaf is accepted (`EveryLeafIsAccepted`), what is accepted is a node as far below the root as the proof has steps, and of a changed list only what is still in its slot (`AcceptedIsInItsSlot`); lists of one k have different roots (`RootBindsList`). |
| `envelope` | 2 keys, 2 envelopes, 2 of each of the rest | What is opened was sealed, all of it in one call (`OpenedWasSealed`); what arrives whole opens (`WholeIsOpened`); a repeated nonce never meets its key again (`NonceOncePerKey`). |
| `timecode` | 3 timestamps, 3 timeouts, clock up to 4 | `LateIsDropped`; a forgery wins only with a code known before its game (`WinsOnlyWithOldCode`); a true challenge was not shown in its own game (`ChallengeIsNotShown`). |

Two runs show a disagreement of the code with what the repository says of it:

| Run | Property | What TLC finds |
|---|---|---|
| `panics` | `NeverPanics` | `cdf_sampler.rs:592-594` says that a root without a chain always gives `None`. In a build with overflow checks the call aborts; in the trace it is for root 28. |
| `sampled_verifies` | `SampledChainVerifies` | A test at `supergrid.rs:471-485` asserts that a chain of `sample_temporal_chain` verifies. The function returns the first chain it could draw; one with a B of 0 is rejected by the homogeneity check. The generators of witnesses do verify, and never hand one out (`HandedOutDecomposes`). |

Other divergences were met while modelling; the properties state what the code
does.

- `merkle.rs:13` says that a flag is `true` when the current hash is the right
  child. The verifier (74-76) hashes the current hash first, as the left child,
  when it is `true`: with the documented flags the proof of a leaf is rejected.
  `LeftFlag` is the convention of the prover: `EveryLeafIsAccepted` holds for TRUE,
  and TLC finds it violated for FALSE, the documented one.
- `merkle.rs:65` says that the function verifies whether a leaf belongs to the
  root. It takes any 32 bytes and a path of any length: the root with an empty
  path and an inner node with the rest of its path are accepted, and
  `AcceptedIsInItsSlot` allows for them. Callers that hash a chain with
  `hash_mrs_chain` get what the comment says.
- The repository's `README.md:128` says that every representation has an A of at
  least 1 and that `dr(N)` is the anchor throughout the codebase
  (`README.md:43,47,116` and `COMPARISON.md:184-192,246-250` speak of the clock
  and the boundary in the same way). The clock key uses the forest, whose anchor
  is `N % 9` (`forest/primitives.rs:14`) and whose numbers begin at 144: the pair
  for 153 has an A of 0. `ClockReachesForest` is about the representations the
  code has.

Smaller ones: `DENIABILITY.md:124`
says the filter leaves only paths that extend to a full chain, while it looks one
layer ahead and below root 570835 a first layer can be committed that no chain
goes through (the attempt fails and is retried, so no answer is wrong); the comment at
`cdf_sampler.rs:549-554` says that `t_filter` guarantees one child only, so that
candidates with a single one slip through the weighted selection and have to be
checked for, while the rounding of `t_filter` is for two children and the check
rejects none (`FilterIsCheckAhead`, for all numbers `FilterCorrect`); the comment at
`cdf_sampler.rs:490` weighs a candidate by its child count and
`DENIABILITY.md:145,235-242` by the chains beneath it, which makes all chains
equally likely, the code by the child count of the pair `t_skip` further on; the closed form (131-149) counts the pair with
B = 0 at N = 171, which the triangle test of `core` rejects; 297-299 calls 171
the first N with a triangle-valid candidate, while 37 has one;
`check_frobenius_bound` (`diophantine.rs:12`) passes 144, and 162 is the
largest N without a representation; a witness is accepted for 366 seconds from
its own second and so in the next window as well
(`docs/research-notes/90-366-2520-transformation.md:40` has it valid within its
window only).

Why the bounds are enough. The closed forms depend on N through its size and
its residue mod 1539 = 19 * 81, the distance in N between two steps of a layer's
progression. 3000 covers all residues twice; the stride 23 is coprime to 1539,
and the numbers from 29902 on, where weighted layers begin, are 1395 numbers of
which no two have the same residue. The theorems of `LayerProofs` hold for all N. Three attempts are the fewest in which a success is followed by a
failure and by another success; 569296 is the smallest root for which the
sampler succeeds at all. Two logins, two requests and two attempts are the
fewest that can be confused with each other, and two copies the fewest whose
shares can be mixed; the loops and the keys are checked in a run each, since the
number of attempts says nothing of a key and the number of logins nothing of a
loop. A header that holds the lengths 0 and 1 is the smallest that a text of three
bytes does not fit: `TagOfOneRequest` is about identities that fit, and without
that condition TLC finds two requests with one tag. 618930 is the smallest root
with a single chain. The layers of `weighted_draw` need
sums whose divisor is 171 and whose factor is 9, which are complete after at most
two iterations; the third finds nothing to do, as the other 61 of the code do. 3, 5
and 6 leaves have an odd level at the bottom, in the middle, or at both. Two
envelopes are the fewest whose parts can be mixed. The times of `temporal` are one
that a clock which is behind may show, the last second of a window, the last
second of its witness's validity, the first one after it, and one far away. A time next to the end of the word would add
nothing: the scaled root has wrapped there and is no multiple of 90, so that no
witness is ever issued and `saturating_add` (139) never saturates for one.

Fairness. `Witness` assumes weak fairness of the steps of a call in progress: the
code is sequential and waits for nothing, so a call that began runs on. Nobody
has to make a call, and a process may stop; neither `Next` as a whole nor `Stop`
or `UseSecret` is fair. Everything else is checked without fairness.

## 4. Theorems

Each holds for all values of the constants that satisfy the named assumptions:

- `WordAssumption`: the word is at least 8192; the code's is 2^64.
- `FloorSumAssumption`, `DrawAssumption`, `SamplerAssumption`,
  `TimeCodeAssumption`, `AcceptanceAssumption`, `EnvelopeAssumption`,
  `SupergridAssumption`: the constants are numbers or sequences, roots are
  positive and below the word, a bound is below the word it is drawn from, the
  arguments of a floor sum are below `ArgWord` (2^64 in the code).
- `PickAssumption`: `Steps` halvings leave one position of a word (64 and 2^64 in
  the code), and the two ends of a layer add up to less than the word. In the
  code `tFilter` is at most 39, and `tMax` counts steps of 81 or 90 below a word.
- `LayerDrawAssumption`: two iterations of the floor sum or more (64 in the
  code, and two complete every sum `prefix_weight_ct` asks for), arguments that
  hold 171, a position and `e_prime`, and a layer's
  weight below the word it is drawn from (a `u128` in the code, which the
  product of two numbers below 2^64 fits).
- `WitnessAssumption`: roots are below the word, a header holds some number of
  lengths (2^32 in the code), identities and sessions are byte
  strings, and the chains drawn for a root are chains of it, which is what
  `Sampler` is proved to give.
- `ShamirAssumption`: secrets are sequences of bytes and coefficients are bytes,
  of any number and length; thresholds and numbers of shares are naturals, which
  `ValidSplitParams` then checks as the code does; shares of elsewhere are any
  index with any bytes, as many as the secret has.
- `TemporalAssumption`: times are below the word, and the chains drawn for a
  root are those `ScaledChains` computes.

What is proved, module by module:

- `LayerProofs`, with lemmas that `SamplerProofs` rests on too: `BoundaryCorrect`
  for the core (its cardinality is 0 at 162 and positive above),
  `FilterCorrect`, `WeightsCorrect`, `OverflowFree` for the sampler's layers,
  `ClockReachesCorrect` and `ClockReadingCorrect` for the clock. The digital
  root is turned into a residue mod 9 first; then a valid layer's parameters
  have no modulus left in them, a candidate solves the equation, and the check
  ahead becomes a bound on t. `FamilyCorrect` says that the family of `core` and
  the forest are what enumeration gives, and `ProgressionCorrect` that the
  sampler's progression is the family: every candidate is some step of the
  anchor, and every step of the anchor with a B that is not 0 is a candidate.
- `LayerDrawProofs`, one part for each loop of a layer and one for their
  composition.
  `FloorSumSafe` and `FloorSumCorrect`: the divisor stays positive, and for a
  sum that fits in 128 bits what is in `ans` and what is left add up to the sum
  that was asked for in every iteration. The parameters of what is left never
  grow beyond the arguments, so that nothing but `ans` and what goes into it can
  wrap, and these are parts of the sum. A sum is defined by a recursive function; that it exists, that it may be
  taken apart, and that counting the points under a line by rows or by columns
  is the same, are proved by induction over its length, an induction that is
  stated as a lemma about sets of naturals and applied to one set each time.
  `DrawUnbiased` (a bijection between the words of two
  results), `DrawLikely`, `DrawZeroUnlessFound`, `DrawStands`.
  `PickBracketed` and
  `PickCorrect`: the first position whose cumulative weight exceeds the draw lies
  between lo and hi, and their distance is at most what the remaining rounds can
  halve. `EmptyCorrect`: over a layer without weight, where the interval may be
  inverted and the difference wraps, the search either moves lo over the whole
  word up to hi, or never moves lo at all.
  For the composition, `ComposedSums`: two iterations are enough
  for any prefix of any layer, since the second divisor is 9, and no such sum
  overflows (`CallFits`), not even that of a wrapped number of terms. `ComposedPick` and
  `ComposedEmpty`: so each weight the search is given is the prefix weight it
  asked for, and the steps of `LayerDraw` are steps of the search.
  `ComposedWeights`: with the bijection of the draw, a candidate is picked for as
  many accepted words as its weight says.
- `SamplerProofs`: `TypeCorrect`, `KeptChainIsGenuine`, `PrefixCorrect`,
  `OutcomeCorrect`, `PanicCorrect`, `FirstSuccessStands`, `WorkIsFixed`, and
  `Refinement`, that every step of `Sampler` is a step of `WitnessDraw` or
  changes nothing it sees. `KeptIsGenuine` is not inductive: the invariant adds
  that an attempt that is still valid has built a genuine prefix and counts in
  `currentN` from its last A, and that the kept chain came with `found`.
- `WitnessProofs`: `ServiceImplemented`, `IssuedCorrect`, `FirstDrawCorrect`, `RegenerationCorrect`,
  `TagCorrect`, `LoginsCorrect`, `AlibiCorrect`, `KeyCorrect`. None of the properties is
  inductive, as they speak of what was handed out and not of the generator that
  runs: the invariant `IInv` adds that a generator which has kept nothing has
  drawn nothing it could keep, and that one which has kept a chain has kept the
  first such draw of its seeds with the tag of that chain, or an alibi for a
  witness of its space. Two witnesses of one
  request are then the same first draw. `TagCorrect` also needs that `Framed` is
  injective (`FramedApart`) on identities shorter than 2^32 bytes, for one that is
  longer has the header of a shorter one. `LoginsCorrect` says that a login finds a
  witness authentic if and only if it derives the key it was issued under; that
  some login does is the invariant of `KeyCorrect`, carried over to what was
  issued, and that all of them are of one user and one use is that of
  `MasterKey`. `FirstDrawCorrect` needs that a chain the sampler can
  draw passes the wrapping arithmetic of `verify_membership` (`DrawnIsMember`).
  `KeyCorrect` has an invariant of its own, about what is sealed and split.
  `ServiceImplemented` is the refinement: a `Return` with a chain is a step of
  `WitnessService`, by the facts above in the next state, and every other step
  changes nothing the service sees.
- `TemporalProofs`: `HandedOutCorrect`, `DecompositionCorrect`,
  `StalenessCorrect`, `RedatingCorrect`, `AlibiCorrect`, `ServiceImplemented`.
  The invariant `IInv` is that of `WitnessProofs` with a timestamp in every
  call: it adds that a draw belongs to the root of its timestamp and that a
  chain is kept only when it verified, since here a drawn chain need not.
  `DecompositionCorrect` is arithmetic: verification looks at the equation of
  the first layer only, so that of the lower ones comes from the way they were
  drawn, and the scaled root may have wrapped. `RedatingCorrect`: the tag covers the layers and the timestamp, so
  that a witness under another timestamp has the tag of no key.
  `StalenessCorrect` follows the two clocks through `div` by 366 and through
  `saturating_add`.
- `ShamirProofs`: `RecoveryCorrect`, `AlteredCorrect`, `SecrecyCorrect`. First,
  `GF256` is a field (`Ring`, `GfInverse`). The eight rounds of `gf_mul` are a map
  on the bits of one factor that is linear over XOR and commutes with doubling, so
  products by different factors commute, and commutativity, associativity and
  distributivity follow from products by 1. Squaring is linear too, so its eighth
  power is the identity if it is so on the eight bits. a^2 times the product of
  `gf_inv` is then a^256 = a, so the product of a with its inverse is its own
  square; only 0 and 1 are (`Idempotents`), and it is 0 for a = 0 alone.
  Then `Interpolation`: the weights of the points are those of the divided
  differences of Newton. The partial fractions of 1 / (x - x_1) ... (x - x_m)
  add up to it (`PartialFractions`), so the weights of two points or more cancel
  (`WeightsCancel`), and each round of Horner's method raises by one the number
  of points from which the difference vanishes (`DifferencesVanish`): the sum of
  `lagrange_at_zero` keeps the first coefficient and nothing else. For
  `AlteredCorrect`, no coefficient of `lagrange_at_zero` is 0 (`CoeffNonZero`), so
  that values which differ in one place interpolate to different results
  (`OneOff`), and only then does the commitment come in. The invariant
  of the specification says that the shares are those of one polynomial per byte.
- `AcceptanceProofs`: `LeavesAccepted` and `OnlyNodesAccepted`, for every list
  and every k, with the flags the verifier expects and any hash in the place of
  the leaf. That only leaves are accepted holds for proofs with all their steps,
  and not for shorter ones. The invariant relates a
  proof to the tree it is read off, level by level, and the hash being checked
  to the node it has reached; a hash of one level is no hash of another.
  `RootCorrect`: two lists with one root are the same list, whatever the flags.
  Two trees of one width have their levels of one length, a level tells the
  level below it because a node is the pair of its children, and so the roots
  tell the leaves, by induction down the tree.
- `MessageProofs`, for the envelope: `OpenedCorrect`, `WholeCorrect`,
  `KeysAreFresh`, for all
  session ids; `combine_seed` is injective because the secret has a fixed width.
  For the time codes (`TimeCodeSpec`): `BarrierCorrect`, for which the invariant
  says what has been measured at each stage of a call; `ForgeryCorrect` and
  `ChallengeCorrect`, for which it says that a code that came to be known in the
  game is among those the oracle logged.

Only model-checked: liveness (`CallsReturn`), which is out of the prover's
reach. Every other property that a passing run checks is stated by a theorem. That
induction over data that takes an operator as a parameter cannot be instantiated
here is met with sets: the property to be shown becomes the set of the numbers that
have it.

## 5. Not modelled

`sample_three_layers_bruteforce` is compiled for tests only. `rotate_90`,
`verify_90_rotation`, `micro_to_supergrid` and `verify_temporal_anchor` are
called by nothing else. A chain of four layers would be hashed from 64 bytes like
a node of the acceptance tree; no sampler makes one, and `Acceptance` has none. Zeroization and timing are not visible in a model of
values and steps. The strength of the primitives and the distribution of the
draws (beyond `Unbiased`) are outside TLA+. `legacy/`, `Archive/`, `demo/`,
`benches/` and the EasyCrypt `proofs/` are not part of the crate.

## 6. Plan

Done: the sampler with its parts, their composition, its abstract specification;
master secret, witnesses and temporal witnesses with the service both implement;
Shamir sharing, the clock key, envelopes, the acceptance tree and the time codes;
and the proofs of all of them. Next, in this order:

1. Secrecy beyond threshold 2: that t - 1 shares of a split with threshold t leave
   every secret as likely, which `Interpolation` with one more point gives.
2. `rotate_90` and `verify_90_rotation`, if something comes to call them.
