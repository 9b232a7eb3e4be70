------------------------------ MODULE Sampler ------------------------------
(***************************************************************************)
(* One call of sample_three_layers_ct_with_retries (src/sampler/           *)
(* cdf_sampler.rs): up to MaxAttempts attempts, each drawing Depth layers. *)
(*                                                                         *)
(* The code never branches on a validity bit: it goes on with masked       *)
(* values to the end of the last attempt, and only then hands out an       *)
(* Option.  The model keeps those bits, the masking and the order in which *)
(* they are folded.  A step is one layer of one attempt, the end of an     *)
(* attempt, or the return.                                                 *)
(*                                                                         *)
(* The random generator is a nondeterministic choice: of the candidate,    *)
(* and of whether one of the eight rejection-sampling draws was in range   *)
(* (UniformDraw models those).  The weights only decide how likely a       *)
(* candidate is; WeightedPick models how the pick is made from them.       *)
(***************************************************************************)
EXTENDS LayerMath, Chains

CONSTANTS
  Roots,            \* the root numbers a call may be made with
  MaxAttempts,      \* the retry bound; sample_three_layers_safe passes 10
  Builds            \* TRUE: a build in which + and * abort on overflow

ASSUME SamplerAssumption ==
  /\ Roots \subseteq 1 .. Word - 1
  /\ MaxAttempts \in Nat
  /\ Builds \subseteq BOOLEAN

VARIABLES
  root,           \* root_n
  checked,        \* whether this build checks for overflow
  attempt,        \* completed attempts
  chain,          \* the layers pushed in this attempt
  currentN,       \* the number the next layer decomposes
  overallValid,   \* the validity bit of this attempt
  best,           \* the chain kept so far
  found,          \* whether some attempt produced a witness
  draws,          \* calls of rng.next_u64 so far
  outcome         \* what the call returned

vars ==
  <<root, checked, attempt, chain, currentN, overallValid, best, found, draws, outcome>>

\* The pick for r = 0, which is also what exhausted draws return.  A weighted
\* layer whose filter exceeds t_max has total weight 0: its binary search runs
\* from lo > hi, and the wrapped interval takes it to one of the two ends.
FirstPick(lp, w, last) ==
  IF last THEN 0 ELSE IF w.tFilter = lp.tMax + 1 THEN lp.tMax ELSE w.tFilter

\* The candidates a pick can land on, given whether a draw was in range.
Pickable(lp, w, last, drawn) ==
  LET first == FirstPick(lp, w, last)
  IN  {first} \cup (IF drawn THEN first .. lp.tMax ELSE {})

\* Slips of the code that the properties below must notice; no specification
\* uses them.
TakeLatest(ok)      == ok
TakeUnchecked(ok)   == ~found
FeasibleAlone       == LayerParams(root).valid

\* The bounds of the retry loop.
MoreAttempts == attempt < MaxAttempts
AllAttempted == attempt = MaxAttempts

\* overall_valid &= bit
Fold(bit) == overallValid /\ bit

\* take_this: an attempt is kept when it is valid and the first that is.
TakeThis(ok) == ok /\ ~found

\* The Choice the retry loop ends with.
FeasibleAndFound == LayerParams(root).valid /\ found

SelectChain(current, candidate, choice) ==
  [layers |-> IF choice THEN candidate ELSE current.layers, valid |-> TRUE]

-----------------------------------------------------------------------------
Init ==
  /\ root \in Roots
  /\ checked \in Builds
  /\ attempt = 0
  /\ chain = << >>
  /\ currentN = root
  /\ overallValid = TRUE
  /\ best = [layers |-> <<Zero, Zero, Zero>>, valid |-> FALSE]
  /\ found = FALSE
  /\ draws = 0
  /\ outcome = Pending

\* The conditions folded into overall_valid for a pick t of this layer.  That
\* the total weight is positive is the conjunct tFilter <= tMax of w.valid.
LayerValid(lp, w, last, t, drawn) ==
  /\ lp.valid
  /\ last \/ w.valid
  /\ drawn
  /\ last \/ CheckAheadValid(AAt(lp, t))
  /\ ValidateTriangleCondition(BAt(lp, t), AAt(lp, t))

\* One iteration of the loop of sample_three_layers_ct_raw.
SampleLayer ==
  LET lp   == LayerParams(currentN)
      w    == WeightParams(lp)
      last == Len(chain) = Depth - 1
  IN
  /\ outcome = Pending
  /\ MoreAttempts
  /\ Len(chain) < Depth
  /\ \E drawn \in BOOLEAN : \E t \in Pickable(lp, w, last, drawn) :
       /\ draws' = draws + (IF last THEN 8 ELSE 16)
       /\ IF checked /\ Overflows(lp, t)
          THEN /\ outcome' = Panicked
               /\ UNCHANGED <<chain, currentN, overallValid>>
          ELSE LET ok == Fold(LayerValid(lp, w, last, t, drawn))
                   p  == Pair(AAt(lp, t), BAt(lp, t))
               IN  /\ overallValid' = ok
                   /\ chain' = Append(chain, IF ok THEN p ELSE Zero)
                   /\ currentN' = IF ok THEN p.a ELSE currentN
                   /\ UNCHANGED outcome
  /\ UNCHANGED <<root, checked, attempt, best, found>>

\* The body of the retry loop after sample_three_layers_ct_raw returned.
EndAttempt ==
  LET ok == overallValid /\ VerifyDescent(chain, root)
  IN
  /\ outcome = Pending
  /\ Len(chain) = Depth
  /\ best' = SelectChain(best, chain, TakeThis(ok))
  /\ found' = (found \/ ok)
  /\ attempt' = attempt + 1
  /\ chain' = << >>
  /\ currentN' = root
  /\ overallValid' = TRUE
  /\ UNCHANGED <<root, checked, draws, outcome>>

\* The Option the caller gets.
Return ==
  /\ outcome = Pending
  /\ AllAttempted
  /\ outcome' = IF FeasibleAndFound THEN Witness(best.layers) ELSE NoWitness
  /\ UNCHANGED <<root, checked, attempt, chain, currentN, overallValid, best, found, draws>>

Next == SampleLayer \/ EndAttempt \/ Return

Spec == Init /\ [][Next]_vars

-----------------------------------------------------------------------------
Pairs == [a : Nat, b : Nat]

TypeOK ==
  /\ root \in Roots
  /\ checked \in Builds
  /\ attempt \in 0 .. MaxAttempts
  /\ chain \in Seq(Pairs) /\ Len(chain) <= Depth
  /\ currentN \in 0 .. Word - 1
  /\ overallValid \in BOOLEAN
  /\ best \in [layers : Seq(Pairs), valid : BOOLEAN] /\ Len(best.layers) = Depth
  /\ found \in BOOLEAN
  /\ draws \in Nat
  /\ outcome \in [status : {"pending", "panicked", "none", "some"}, layers : Seq(Pairs)]

\* A witness whose first two layers, moreover, leave at least two candidates
\* below them (the check-ahead rule).
Genuine(n, c) ==
  IsChain(n, c) /\ CheckAheadValid(c[1].a) /\ CheckAheadValid(c[2].a)

\* Whatever was masked, retried or drawn, the kept chain is a witness of the
\* root as soon as found is set, and is all zeros until then.
KeptIsGenuine ==
  IF found THEN Genuine(root, best.layers) ELSE best.layers = <<Zero, Zero, Zero>>

\* A failed layer masks itself and every later one: the committed layers of an
\* attempt are a prefix, each the child of the one before it.
CommittedPrefix ==
  \A i \in 1 .. Len(chain) :
    LET parent == IF i = 1 THEN root ELSE chain[i - 1].a
    IN  \/ chain[i] = Zero /\ ~overallValid
        \/ IsLayer(parent, chain[i])

\* An outcome is a chain only when one was found, and it is that chain.
OutcomeIsKept ==
  outcome.status = "some" => found /\ outcome = Witness(best.layers)

\* A late success never replaces an earlier one, in any order of failures and
\* successes, and the bit is never lost.
FirstSuccessKept == [][found => found' /\ best'.layers = best.layers]_vars

\* Every call that returns has drawn the same number of random words, whatever
\* the root, the draws and the attempt that succeeded.
FixedWork ==
  outcome \notin {Pending, Panicked} => draws = 40 * MaxAttempts

\* An abort of a build with overflow checks loses nothing: it happens only on
\* a root without candidates, for which no layer was or will be committed.
PanicOnlyOnEmptyRoot ==
  outcome = Panicked => /\ ~found /\ \A i \in 1 .. Len(chain) : chain[i] = Zero
                        /\ GenerateRepresentationFamily(root) = {}

\* Each call is one draw of the abstract specification.
D == INSTANCE WitnessDraw

ImplementsWitnessDraw == D!Spec
=============================================================================
