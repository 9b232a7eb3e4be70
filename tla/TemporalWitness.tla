-------------------------- MODULE TemporalWitness --------------------------
(***************************************************************************)
(* Witnesses bound to a point in time (src/security/witness_supergrid.rs), *)
(* and the supergrid sampler they draw from.  A prover generates them with *)
(* the timestamp its clock `now' shows; a verifier reads its own clock,    *)
(* `theirs'.  Each only moves forward, and either may be ahead of the      *)
(* other: nothing in the code brings them together.                        *)
(*                                                                         *)
(* Master secrets are the keys of MasterSecret, here model values; a draw  *)
(* is a function of its seed and is remembered in `draws'.                 *)
(***************************************************************************)
EXTENDS Supergrid, FiniteSets

CONSTANTS
  Keys,          \* master keys
  Identities,
  Times,         \* the timestamps the clocks show
  Chains,        \* [scaled root |-> its valid chains], for TLC to compute once
  MaxAttempts,   \* 512 in the code
  MaxAlibis      \* bound: alibis handed out

ASSUME TemporalAssumption ==
  /\ Times \subseteq 0 .. Word - 1
  /\ Chains = [r \in {ScaledRoot(t) : t \in Times} |-> ScaledChains(r)]
  /\ MaxAttempts \in Nat

VARIABLES
  now,       \* the prover's clock
  theirs,    \* the verifier's clock
  call,      \* the generator running
  draws,     \* what was drawn for each seed used so far
  issued,    \* the witnesses handed out, with the key and identity
  alibis     \* the alibis handed out, each with the witness it replaces

vars == <<now, theirs, call, draws, issued, alibis>>

NoChain == [layers |-> <<Zero, Zero, Zero>>, level |-> "Raw"]
Failed  == [chain |-> NoChain, valid |-> FALSE]

\* sample_temporal_chain_raw.  A draw that failed is never kept, so its partial
\* chain is not told apart from the zero chain.
Draws(root) ==
  {Failed} \cup {[chain |-> [layers |-> c, level |-> LevelOf(root)], valid |-> TRUE] :
                   c \in Chains[root]}

NoTag     == [mac |-> "zeros"]
RandomTag == [mac |-> "fill_bytes"]

\* Slips of the code that the properties must notice; no specification uses
\* them.
TwoWindows(timestamp) == timestamp + 2 * MicroAnchor
WithoutTime(key, identity, timestamp, chain) ==
  [mac |-> "bind-90", key |-> key, identity |-> identity, timestamp |-> 0, hash |-> chain.layers]
AnyMember(chain, root) == TRUE
SeedOfClock(key, identity, timestamp, attempt) ==
  [key |-> key, identity |-> identity, timestamp |-> now, attempt |-> attempt]
ChainsAgree(c, d) == c.layers = d.layers

DeriveTemporalSeed(key, identity, timestamp, attempt) ==
  [key |-> key, identity |-> identity, timestamp |-> timestamp, attempt |-> attempt]

\* The hash covers the layers and not the transform level.  The identity has its
\* length before it, cut to 32 bits; timestamp and hash have fixed lengths, so
\* that the text could be split in one way only without it, and no two requests
\* share one.
ComputeTemporalBindingTag(key, identity, timestamp, chain) ==
  [mac |-> "bind-90", key |-> key, identity |-> identity, timestamp |-> timestamp,
   hash |-> chain.layers]

\* saturating_add
MaxWindow(timestamp) ==
  IF timestamp + MicroAnchor >= Word THEN Word - 1 ELSE timestamp + MicroAnchor

VerifyTemporalAuthenticity(key, w, identity, current) ==
  IF current > MaxWindow(w.timestamp) THEN "Expired"
  ELSE IF w.bindingTag = ComputeTemporalBindingTag(key, identity, w.timestamp, w.chain)
  THEN "Authentic" ELSE "BindingMismatch"

\* The depth of every space is 3, the default.
VerifyMembershipRaw(chain, root) == VerifyTemporalChain(chain.layers, chain.level, root)
VerifyMembership(w) == VerifyTemporalChain(w.chain.layers, w.chain.level, ScaledRoot(w.timestamp))

ChainsDiffer(c, d) == c.layers # d.layers

\* select_supergrid_chain; the layers and the level are selected by one bit.
SelectSupergridChain(old, new, choice) == IF choice THEN new ELSE old

TakeThis(ok) == ok /\ ~call.found

-----------------------------------------------------------------------------
Idle == [op |-> "idle"]

Start(op, key, identity, timestamp, of) ==
  [op |-> op, key |-> key, identity |-> identity, timestamp |-> timestamp, of |-> of,
   attempt |-> 0, chain |-> NoChain, tag |-> NoTag, found |-> FALSE]

MoreAttempts == call.attempt < MaxAttempts
Finished     == call.attempt = MaxAttempts

Init ==
  /\ now \in Times /\ theirs \in Times
  /\ call = Idle /\ draws = << >> /\ issued = {} /\ alibis = {}

Tick ==
  /\ \/ \E t \in Times : t > now /\ now' = t /\ UNCHANGED theirs
     \/ \E t \in Times : t > theirs /\ theirs' = t /\ UNCHANGED now
  /\ UNCHANGED <<call, draws, issued, alibis>>

Generate ==
  /\ call = Idle
  /\ \E k \in Keys, id \in Identities : call' = Start("witness", k, id, now, {})
  /\ UNCHANGED <<now, theirs, draws, issued, alibis>>

GenerateAlternative ==
  /\ call = Idle
  /\ Cardinality(alibis) < MaxAlibis
  /\ \E i \in issued :
       call' = Start("alibi", i.key, i.identity, i.witness.timestamp, {i.witness})
  /\ UNCHANGED <<now, theirs, draws, issued, alibis>>

\* The tail of an attempt, the same in both loops.
Consider(chain, ok, tag) ==
  call' = [call EXCEPT !.attempt = @ + 1,
                       !.chain = SelectSupergridChain(@, chain, TakeThis(ok)),
                       !.tag   = IF TakeThis(ok) THEN tag ELSE @,
                       !.found = @ \/ ok]

AttemptWitness ==
  LET root == ScaledRoot(call.timestamp)
      seed == DeriveTemporalSeed(call.key, call.identity, call.timestamp, call.attempt)
  IN
  /\ call.op = "witness" /\ MoreAttempts
  /\ \E d \in IF seed \in DOMAIN draws THEN {draws[seed]} ELSE Draws(root) :
       /\ draws' = [x \in DOMAIN draws \cup {seed} |-> IF x = seed THEN d ELSE draws[x]]
       /\ Consider(d.chain, d.valid /\ VerifyMembershipRaw(d.chain, root),
            ComputeTemporalBindingTag(call.key, call.identity, call.timestamp, d.chain))
  /\ UNCHANGED <<now, theirs, issued, alibis>>

AttemptAlibi ==
  LET root == ScaledRoot(call.timestamp) IN
  /\ call.op = "alibi" /\ MoreAttempts
  /\ \E d \in Draws(root), w \in call.of :
       Consider(d.chain,
                d.valid /\ ChainsDiffer(d.chain, w.chain) /\ VerifyMembershipRaw(d.chain, root),
                RandomTag)
  /\ UNCHANGED <<now, theirs, draws, issued, alibis>>

\* Some(witness), or None.
Return ==
  LET w == [chain |-> call.chain, bindingTag |-> call.tag, timestamp |-> call.timestamp]
  IN
  /\ call.op \in {"witness", "alibi"} /\ Finished
  /\ call' = Idle
  /\ issued' = IF call.op = "witness" /\ call.found
               THEN issued \cup {[witness |-> w, key |-> call.key, identity |-> call.identity]}
               ELSE issued
  /\ alibis' = IF call.op = "alibi" /\ call.found
               THEN alibis \cup {[witness |-> w, of |-> v] : v \in call.of}
               ELSE alibis
  /\ UNCHANGED <<now, theirs, draws>>

\* sample_temporal_chain returns the first draw whose bit is set and verifies
\* nothing.
SampleTemporalChain ==
  /\ call = Idle
  /\ \E d \in Draws(ScaledRoot(now)) :
       /\ d.valid
       /\ call' = [op |-> "sampled", chain |-> d.chain, root |-> ScaledRoot(now)]
  /\ UNCHANGED <<now, theirs, draws, issued, alibis>>

TakeSample ==
  /\ call.op = "sampled"
  /\ call' = Idle
  /\ UNCHANGED <<now, theirs, draws, issued, alibis>>

Attempt == AttemptWitness \/ AttemptAlibi
Answer  == Return \/ TakeSample
Next == Tick \/ Generate \/ GenerateAlternative \/ SampleTemporalChain \/ Attempt \/ Answer

Spec == Init /\ [][Next]_vars

-----------------------------------------------------------------------------
\* Of a chain handed out every layer decomposes the one above it and is
\* homogeneous, although verification looks at the equation of the first only;
\* and nothing handed out calls itself raw, the level the loops start with, to
\* which homogeneity does not apply.
HandedOutDecomposes ==
  \A w \in {i.witness : i \in issued} \cup {x.witness : x \in alibis} :
    LET c    == w.chain.layers
        n(i) == IF i = 1 THEN ScaledRoot(w.timestamp) ELSE c[i - 1].a
    IN  /\ \A i \in 1 .. 3 : 19 * c[i].a + 9 * c[i].b = n(i) /\ NineHomogeneous(c[i])
        /\ w.chain.level = LevelOf(ScaledRoot(w.timestamp))
        /\ VerifyMembership(w)

\* The verifier's clock may have left the window of the witness for the next
\* one, and no further: older witnesses are expired.  Younger ones are not, and
\* a verifier whose clock is behind the prover's finds the witness authentic
\* before its window has begun: the lower end of the window is not tested.
StaleByAtMostOneWindow ==
  \A i \in issued :
    LET status == VerifyTemporalAuthenticity(i.key, i.witness, i.identity, theirs)
    IN  /\ Window(theirs) > Window(i.witness.timestamp) + 1 => status = "Expired"
        /\ Window(theirs) <= Window(i.witness.timestamp) => status = "Authentic"

\* Expiry cannot be put off: a witness with another timestamp written on it is
\* authentic to no verifier, whatever its clock shows.
CannotBeRedated ==
  \A i \in issued : \A t \in Times \ {i.witness.timestamp} :
    VerifyTemporalAuthenticity(i.key, [i.witness EXCEPT !.timestamp = t], i.identity, theirs)
      # "Authentic"

\* An alibi is as old as its witness, differs from it, and is authentic to no
\* key, on whatever clock.
AlibiStandsApart ==
  \A x \in alibis :
    /\ x.witness.chain.layers # x.of.chain.layers
    /\ x.witness.timestamp = x.of.timestamp
    /\ \A k \in Keys, id \in Identities :
         VerifyTemporalAuthenticity(k, x.witness, id, theirs) # "Authentic"

\* The loops implement the service that plain witnesses implement: each call that
\* returns is one step of it, and a request made again at the same timestamp is
\* answered by the same witness, whatever the clocks show meanwhile.
Served(i) ==
  [request |-> <<i.key, i.identity, i.witness.timestamp>>, space |-> i.witness.timestamp,
   chain |-> i.witness.chain, tag |-> i.witness.bindingTag]
Stood(x) ==
  [space |-> x.witness.timestamp, chain |-> x.witness.chain, tag |-> x.witness.bindingTag,
   of |-> x.of.chain]
IsMember(timestamp, chain) == VerifyMembershipRaw(chain, ScaledRoot(timestamp))

S == INSTANCE WitnessService WITH
  Member <- IsMember,
  issued <- {Served(i) : i \in issued},
  alibis <- {Stood(x) : x \in alibis}

ImplementsService == S!Spec

-----------------------------------------------------------------------------
(* What the crate's tests say and the code does not do. *)

\* supergrid.rs, test_sample_temporal_chain_and_verify: a chain that
\* sample_temporal_chain returned passes verify_temporal_chain.
SampledChainVerifies ==
  call.op = "sampled" => VerifyTemporalChain(call.chain.layers, call.chain.level, call.root)
=============================================================================
