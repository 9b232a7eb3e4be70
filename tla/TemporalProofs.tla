--------------------------- MODULE TemporalProofs ---------------------------
(***************************************************************************)
(* What temporal witnesses guarantee, for every word size, every set of    *)
(* times and every number of attempts: every layer of a chain handed out   *)
(* decomposes the one above it; how old a witness may get and that nothing *)
(* makes it younger; that alibis stand apart; and that the loops implement *)
(* the service plain witnesses implement.                                  *)
(***************************************************************************)
EXTENDS TemporalWitness, TLAPS

\* A draw that can be kept for a timestamp.
Ok(d, timestamp) == d.valid /\ VerifyMembershipRaw(d.chain, ScaledRoot(timestamp))

\* The draw of attempt k was the first that could be kept, and has this chain.
FirstOk(key, identity, timestamp, k, chain) ==
  LET at(m) == DeriveTemporalSeed(key, identity, timestamp, m)
  IN  /\ at(k) \in DOMAIN draws
      /\ draws[at(k)].chain = chain /\ Ok(draws[at(k)], timestamp)
      /\ \A m \in 0 .. k - 1 : at(m) \in DOMAIN draws /\ ~Ok(draws[at(m)], timestamp)

\* A chain that was drawn for a timestamp and verified against it.
Kept(timestamp, chain) ==
  /\ \E c \in Chains[ScaledRoot(timestamp)] :
       chain = [layers |-> c, level |-> LevelOf(ScaledRoot(timestamp))]
  /\ VerifyMembershipRaw(chain, ScaledRoot(timestamp))

\* A generator that runs, with all its fields.
Running ==
  /\ call = [op |-> call.op, key |-> call.key, identity |-> call.identity,
             timestamp |-> call.timestamp, of |-> call.of, attempt |-> call.attempt,
             chain |-> call.chain, tag |-> call.tag, found |-> call.found]
  /\ call.op \in {"witness", "alibi"}
  /\ call.timestamp \in Times
  /\ call.attempt \in 0 .. MaxAttempts
  /\ call.found \in BOOLEAN

CallInv == call = Idle \/ call.op = "sampled" \/ Running

ClocksInv == now \in Times /\ theirs \in Times

DrawsInv == \A x \in DOMAIN draws :
  x.timestamp \in Times => draws[x] \in Draws(ScaledRoot(x.timestamp))

\* What a witness generator has after some attempts.
WitnessInv ==
  call.op = "witness" =>
    LET at(m) == DeriveTemporalSeed(call.key, call.identity, call.timestamp, m)
    IN  /\ ~call.found => \A m \in 0 .. call.attempt - 1 :
             at(m) \in DOMAIN draws /\ ~Ok(draws[at(m)], call.timestamp)
        /\ call.found =>
             /\ \E k \in 0 .. call.attempt - 1 :
                  FirstOk(call.key, call.identity, call.timestamp, k, call.chain)
             /\ call.tag = ComputeTemporalBindingTag(call.key, call.identity, call.timestamp,
                                                     call.chain)

AlibiInv ==
  call.op = "alibi" =>
    \E i \in issued :
      /\ call.of = {i.witness} /\ call.timestamp = i.witness.timestamp
      /\ call.found => /\ call.chain.layers # i.witness.chain.layers
                       /\ Kept(call.timestamp, call.chain)
                       /\ call.tag = RandomTag

\* What a witness that was handed out is.
IsIssued(i) ==
  /\ i = [witness |-> i.witness, key |-> i.key, identity |-> i.identity]
  /\ i.witness = [chain |-> i.witness.chain, bindingTag |-> i.witness.bindingTag,
                  timestamp |-> i.witness.timestamp]
  /\ i.witness.timestamp \in Times
  /\ i.witness.bindingTag =
       ComputeTemporalBindingTag(i.key, i.identity, i.witness.timestamp, i.witness.chain)
  /\ \E k \in 0 .. MaxAttempts - 1 :
       FirstOk(i.key, i.identity, i.witness.timestamp, k, i.witness.chain)

IsAlibi(x) ==
  /\ x.witness.timestamp \in Times
  /\ Kept(x.witness.timestamp, x.witness.chain)
  /\ x.witness.chain.layers # x.of.chain.layers
  /\ x.witness.timestamp = x.of.timestamp
  /\ x.witness.bindingTag = RandomTag

IssuedInv == \A i \in issued : IsIssued(i)
AlibisInv == \A x \in alibis : IsAlibi(x)

\* The inductive invariant.
IInv == CallInv /\ ClocksInv /\ DrawsInv /\ WitnessInv /\ AlibiInv /\ IssuedInv /\ AlibisInv

-----------------------------------------------------------------------------
\* Before anything happened all of it holds.
LEMMA InitIInv == Init => IInv
<1> SUFFICES ASSUME Init PROVE IInv
  OBVIOUS
<1>1. call.op = "idle" /\ DOMAIN draws = {}
  BY DEF Init, Idle
<1> QED BY <1>1 DEF Init, IInv, CallInv, ClocksInv, DrawsInv, WitnessInv, AlibiInv, IssuedInv,
                    AlibisInv

\* A draw that was remembered stays: what was first stays first.
LEMMA FirstOkStays ==
  ASSUME NEW key, NEW identity, NEW timestamp, NEW k, NEW chain,
         FirstOk(key, identity, timestamp, k, chain),
         DOMAIN draws \subseteq DOMAIN draws',
         \A x \in DOMAIN draws : draws'[x] = draws[x]
  PROVE  FirstOk(key, identity, timestamp, k, chain)'
<1>1. DeriveTemporalSeed(key, identity, timestamp, k) \in DOMAIN draws
  BY DEF FirstOk
<1>2. \A m \in 0 .. k - 1 : DeriveTemporalSeed(key, identity, timestamp, m) \in DOMAIN draws
  BY DEF FirstOk
<1> QED BY <1>1, <1>2 DEF FirstOk, Ok

\* So does what was said of the witnesses handed out.
LEMMA IssuedStays ==
  ASSUME IssuedInv, issued' = issued,
         DOMAIN draws \subseteq DOMAIN draws',
         \A x \in DOMAIN draws : draws'[x] = draws[x]
  PROVE  IssuedInv'
<1> SUFFICES ASSUME NEW i \in issued PROVE IsIssued(i)'
  BY DEF IssuedInv
<1>1. IsIssued(i)
  BY DEF IssuedInv
<1>2. PICK k \in 0 .. MaxAttempts - 1 :
        FirstOk(i.key, i.identity, i.witness.timestamp, k, i.witness.chain)
  BY <1>1 DEF IsIssued
<1>3. FirstOk(i.key, i.identity, i.witness.timestamp, k, i.witness.chain)'
  BY <1>2, FirstOkStays
<1> QED BY <1>1, <1>3 DEF IsIssued

\* What an attempt makes of the generator's record.
LEMMA Considered ==
  ASSUME Running, call.attempt < MaxAttempts,
         NEW chain, NEW ok \in BOOLEAN, NEW tag, Consider(chain, ok, tag)
  PROVE  /\ Running'
         /\ call'.op = call.op /\ call'.key = call.key /\ call'.of = call.of
         /\ call'.identity = call.identity /\ call'.timestamp = call.timestamp
         /\ call'.attempt = call.attempt + 1
         /\ call'.found = (call.found \/ ok)
         /\ call'.chain = IF ok /\ ~call.found THEN chain ELSE call.chain
         /\ call'.tag = IF ok /\ ~call.found THEN tag ELSE call.tag
<1>1. call.attempt + 1 \in 0 .. MaxAttempts
  BY TemporalAssumption, SMT DEF Running
<1>2. (call.found \/ ok) \in BOOLEAN
  BY DEF Running
<1>3. call' = [op |-> call.op, key |-> call.key, identity |-> call.identity,
               timestamp |-> call.timestamp, of |-> call.of, attempt |-> call.attempt + 1,
               chain |-> IF ok /\ ~call.found THEN chain ELSE call.chain,
               tag |-> IF ok /\ ~call.found THEN tag ELSE call.tag,
               found |-> call.found \/ ok]
  BY DEF Running, Consider, TakeThis, SelectSupergridChain
<1> QED BY <1>1, <1>2, <1>3 DEF Running

\* A draw is a chain of the root or the zero chain, with its bit.
LEMMA DrawType ==
  ASSUME NEW n, NEW d \in Draws(n)
  PROVE  /\ d.valid \in BOOLEAN
         /\ d.valid => \E c \in Chains[n] : d.chain = [layers |-> c, level |-> LevelOf(n)]
<1>1. CASE d = Failed
  BY <1>1 DEF Failed
<1>2. CASE d # Failed
  <2>1. PICK c \in Chains[n] :
          d = [chain |-> [layers |-> c, level |-> LevelOf(n)], valid |-> TRUE]
    BY <1>2 DEF Draws
  <2>2. d.valid = TRUE /\ d.chain = [layers |-> c, level |-> LevelOf(n)]
    BY <2>1
  <2> QED BY <2>2
<1> QED BY <1>1, <1>2

\* Verification says yes or no.
LEMMA MembershipType ==
  ASSUME NEW chain, NEW root PROVE VerifyMembershipRaw(chain, root) \in BOOLEAN
BY DEF VerifyMembershipRaw, VerifyTemporalChain

\* A draw that verifies can be kept.
LEMMA DrawKept ==
  ASSUME NEW timestamp, NEW d \in Draws(ScaledRoot(timestamp)), d.valid,
         VerifyMembershipRaw(d.chain, ScaledRoot(timestamp))
  PROVE  Kept(timestamp, d.chain)
BY DrawType DEF Kept

\* An attempt of a witness generator keeps a chain only while none is kept.
LEMMA AttemptWitnessStep == IInv /\ AttemptWitness => IInv'
<1> SUFFICES ASSUME IInv, AttemptWitness PROVE IInv'
  OBVIOUS
<1> DEFINE at(m) == DeriveTemporalSeed(call.key, call.identity, call.timestamp, m)
           x == at(call.attempt)
           root == ScaledRoot(call.timestamp)
           tagOf(c) == ComputeTemporalBindingTag(call.key, call.identity, call.timestamp, c)
<1>1. call.op = "witness" /\ call.attempt < MaxAttempts
  BY DEF AttemptWitness, MoreAttempts
<1>2. Running
  BY <1>1 DEF IInv, CallInv, Idle
<1>3. x.timestamp = call.timestamp /\ call.timestamp \in Times
  BY <1>2 DEF DeriveTemporalSeed, Running
<1>4. PICK d \in IF x \in DOMAIN draws THEN {draws[x]} ELSE Draws(root) :
        /\ draws' = [y \in DOMAIN draws \cup {x} |-> IF y = x THEN d ELSE draws[y]]
        /\ Consider(d.chain, d.valid /\ VerifyMembershipRaw(d.chain, root), tagOf(d.chain))
  BY DEF AttemptWitness
<1>5. d \in Draws(root)
  BY <1>3, <1>4 DEF IInv, DrawsInv
<1>6. /\ DOMAIN draws \subseteq DOMAIN draws'
      /\ \A y \in DOMAIN draws : draws'[y] = draws[y]
      /\ x \in DOMAIN draws' /\ draws'[x] = d
  BY <1>4
<1>7. now' = now /\ theirs' = theirs /\ issued' = issued /\ alibis' = alibis
  BY DEF AttemptWitness
<1> DEFINE ok == Ok(d, call.timestamp)
<1>8. ok \in BOOLEAN
  BY <1>5, DrawType, MembershipType DEF Ok
<1>9. Consider(d.chain, ok, tagOf(d.chain))
  BY <1>4 DEF Ok
<1>10. /\ Running' /\ call'.op = call.op /\ call'.key = call.key
       /\ call'.identity = call.identity /\ call'.timestamp = call.timestamp
       /\ call'.attempt = call.attempt + 1
       /\ call'.found = (call.found \/ ok)
       /\ call'.chain = IF ok /\ ~call.found THEN d.chain ELSE call.chain
       /\ call'.tag = IF ok /\ ~call.found THEN tagOf(d.chain) ELSE call.tag
  <2> HIDE DEF ok
  <2> QED BY <1>1, <1>2, <1>8, <1>9, Considered
<1>11. DrawsInv'
  <2> SUFFICES ASSUME NEW y \in DOMAIN draws', y.timestamp \in Times
               PROVE  draws'[y] \in Draws(ScaledRoot(y.timestamp))
    BY DEF DrawsInv, Draws
  <2>1. CASE y = x
    BY <1>3, <1>5, <1>6, <2>1
  <2>2. CASE y # x
    BY <1>4, <2>2 DEF IInv, DrawsInv
  <2> QED BY <2>1, <2>2
<1>12. IssuedInv'
  BY <1>6, <1>7, IssuedStays DEF IInv
<1>13. call.attempt \in Nat
  BY <1>2, TemporalAssumption, SMT DEF Running
<1>14. WitnessInv'
  <2>1. \A m : at(m)' = at(m)
    BY <1>10 DEF DeriveTemporalSeed
  <2>2. ASSUME ~call.found
        PROVE  \A m \in 0 .. call.attempt - 1 :
                 at(m) \in DOMAIN draws' /\ ~Ok(draws'[at(m)], call.timestamp)
    BY <1>1, <1>6, <2>2 DEF IInv, WitnessInv
  <2>3. CASE call.found
    <3>1. PICK k \in 0 .. call.attempt - 1 :
            FirstOk(call.key, call.identity, call.timestamp, k, call.chain)
      BY <1>1, <2>3 DEF IInv, WitnessInv
    <3>2. FirstOk(call.key, call.identity, call.timestamp, k, call.chain)'
      <4> DEFINE key == call.key
                 identity == call.identity
                 timestamp == call.timestamp
                 chain == call.chain
      <4>1. FirstOk(key, identity, timestamp, k, chain)
        BY <3>1
      <4>2. key' = key /\ identity' = identity /\ timestamp' = timestamp /\ chain' = chain
        BY <1>10, <2>3
      <4> QED BY <1>6, <4>1, <4>2 DEF FirstOk, Ok, DeriveTemporalSeed
    <3>3. k \in 0 .. call'.attempt - 1
      BY <1>10, <1>13, SMT
    <3>4. call.tag = tagOf(call.chain)
      BY <1>1, <2>3 DEF IInv, WitnessInv
    <3>5. call'.tag = tagOf(call.chain)'
      BY <1>10, <2>3, <3>4 DEF ComputeTemporalBindingTag
    <3>6. call'.found
      BY <1>10, <2>3
    <3> QED BY <3>2, <3>3, <3>5, <3>6 DEF WitnessInv
  <2>4. CASE ~call.found /\ ok
    <3>1. call'.chain = d.chain /\ call'.tag = tagOf(d.chain) /\ call'.found
      BY <1>10, <2>4
    <3> PICK k : k = call.attempt
      OBVIOUS
    <3>2. FirstOk(call.key, call.identity, call.timestamp, k, d.chain)'
      <4>1. at(k)' = x
        BY <2>1
      <4>2. at(k)' \in DOMAIN draws' /\ draws'[at(k)'] = d
        BY <1>6, <4>1
      <4>3. Ok(d, call'.timestamp)
        BY <1>10, <2>4
      <4>4. \A m \in 0 .. k - 1 :
              at(m)' \in DOMAIN draws' /\ ~Ok(draws'[at(m)'], call'.timestamp)
        BY <1>10, <2>1, <2>2, <2>4
      <4> QED BY <4>2, <4>3, <4>4 DEF FirstOk, Ok
    <3>3. k \in 0 .. call'.attempt - 1
      BY <1>10, <1>13, SMT
    <3>4. call'.tag = tagOf(call.chain)'
      BY <1>10, <3>1 DEF ComputeTemporalBindingTag
    <3> QED BY <3>1, <3>2, <3>3, <3>4 DEF WitnessInv
  <2>5. CASE ~call.found /\ ~ok
    <3>1. ~call'.found
      BY <1>10, <2>5
    <3>2. ASSUME NEW m \in 0 .. call'.attempt - 1
          PROVE  m \in 0 .. call.attempt - 1 \/ m = call.attempt
      <4> DEFINE k == call.attempt
      <4>1. k \in Nat /\ m \in 0 .. (k + 1) - 1
        BY <1>10, <1>13
      <4> HIDE DEF k
      <4>2. m \in 0 .. k - 1 \/ m = k
        BY <4>1, SMT
      <4> QED BY <4>2 DEF k
    <3>3. \A m \in 0 .. call'.attempt - 1 :
            at(m) \in DOMAIN draws' /\ ~Ok(draws'[at(m)], call.timestamp)
      BY <1>6, <2>2, <2>5, <3>2
    <3>4. \A m \in 0 .. call'.attempt - 1 :
            at(m)' \in DOMAIN draws' /\ ~Ok(draws'[at(m)'], call'.timestamp)
      BY <1>10, <2>1, <3>3
    <3> QED BY <3>1, <3>4 DEF WitnessInv, Ok
  <2> QED BY <2>3, <2>4, <2>5
<1>15. AlibiInv'
  BY <1>1, <1>10 DEF AlibiInv
<1>16. AlibisInv' /\ ClocksInv'
  BY <1>7 DEF IInv, AlibisInv, IsAlibi, Kept, ClocksInv
<1> QED BY <1>10, <1>11, <1>12, <1>14, <1>15, <1>16 DEF IInv, CallInv

\* An attempt of an alibi generator keeps only what stands apart.
LEMMA AttemptAlibiStep == IInv /\ AttemptAlibi => IInv'
<1> SUFFICES ASSUME IInv, AttemptAlibi PROVE IInv'
  OBVIOUS
<1> DEFINE root == ScaledRoot(call.timestamp)
<1>1. call.op = "alibi" /\ call.attempt < MaxAttempts
  BY DEF AttemptAlibi, MoreAttempts
<1>2. Running
  BY <1>1 DEF IInv, CallInv, Idle
<1>3. PICK i \in issued :
        /\ call.of = {i.witness} /\ call.timestamp = i.witness.timestamp
        /\ call.found => /\ call.chain.layers # i.witness.chain.layers
                         /\ Kept(call.timestamp, call.chain)
                         /\ call.tag = RandomTag
  BY <1>1 DEF IInv, AlibiInv
<1> DEFINE w == i.witness
<1>4. PICK d \in Draws(root) :
        Consider(d.chain,
                 d.valid /\ ChainsDiffer(d.chain, w.chain) /\ VerifyMembershipRaw(d.chain, root),
                 RandomTag)
  BY <1>3 DEF AttemptAlibi
<1>5. now' = now /\ theirs' = theirs /\ draws' = draws /\ issued' = issued /\ alibis' = alibis
  BY DEF AttemptAlibi
<1> DEFINE ok == d.valid /\ ChainsDiffer(d.chain, w.chain) /\ VerifyMembershipRaw(d.chain, root)
<1>6. ok \in BOOLEAN
  BY DrawType, MembershipType DEF ChainsDiffer
<1>7. /\ Running' /\ call'.op = call.op /\ call'.timestamp = call.timestamp
      /\ call'.of = call.of
      /\ call'.found = (call.found \/ ok)
      /\ call'.chain = IF ok /\ ~call.found THEN d.chain ELSE call.chain
      /\ call'.tag = IF ok /\ ~call.found THEN RandomTag ELSE call.tag
  <2>1. Consider(d.chain, ok, RandomTag)
    BY <1>4
  <2> HIDE DEF ok
  <2> QED BY <1>1, <1>2, <1>6, <2>1, Considered
<1>8. AlibiInv'
  <2>1. ASSUME call'.found
        PROVE  /\ call'.chain.layers # w.chain.layers /\ call'.tag = RandomTag
               /\ Kept(call.timestamp, call'.chain)
    <3>1. CASE call.found
      BY <1>3, <1>7, <3>1
    <3>2. CASE ~call.found
      BY <1>7, <2>1, <3>2, DrawKept DEF ChainsDiffer
    <3> QED BY <3>1, <3>2
  <2>2. Kept(call.timestamp, call'.chain) = Kept(call.timestamp, call.chain)'
    BY <1>7 DEF Kept
  <2>3. i \in issued' /\ call'.of = {w} /\ call'.timestamp = w.timestamp
    BY <1>3, <1>5, <1>7
  <2> QED BY <1>7, <2>1, <2>2, <2>3 DEF AlibiInv
<1>9. WitnessInv'
  BY <1>1, <1>7 DEF WitnessInv
<1>10. IssuedInv'
  BY <1>5, IssuedStays DEF IInv
<1>11. DrawsInv' /\ AlibisInv' /\ ClocksInv'
  BY <1>5 DEF IInv, DrawsInv, AlibisInv, IsAlibi, Kept, ClocksInv
<1> QED BY <1>7, <1>8, <1>9, <1>10, <1>11 DEF IInv, CallInv

\* A generator that starts has nothing.
LEMMA StartStep ==
  ASSUME IInv, UNCHANGED <<now, theirs, draws, issued, alibis>>,
         NEW op \in {"witness", "alibi"}, NEW key, NEW identity, NEW timestamp \in Times, NEW of,
         call' = Start(op, key, identity, timestamp, of),
         op = "alibi" => \E i \in issued : of = {i.witness} /\ timestamp = i.witness.timestamp
  PROVE  IInv'
<1>1. call' = [op |-> op, key |-> key, identity |-> identity, timestamp |-> timestamp, of |-> of,
               attempt |-> 0, chain |-> NoChain, tag |-> NoTag, found |-> FALSE]
  BY DEF Start
<1>2. /\ call'.op = op /\ call'.attempt = 0 /\ call'.found = FALSE
      /\ call'.of = of /\ call'.timestamp = timestamp
  BY <1>1
<1>3. 0 \in 0 .. MaxAttempts
  BY TemporalAssumption, SMT
<1>4. CallInv'
  BY <1>1, <1>3 DEF CallInv, Running
<1>5. \A m \in 0 .. 0 - 1 : FALSE
  BY SMT
<1>6. WitnessInv'
  BY <1>2, <1>5 DEF WitnessInv
<1>7. AlibiInv'
  BY <1>2 DEF AlibiInv
<1>8. IssuedInv'
  BY IssuedStays DEF IInv
<1>9. DrawsInv' /\ AlibisInv' /\ ClocksInv'
  BY DEF IInv, DrawsInv, AlibisInv, IsAlibi, Kept, ClocksInv
<1> QED BY <1>4, <1>6, <1>7, <1>8, <1>9 DEF IInv

\* A request starts a generator.
LEMMA GenerateStep == IInv /\ Generate => IInv'
<1> SUFFICES ASSUME IInv, Generate PROVE IInv'
  OBVIOUS
<1>1. PICK k \in Keys, id \in Identities : call' = Start("witness", k, id, now, {})
  BY DEF Generate
<1>2. now \in Times
  BY DEF IInv, ClocksInv
<1>3. UNCHANGED <<now, theirs, draws, issued, alibis>>
  BY DEF Generate
<1> QED BY <1>1, <1>2, <1>3, StartStep

\* A witness that was handed out starts one for an alibi.
LEMMA GenerateAlternativeStep == IInv /\ GenerateAlternative => IInv'
<1> SUFFICES ASSUME IInv, GenerateAlternative PROVE IInv'
  OBVIOUS
<1>1. PICK i \in issued :
        call' = Start("alibi", i.key, i.identity, i.witness.timestamp, {i.witness})
  BY DEF GenerateAlternative
<1>2. i.witness.timestamp \in Times
  BY DEF IInv, IssuedInv, IsIssued
<1>3. UNCHANGED <<now, theirs, draws, issued, alibis>>
  BY DEF GenerateAlternative
<1> QED BY <1>1, <1>2, <1>3, StartStep

\* With no generator running the parts about it say nothing.
LEMMA NoGeneratorStep ==
  ASSUME IInv, draws' = draws, now' = now, theirs' = theirs,
         call' = Idle \/ call'.op = "sampled", IssuedInv', AlibisInv'
  PROVE  IInv'
<1>1. call'.op \in {"idle", "sampled"}
  BY DEF Idle
<1> QED BY <1>1 DEF IInv, CallInv, WitnessInv, AlibiInv, DrawsInv, ClocksInv

\* What a generator that is through hands out is what its invariant says.
LEMMA ReturnStep == IInv /\ Return => IInv'
<1> SUFFICES ASSUME IInv, Return PROVE IInv'
  OBVIOUS
<1> DEFINE w == [chain |-> call.chain, bindingTag |-> call.tag, timestamp |-> call.timestamp]
           new == [witness |-> w, key |-> call.key, identity |-> call.identity]
<1>1. Running /\ call.attempt = MaxAttempts
  BY DEF Return, Finished, IInv, CallInv, Idle
<1>2. draws' = draws /\ call' = Idle /\ now' = now /\ theirs' = theirs
  BY DEF Return
<1>3. IssuedInv'
  <2>1. ASSUME NEW i \in issued PROVE IsIssued(i)'
    <3>1. IsIssued(i)
      BY DEF IInv, IssuedInv
    <3> QED BY <1>2, <3>1 DEF IsIssued, FirstOk, Ok
  <2>2. CASE call.op = "witness" /\ call.found
    <3>1. PICK k \in 0 .. call.attempt - 1 :
            FirstOk(call.key, call.identity, call.timestamp, k, call.chain)
      BY <2>2 DEF IInv, WitnessInv
    <3>2. call.tag = ComputeTemporalBindingTag(call.key, call.identity, call.timestamp,
                                               call.chain)
      BY <2>2 DEF IInv, WitnessInv
    <3> PICK i : i = new
      OBVIOUS
    <3>3. IsIssued(i)
      BY <1>1, <3>1, <3>2 DEF IsIssued, Running
    <3>4. IsIssued(i)'
      BY <1>2, <3>3 DEF IsIssued, FirstOk, Ok
    <3>5. issued' = issued \cup {i}
      BY <2>2 DEF Return
    <3> QED BY <2>1, <3>4, <3>5 DEF IssuedInv
  <2>3. CASE ~(call.op = "witness" /\ call.found)
    BY <2>1, <2>3 DEF Return, IssuedInv
  <2> QED BY <2>2, <2>3
<1>4. AlibisInv'
  <2>1. CASE call.op = "alibi" /\ call.found
    <3>1. PICK v : /\ call.of = {v} /\ call.chain.layers # v.chain.layers
                   /\ call.timestamp = v.timestamp /\ call.tag = RandomTag
                   /\ Kept(call.timestamp, call.chain)
      BY <2>1 DEF IInv, AlibiInv
    <3> PICK y : y = [witness |-> w, of |-> v]
      OBVIOUS
    <3>2. alibis' = alibis \cup {y}
      BY <2>1, <3>1 DEF Return
    <3>3. IsAlibi(y)
      BY <1>1, <3>1 DEF IsAlibi, Running
    <3> QED BY <3>2, <3>3 DEF IInv, AlibisInv, IsAlibi, Kept
  <2>2. CASE ~(call.op = "alibi" /\ call.found)
    BY <2>2 DEF Return, IInv, AlibisInv
  <2> QED BY <2>1, <2>2
<1> QED BY <1>2, <1>3, <1>4, NoGeneratorStep

\* A chain that is sampled changes nothing but the call.
LEMMA SampleStep == IInv /\ (SampleTemporalChain \/ TakeSample) => IInv'
<1> SUFFICES ASSUME IInv, SampleTemporalChain \/ TakeSample PROVE IInv'
  OBVIOUS
<1>1. /\ draws' = draws /\ issued' = issued /\ alibis' = alibis
      /\ now' = now /\ theirs' = theirs
  BY DEF SampleTemporalChain, TakeSample
<1>2. call' = Idle \/ call'.op = "sampled"
  BY DEF SampleTemporalChain, TakeSample
<1>3. IssuedInv'
  BY <1>1, IssuedStays DEF IInv
<1>4. AlibisInv'
  BY <1>1 DEF IInv, AlibisInv, IsAlibi, Kept
<1> QED BY <1>1, <1>2, <1>3, <1>4, NoGeneratorStep

\* The clocks may move, and nothing else does.
LEMMA ClocksStep ==
  ASSUME IInv, UNCHANGED <<call, draws, issued, alibis>>, ClocksInv'
  PROVE  IInv'
<1>1. CallInv'
  BY DEF IInv, CallInv, Running, Idle
<1>2. WitnessInv'
  BY DEF IInv, WitnessInv, FirstOk, Ok
<1>3. AlibiInv'
  BY DEF IInv, AlibiInv, Kept
<1>4. IssuedInv'
  BY IssuedStays DEF IInv
<1> QED BY <1>1, <1>2, <1>3, <1>4 DEF IInv, DrawsInv, AlibisInv, IsAlibi, Kept

\* Nor does their moving break it.
LEMMA TickStep == IInv /\ Tick => IInv'
<1> SUFFICES ASSUME IInv, Tick PROVE IInv'
  OBVIOUS
<1>1. ClocksInv'
  BY DEF IInv, Tick, ClocksInv
<1> QED BY <1>1, ClocksStep DEF Tick

\* What was handed out, and what the generators have, is as IInv says, at every
\* step.
THEOREM HandedOutCorrect == Spec => []IInv
<1>1. IInv /\ [Next]_vars => IInv'
  <2> SUFFICES ASSUME IInv, [Next]_vars PROVE IInv'
    OBVIOUS
  <2>1. CASE UNCHANGED vars
    <3>1. ClocksInv'
      BY <2>1 DEF vars, IInv, ClocksInv
    <3> QED BY <2>1, <3>1, ClocksStep DEF vars
  <2>2. CASE Next
    BY <2>2, TickStep, GenerateStep, GenerateAlternativeStep, AttemptWitnessStep,
       AttemptAlibiStep, ReturnStep, SampleStep DEF Next, Attempt, Answer
  <2> QED BY <2>1, <2>2
<1> QED BY InitIInv, <1>1, PTL DEF Spec

-----------------------------------------------------------------------------
\* A layer of the scaled sampler decomposes the number it was drawn for, up to
\* what the floor leaves out, and both of its parts are multiples of 90.
LEMMA LayerDecomposes ==
  ASSUME NEW n \in 0 .. Word - 1, NEW p \in SampleLayerScaled(n)
  PROVE  \E x, y \in Nat : p.a = 90 * x /\ p.b = 90 * y /\ 19 * x + 9 * y = n \div 90
<1> DEFINE base == n \div 90
           m    == (base + Word - 1) % Word
           a0   == 1 + (m % 9)
           b0   == (base - 19 * a0) \div 9
           kMax == b0 \div 19
<1>1. Word \in Nat \ {0}
  BY SupergridAssumption
<1>2. base \in Nat /\ base <= n /\ base < Word
  BY <1>1, SMT
<1>3. Layer(n) = [a0 |-> a0, b0 |-> b0, kMax |-> kMax, some |-> base >= 19 * a0 /\ kMax # 0]
  BY DEF Layer, ScaleFactor
<1> HIDE DEF base
<1>4. m \in Nat
  BY <1>1, <1>2, SMT
<1> HIDE DEF m
<1>5. a0 \in 1 .. 9
  BY <1>4, SMT
<1>6. /\ Layer(n).a0 = a0 /\ Layer(n).b0 = b0 /\ Layer(n).kMax = kMax
      /\ Layer(n).some = (base >= 19 * a0 /\ kMax # 0)
  BY <1>3
<1> HIDE DEF a0, b0, kMax
<1>7. PICK t \in 0 .. kMax : base >= 19 * a0 /\ p = Scaled(Pair(a0 + 9 * t, b0 - 19 * t))
  BY <1>6 DEF SampleLayerScaled, DrawsOf
<1>8. m = base - 1
  BY <1>1, <1>2, <1>5, <1>7, SMT DEF m
<1>9. (base - 19 * a0) % 9 = 0
  BY <1>2, <1>5, <1>7, <1>8, SMT DEF a0
<1>10. b0 \in Nat /\ 9 * b0 = base - 19 * a0
  BY <1>2, <1>5, <1>7, <1>9, SMT DEF b0
<1>11. t \in Nat /\ 19 * t <= b0
  BY <1>7, <1>10, SMT DEF kMax
<1> DEFINE x == a0 + 9 * t
           y == b0 - 19 * t
<1>12. x \in Nat /\ y \in Nat /\ 19 * x + 9 * y = base
  BY <1>2, <1>5, <1>10, <1>11, SMT
<1>13. p.a = x * 90 /\ p.b = y * 90
  <2> HIDE DEF x, y
  <2> QED BY <1>7 DEF Scaled, Pair, ScaleFactor, x, y
<1>14. x * 90 = 90 * x /\ y * 90 = 90 * y
  <2> HIDE DEF x, y
  <2> QED BY <1>12, SMT
<1> HIDE DEF x, y
<1> QED BY <1>12, <1>13, <1>14 DEF base

\* A layer drawn for a multiple of 90 decomposes all of it.
LEMMA ScaledDecomposes ==
  ASSUME NEW z \in Nat, 90 * z < Word, NEW p \in SampleLayerScaled(90 * z)
  PROVE  \E x, y \in Nat : p.a = 90 * x /\ p.b = 90 * y /\ 19 * p.a + 9 * p.b = 90 * z
                             /\ 90 * x < Word
<1>1. Word \in Nat \ {0}
  BY SupergridAssumption
<1> DEFINE n == 90 * z
<1>2. n \in 0 .. Word - 1 /\ n \div 90 = z
  BY <1>1, SMT
<1> HIDE DEF n
<1>3. PICK x \in Nat, y \in Nat : p.a = 90 * x /\ p.b = 90 * y /\ 19 * x + 9 * y = n \div 90
  BY <1>2, LayerDecomposes DEF n
<1>4. 19 * (90 * x) + 9 * (90 * y) = 90 * z /\ 90 * x < Word
  BY <1>1, <1>2, <1>3, SMT
<1> QED BY <1>3, <1>4

\* The layers of a chain whose first equation holds all decompose the number
\* above them.
LEMMA ChainDecomposes ==
  ASSUME NEW root \in 0 .. Word - 1, NEW c \in ScaledChains(root),
         (19 * c[1].a + 9 * c[1].b) % Word = root
  PROVE  /\ 19 * c[1].a + 9 * c[1].b = root
         /\ 19 * c[2].a + 9 * c[2].b = c[1].a
         /\ 19 * c[3].a + 9 * c[3].b = c[2].a
<1>1. Word \in Nat \ {0}
  BY SupergridAssumption
<1>2. PICK p \in SampleLayerScaled(root) :
        c \in UNION {{<<p, q, r>> : r \in SampleLayerScaled(q.a)} : q \in SampleLayerScaled(p.a)}
  BY DEF ScaledChains
<1>3. PICK q \in SampleLayerScaled(p.a) : c \in {<<p, q, r>> : r \in SampleLayerScaled(q.a)}
  BY <1>2
<1>4. PICK r \in SampleLayerScaled(q.a) : c = <<p, q, r>>
  BY <1>3
<1>5. c[1] = p /\ c[2] = q /\ c[3] = r
  BY <1>4
<1>6. PICK x \in Nat, y \in Nat :
        p.a = 90 * x /\ p.b = 90 * y /\ 19 * x + 9 * y = root \div 90
  BY LayerDecomposes
<1>7. 19 * (90 * x) + 9 * (90 * y) = 90 * (root \div 90)
  BY <1>6, SMT
<1>8. 90 * (root \div 90) \in 0 .. root /\ 90 * x < Word
  BY <1>1, <1>6, <1>7, SMT
<1>9. 19 * p.a + 9 * p.b = root
  <2> DEFINE s == 90 * (root \div 90)
  <2>1. s \in 0 .. root
    BY <1>8
  <2>2. 19 * p.a + 9 * p.b = s
    BY <1>6, <1>7
  <2> HIDE DEF s
  <2>3. s % Word = s
    BY <1>1, <2>1, SMT
  <2> QED BY <1>5, <2>2, <2>3
<1>10. PICK u \in Nat, v \in Nat :
        q.a = 90 * u /\ q.b = 90 * v /\ 19 * q.a + 9 * q.b = 90 * x /\ 90 * u < Word
  <2>1. q \in SampleLayerScaled(90 * x)
    BY <1>6
  <2> QED BY <1>8, <2>1, ScaledDecomposes
<1>11. 19 * r.a + 9 * r.b = 90 * u
  <2>1. r \in SampleLayerScaled(90 * u)
    BY <1>10
  <2> QED BY <1>10, <2>1, ScaledDecomposes
<1> QED BY <1>5, <1>6, <1>9, <1>10, <1>11

\* What was kept decomposes, is homogeneous and is not raw.
LEMMA KeptDecomposes ==
  ASSUME NEW timestamp \in Times, NEW chain, Kept(timestamp, chain)
  PROVE  LET c    == chain.layers
             n(i) == IF i = 1 THEN ScaledRoot(timestamp) ELSE c[i - 1].a
         IN  /\ \A i \in 1 .. 3 : 19 * c[i].a + 9 * c[i].b = n(i) /\ NineHomogeneous(c[i])
             /\ chain.level = LevelOf(ScaledRoot(timestamp))
<1> DEFINE root == ScaledRoot(timestamp)
           n(i) == IF i = 1 THEN root ELSE chain.layers[i - 1].a
<1>1. PICK c \in Chains[root] : chain = [layers |-> c, level |-> LevelOf(root)]
  BY DEF Kept
<1>2. chain.layers = c /\ chain.level = LevelOf(root)
  BY <1>1
<1>3. c \in ScaledChains(root)
  <2>1. root \in {ScaledRoot(t) : t \in Times}
    OBVIOUS
  <2> QED BY <2>1, TemporalAssumption
<1>4. root \in 0 .. Word - 1
  <2>1. timestamp \in Nat /\ Word \in Nat \ {0}
    BY TemporalAssumption, SupergridAssumption, SMT
  <2>2. TemporalRoot(timestamp) * 90 \in Nat
    <3>1. timestamp \div 366 \in Nat
      BY <2>1, SMT
    <3> QED BY <3>1, SMT DEF TemporalRoot, Window, MicroAnchor
  <2> DEFINE z == TemporalRoot(timestamp) * 90
  <2>3. root = z % Word /\ z \in Nat
    BY <2>2 DEF ScaledRoot, TransformToSupergrid, ScaleFactor
  <2> HIDE DEF z
  <2>4. z % Word \in 0 .. Word - 1
    BY <2>1, <2>3, SMT
  <2> QED BY <2>3, <2>4
<1>5. VerifyTemporalChain(c, LevelOf(root), root)
  BY <1>2 DEF Kept, VerifyMembershipRaw
<1>6. LevelOf(root) # "Raw"
  BY DEF LevelOf
<1>7. \A i \in 1 .. 3 : NineHomogeneous(c[i])
  BY <1>5, <1>6 DEF VerifyTemporalChain
<1>8. /\ 19 * c[1].a + 9 * c[1].b = root
      /\ 19 * c[2].a + 9 * c[2].b = c[1].a
      /\ 19 * c[3].a + 9 * c[3].b = c[2].a
  <2> HIDE DEF root
  <2> QED BY <1>3, <1>4, <1>5, ChainDecomposes DEF VerifyTemporalChain
<1>9. n(1) = root /\ n(2) = c[1].a /\ n(3) = c[2].a
  BY <1>2, SMT
<1>10. ASSUME NEW i \in 1 .. 3 PROVE 19 * c[i].a + 9 * c[i].b = n(i)
  <2>1. i = 1 \/ i = 2 \/ i = 3
    BY SMT
  <2> HIDE DEF n
  <2>2. CASE i = 1
    BY <1>8, <1>9, <2>2
  <2>3. CASE i = 2
    BY <1>8, <1>9, <2>3
  <2>4. CASE i = 3
    BY <1>8, <1>9, <2>4
  <2> QED BY <2>1, <2>2, <2>3, <2>4
<1> QED BY <1>2, <1>7, <1>10

\* What was issued was kept.
LEMMA IssuedKept ==
  ASSUME IInv, NEW i \in issued
  PROVE  Kept(i.witness.timestamp, i.witness.chain) /\ i.witness.timestamp \in Times
<1>1. IsIssued(i)
  BY DEF IInv, IssuedInv
<1>2. PICK k \in 0 .. MaxAttempts - 1 :
        FirstOk(i.key, i.identity, i.witness.timestamp, k, i.witness.chain)
  BY <1>1 DEF IsIssued
<1> DEFINE x == DeriveTemporalSeed(i.key, i.identity, i.witness.timestamp, k)
<1>3. /\ x \in DOMAIN draws /\ draws[x].chain = i.witness.chain
      /\ Ok(draws[x], i.witness.timestamp)
  BY <1>2 DEF FirstOk
<1>4. x.timestamp = i.witness.timestamp
  BY DEF DeriveTemporalSeed
<1>5. draws[x] \in Draws(ScaledRoot(i.witness.timestamp))
  BY <1>1, <1>3, <1>4 DEF IsIssued, IInv, DrawsInv
<1> QED BY <1>1, <1>3, <1>5, DrawKept DEF IsIssued, Ok

\* So every layer of every chain handed out decomposes the layer above it, the
\* first one the root of the witness's window.
THEOREM DecompositionCorrect == Spec => []HandedOutDecomposes
<1>1. IInv => HandedOutDecomposes
  <2> SUFFICES ASSUME IInv, NEW w \in {i.witness : i \in issued} \cup {x.witness : x \in alibis}
               PROVE  LET c    == w.chain.layers
                          n(i) == IF i = 1 THEN ScaledRoot(w.timestamp) ELSE c[i - 1].a
                      IN  /\ \A i \in 1 .. 3 :
                               19 * c[i].a + 9 * c[i].b = n(i) /\ NineHomogeneous(c[i])
                          /\ w.chain.level = LevelOf(ScaledRoot(w.timestamp))
                          /\ VerifyMembership(w)
    BY DEF HandedOutDecomposes
  <2>1. w.timestamp \in Times /\ Kept(w.timestamp, w.chain)
    BY IssuedKept DEF IInv, AlibisInv, IsAlibi
  <2>2. VerifyMembership(w)
    BY <2>1 DEF Kept, VerifyMembershipRaw, VerifyMembership
  <2> QED BY <2>1, <2>2, KeptDecomposes
<1> QED BY HandedOutCorrect, <1>1, PTL

-----------------------------------------------------------------------------
\* The window a timestamp is in.
LEMMA WindowBounds ==
  ASSUME NEW t \in Nat
  PROVE  /\ Window(t) \in Nat
         /\ 366 * Window(t) <= t /\ t < 366 * Window(t) + 366
<1>1. t \div 366 \in Nat /\ 366 * (t \div 366) <= t /\ t < 366 * (t \div 366) + 366
  BY SMT
<1> QED BY <1>1 DEF Window, MicroAnchor

\* The largest clock reading a verifier accepts.
LEMMA MaxWindowIs ==
  ASSUME NEW t \in Nat
  PROVE  MaxWindow(t) = IF t + 366 >= Word THEN Word - 1 ELSE t + 366
BY DEF MaxWindow, MicroAnchor

\* So a witness outlives its own window by at most one, and does not end before it.
THEOREM StalenessCorrect == Spec => []StaleByAtMostOneWindow
<1>1. IInv => StaleByAtMostOneWindow
  <2> SUFFICES ASSUME IInv, NEW i \in issued
               PROVE  LET status == VerifyTemporalAuthenticity(i.key, i.witness, i.identity, theirs)
                      IN  /\ Window(theirs) > Window(i.witness.timestamp) + 1 => status = "Expired"
                          /\ Window(theirs) <= Window(i.witness.timestamp) => status = "Authentic"
    BY DEF StaleByAtMostOneWindow
  <2> DEFINE t == i.witness.timestamp
             status == VerifyTemporalAuthenticity(i.key, i.witness, i.identity, theirs)
  <2>1. IsIssued(i) /\ theirs \in Times
    BY DEF IInv, IssuedInv, ClocksInv
  <2>2. t \in 0 .. Word - 1 /\ theirs \in 0 .. Word - 1 /\ Word \in Nat
    BY <2>1, TemporalAssumption, SupergridAssumption DEF IsIssued
  <2>3. IF theirs > MaxWindow(t) THEN status = "Expired" ELSE status = "Authentic"
    BY <2>1 DEF IsIssued, VerifyTemporalAuthenticity
  <2> DEFINE late == Window(theirs)
             own == Window(t)
             last == MaxWindow(t)
  <2>4. /\ own \in Nat /\ 366 * own <= t /\ t < 366 * own + 366
        /\ late \in Nat /\ 366 * late <= theirs /\ theirs < 366 * late + 366
        /\ last = IF t + 366 >= Word THEN Word - 1 ELSE t + 366
    <3>1. t \in Nat /\ theirs \in Nat
      BY <2>2, SMT
    <3> HIDE DEF t
    <3>2. /\ Window(t) \in Nat /\ 366 * Window(t) <= t /\ t < 366 * Window(t) + 366
          /\ Window(theirs) \in Nat
          /\ 366 * Window(theirs) <= theirs /\ theirs < 366 * Window(theirs) + 366
      BY <3>1, WindowBounds
    <3>3. MaxWindow(t) = IF t + 366 >= Word THEN Word - 1 ELSE t + 366
      BY <3>1, MaxWindowIs
    <3> QED BY <3>2, <3>3
  <2> HIDE DEF t, late, own, last, status
  <2>5. late > own + 1 => theirs > last
    BY <2>2, <2>4, SMT
  <2>6. late <= own => ~(theirs > last)
    BY <2>2, <2>4, SMT
  <2> QED BY <2>3, <2>5, <2>6 DEF t, late, own, last, status
<1> QED BY HandedOutCorrect, <1>1, PTL

\* A witness with another timestamp written on it is expired or under a tag that
\* does not match.
THEOREM RedatingCorrect == Spec => []CannotBeRedated
<1>1. IInv => CannotBeRedated
  <2> SUFFICES ASSUME IInv, NEW i \in issued, NEW t \in Times \ {i.witness.timestamp}
               PROVE  VerifyTemporalAuthenticity(i.key, [i.witness EXCEPT !.timestamp = t],
                                                 i.identity, theirs) # "Authentic"
    BY DEF CannotBeRedated
  <2>1. IsIssued(i)
    BY DEF IInv, IssuedInv
  <2> DEFINE w == [i.witness EXCEPT !.timestamp = t]
  <2>2. w.timestamp = t /\ w.bindingTag = i.witness.bindingTag
    BY <2>1 DEF IsIssued
  <2>3. w.bindingTag.timestamp = i.witness.timestamp
    BY <2>1, <2>2 DEF IsIssued, ComputeTemporalBindingTag
  <2>4. ComputeTemporalBindingTag(i.key, i.identity, t, w.chain).timestamp = t
    BY DEF ComputeTemporalBindingTag
  <2> HIDE DEF w
  <2>5. w.bindingTag # ComputeTemporalBindingTag(i.key, i.identity, w.timestamp, w.chain)
    BY <2>2, <2>3, <2>4
  <2> QED BY <2>5 DEF VerifyTemporalAuthenticity, w
<1> QED BY HandedOutCorrect, <1>1, PTL

\* The tag of an alibi is the tag of no request.
LEMMA RandomIsNoTag ==
  \A key, identity, timestamp, chain :
    RandomTag # ComputeTemporalBindingTag(key, identity, timestamp, chain)
<1>1. RandomTag.mac = "fill_bytes"
  BY DEF RandomTag
<1>2. \A key, identity, timestamp, chain :
        ComputeTemporalBindingTag(key, identity, timestamp, chain).mac = "bind-90"
  BY DEF ComputeTemporalBindingTag
<1> QED BY <1>1, <1>2

\* An alibi is as old as its witness, has other layers, and no key finds it
\* authentic.
THEOREM AlibiCorrect == Spec => []AlibiStandsApart
<1>1. IInv => AlibiStandsApart
  <2> SUFFICES ASSUME IInv, NEW x \in alibis
               PROVE  /\ x.witness.chain.layers # x.of.chain.layers
                      /\ x.witness.timestamp = x.of.timestamp
                      /\ \A k \in Keys, id \in Identities :
                           VerifyTemporalAuthenticity(k, x.witness, id, theirs) # "Authentic"
    BY DEF AlibiStandsApart
  <2>1. IsAlibi(x)
    BY DEF IInv, AlibisInv
  <2> QED BY <2>1, RandomIsNoTag DEF IsAlibi, VerifyTemporalAuthenticity
<1> QED BY HandedOutCorrect, <1>1, PTL

-----------------------------------------------------------------------------
\* Of two attempts whose draws could be kept, with none before them that could,
\* neither comes first.
LEMMA FirstIsUnique ==
  ASSUME NEW key, NEW identity, NEW timestamp,
         NEW k \in Int, NEW m \in Int, 0 <= k, 0 <= m, NEW c, NEW e,
         FirstOk(key, identity, timestamp, k, c),
         FirstOk(key, identity, timestamp, m, e)
  PROVE  c = e
<1>1. k < m \/ k = m \/ m < k
  BY SMT
<1>2. CASE k < m
  <2>1. k \in 0 .. m - 1
    BY <1>2, SMT
  <2> QED BY <2>1 DEF FirstOk
<1>3. CASE m < k
  <2>1. m \in 0 .. k - 1
    BY <1>3, SMT
  <2> QED BY <2>1 DEF FirstOk
<1>4. CASE k = m
  BY <1>4 DEF FirstOk
<1> QED BY <1>1, <1>2, <1>3, <1>4

\* One request at one timestamp has one witness.
RegenerationAgrees ==
  \A i, j \in issued :
    i.key = j.key /\ i.identity = j.identity /\ i.witness.timestamp = j.witness.timestamp => i = j

\* A tag covers the layers and the timestamp, and these leave one level.
TagOfOneChain ==
  \A i, j \in issued :
    i.witness.bindingTag = j.witness.bindingTag => i.witness.chain = j.witness.chain

\* The first holds because the draws of a request are the same each time.
LEMMA SameAgain == IInv => RegenerationAgrees
<1> SUFFICES ASSUME IInv, NEW i \in issued, NEW j \in issued,
                    i.key = j.key, i.identity = j.identity,
                    i.witness.timestamp = j.witness.timestamp
             PROVE  i = j
  BY DEF RegenerationAgrees
<1>1. IsIssued(i) /\ IsIssued(j)
  BY DEF IInv, IssuedInv
<1>2. PICK k \in 0 .. MaxAttempts - 1 :
        FirstOk(i.key, i.identity, i.witness.timestamp, k, i.witness.chain)
  BY <1>1 DEF IsIssued
<1>3. PICK m \in 0 .. MaxAttempts - 1 :
        FirstOk(i.key, i.identity, i.witness.timestamp, m, j.witness.chain)
  BY <1>1 DEF IsIssued
<1>4. k \in Int /\ m \in Int /\ 0 <= k /\ 0 <= m
  BY TemporalAssumption, SMT
<1>5. i.witness.chain = j.witness.chain
  BY <1>2, <1>3, <1>4, FirstIsUnique
<1>6. i.witness.bindingTag = j.witness.bindingTag
  BY <1>1, <1>5 DEF IsIssued
<1>7. i.witness = j.witness
  BY <1>1, <1>5, <1>6 DEF IsIssued
<1> QED BY <1>1, <1>7 DEF IsIssued

\* The second because the level of what was kept is that of the root.
LEMMA TagsApart == IInv => TagOfOneChain
<1> SUFFICES ASSUME IInv, NEW i \in issued, NEW j \in issued,
                    i.witness.bindingTag = j.witness.bindingTag
             PROVE  i.witness.chain = j.witness.chain
  BY DEF TagOfOneChain
<1>1. IsIssued(i) /\ IsIssued(j)
  BY DEF IInv, IssuedInv
<1>2. ASSUME NEW k, NEW l, NEW a, NEW b, NEW s, NEW t, NEW c, NEW d,
             ComputeTemporalBindingTag(k, a, s, c) = ComputeTemporalBindingTag(l, b, t, d)
      PROVE  s = t /\ c.layers = d.layers
  BY <1>2 DEF ComputeTemporalBindingTag
<1>3. /\ i.witness.timestamp = j.witness.timestamp
      /\ i.witness.chain.layers = j.witness.chain.layers
  BY <1>1, <1>2 DEF IsIssued
<1>4. ASSUME NEW t, NEW c, Kept(t, c)
      PROVE  c = [layers |-> c.layers, level |-> LevelOf(ScaledRoot(t))]
  BY <1>4 DEF Kept
<1> QED BY <1>3, <1>4, IssuedKept

\* A witness generator that has found a chain hands out a witness as the service
\* does.
LEMMA ReturnIssues ==
  ASSUME IInv, Return, call.op = "witness", call.found PROVE S!Issue
<1> PICK new : new = [witness |-> [chain |-> call.chain, bindingTag |-> call.tag,
                                   timestamp |-> call.timestamp],
                      key |-> call.key, identity |-> call.identity]
  OBVIOUS
<1>1. issued' = issued \cup {new} /\ alibis' = alibis
  BY DEF Return
<1>2. IInv'
  BY ReturnStep
<1>3. RegenerationAgrees' /\ TagOfOneChain'
  BY <1>2, SameAgain, TagsApart, PTL
<1>4. IsIssued(new)' /\ Kept(new.witness.timestamp, new.witness.chain)
  <2>1. PICK k \in 0 .. call.attempt - 1 :
          FirstOk(call.key, call.identity, call.timestamp, k, call.chain)
    BY DEF IInv, WitnessInv
  <2> DEFINE x == DeriveTemporalSeed(call.key, call.identity, call.timestamp, k)
  <2>2. x \in DOMAIN draws /\ draws[x].chain = call.chain /\ Ok(draws[x], call.timestamp)
    BY <2>1 DEF FirstOk
  <2>3. x.timestamp = call.timestamp /\ call.timestamp \in Times
    BY DEF DeriveTemporalSeed, IInv, CallInv, Idle, Running
  <2>4. draws[x] \in Draws(ScaledRoot(call.timestamp))
    BY <2>2, <2>3 DEF IInv, DrawsInv
  <2>5. Kept(call.timestamp, call.chain)
    BY <2>2, <2>4, DrawKept DEF Ok
  <2>6. new.witness.timestamp = call.timestamp /\ new.witness.chain = call.chain
    OBVIOUS
  <2>7. IsIssued(new)'
    BY <1>1, <1>2 DEF IInv, IssuedInv
  <2> QED BY <2>5, <2>6, <2>7
<1>5. IsMember(Served(new).space, Served(new).chain)
  BY <1>4 DEF Served, IsMember, Kept
<1>6. ASSUME NEW i \in issued, Served(i).request = Served(new).request
      PROVE  Served(i) = Served(new)
  <2>1. /\ i.key = new.key /\ i.identity = new.identity
        /\ i.witness.timestamp = new.witness.timestamp
    BY <1>6 DEF Served
  <2>2. i = new
    BY <1>1, <1>3, <2>1 DEF RegenerationAgrees
  <2> QED BY <2>2
<1>7. ASSUME NEW i \in issued, Served(i).tag = Served(new).tag
      PROVE  Served(i).chain = Served(new).chain
  BY <1>1, <1>3, <1>7 DEF TagOfOneChain, Served
<1>8. ASSUME NEW x \in alibis PROVE Stood(x).tag # Served(new).tag
  <2>1. x.witness.bindingTag = RandomTag
    BY DEF IInv, AlibisInv, IsAlibi
  <2>2. new.witness.bindingTag # RandomTag
    BY <1>4, RandomIsNoTag DEF IsIssued
  <2> QED BY <2>1, <2>2 DEF Stood, Served
<1>9. {Served(i) : i \in issued'} = {Served(i) : i \in issued} \cup {Served(new)}
  BY <1>1
<1>10. Served(new) \in {Served(i) : i \in issued'}
  BY <1>9
<1> QED BY <1>1, <1>5, <1>6, <1>7, <1>8, <1>9, <1>10 DEF S!Issue

\* An alibi generator that has found a chain hands out an alibi as the service
\* does.
LEMMA ReturnStands ==
  ASSUME IInv, Return, call.op = "alibi", call.found PROVE S!Stand
<1>1. PICK i \in issued :
        /\ call.of = {i.witness} /\ call.timestamp = i.witness.timestamp
        /\ call.chain.layers # i.witness.chain.layers
        /\ Kept(call.timestamp, call.chain)
        /\ call.tag = RandomTag
  BY DEF IInv, AlibiInv
<1> PICK new : new = [witness |-> [chain |-> call.chain, bindingTag |-> call.tag,
                                   timestamp |-> call.timestamp],
                      of |-> i.witness]
  OBVIOUS
<1>2. issued' = issued /\ alibis' = alibis \cup {new}
  BY <1>1 DEF Return
<1>3. /\ new.witness.timestamp = call.timestamp /\ new.witness.chain = call.chain
      /\ new.witness.bindingTag = RandomTag /\ new.of = i.witness
  BY <1>1
<1>4. IsMember(Stood(new).space, Stood(new).chain)
  BY <1>1, <1>3 DEF Stood, IsMember, Kept
<1>5. /\ Served(i).space = Stood(new).space /\ Served(i).chain = Stood(new).of
      /\ Served(i).chain # Stood(new).chain
  BY <1>1, <1>3 DEF Stood, Served
<1>6. ASSUME NEW j \in issued PROVE Served(j).tag # Stood(new).tag
  <2>1. IsIssued(j)
    BY DEF IInv, IssuedInv
  <2>2. j.witness.bindingTag # RandomTag
    BY <2>1, RandomIsNoTag DEF IsIssued
  <2> QED BY <1>3, <2>2 DEF Stood, Served
<1>7. {Stood(x) : x \in alibis'} = {Stood(x) : x \in alibis} \cup {Stood(new)}
  BY <1>2
<1>8. Stood(new) \in {Stood(x) : x \in alibis'}
  BY <1>7
<1> QED BY <1>2, <1>4, <1>5, <1>6, <1>7, <1>8 DEF S!Stand

\* The loops implement the service, whatever the clocks show and whatever is
\* sampled in between.
THEOREM ServiceImplemented == Spec => ImplementsService
<1>1. Init => S!Init
  BY DEF Init, S!Init
<1>2. IInv /\ [Next]_vars => [S!Next]_<<{Served(i) : i \in issued}, {Stood(x) : x \in alibis}>>
  <2> SUFFICES ASSUME IInv, [Next]_vars
               PROVE  S!Next \/ (issued' = issued /\ alibis' = alibis)
    OBVIOUS
  <2>1. CASE Return
    <3>1. CASE call.op = "witness" /\ call.found
      BY <2>1, <3>1, ReturnIssues DEF S!Next
    <3>2. CASE call.op = "alibi" /\ call.found
      BY <2>1, <3>2, ReturnStands DEF S!Next
    <3>3. CASE ~(call.op = "witness" /\ call.found) /\ ~(call.op = "alibi" /\ call.found)
      BY <2>1, <3>3 DEF Return
    <3> QED BY <3>1, <3>2, <3>3
  <2>2. CASE Next /\ ~Return
    BY <2>2 DEF Next, Attempt, Answer, AttemptWitness, AttemptAlibi, Generate,
                GenerateAlternative, SampleTemporalChain, TakeSample, Tick
  <2>3. CASE UNCHANGED vars
    BY <2>3 DEF vars
  <2> QED BY <2>1, <2>2, <2>3
<1> QED BY HandedOutCorrect, <1>1, <1>2, PTL DEF Spec, ImplementsService, S!Spec
=============================================================================
