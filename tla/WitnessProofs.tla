--------------------------- MODULE WitnessProofs ---------------------------
(***************************************************************************)
(* What is handed out, for every number of attempts, every witness space   *)
(* and every set of logins and requests: a witness is the first draw of    *)
(* its own seeds that is a chain, with the tag of that chain; asked for    *)
(* again it comes out the same; an alibi is another member of the space    *)
(* with a tag of nobody.  That a key in memory was derived from a login,   *)
(* whichever way it came back.                                             *)
(***************************************************************************)
EXTENDS Witness, SequenceTheorems, TLAPS

\* The draw of an attempt for a request, as the key of `draws'.
At(key, identity, session, space, m) ==
  <<[key |-> key, text |-> Framed(identity, session), attempt |-> m], space.rootN>>

Ok(d, space) == d.valid /\ VerifyMembership(space, d.chain)

\* The draw of attempt k was the first that could be kept, and has this chain.
FirstOk(key, identity, session, space, k, chain) ==
  LET at(m) == At(key, identity, session, space, m)
  IN  /\ at(k) \in DOMAIN draws
      /\ draws[at(k)].chain = chain /\ Ok(draws[at(k)], space)
      /\ \A m \in 0 .. k - 1 : at(m) \in DOMAIN draws /\ ~Ok(draws[at(m)], space)

\* A generator that runs, with all its fields.
Running ==
  /\ call = [op |-> call.op, space |-> call.space, identity |-> call.identity,
             session |-> call.session, of |-> call.of, attempt |-> call.attempt,
             chain |-> call.chain, tag |-> call.tag, found |-> call.found]
  /\ call.op \in {"witness", "alibi"}
  /\ call.space \in Spaces
  /\ call.attempt \in 0 .. MaxAttempts
  /\ call.found \in BOOLEAN

CallInv == call = Idle \/ Running

DrawsInv == \A x \in DOMAIN draws : draws[x] \in Draws(x[2])

\* What a witness generator has after some attempts.
WitnessInv ==
  call.op = "witness" =>
    LET first(k) == FirstOk(secret.key, call.identity, call.session, call.space, k, call.chain)
        at(m)    == At(secret.key, call.identity, call.session, call.space, m)
    IN  /\ call.identity \in Seq(Nat) /\ call.session \in Seq(Nat)
        /\ ~call.found => \A m \in 0 .. call.attempt - 1 :
             at(m) \in DOMAIN draws /\ ~Ok(draws[at(m)], call.space)
        /\ call.found =>
             /\ \E k \in 0 .. call.attempt - 1 : first(k)
             /\ call.tag =
                  ComputeBindingTag(secret.key, call.identity, call.session, call.chain)

AlibiInv ==
  call.op = "alibi" =>
    \E i \in issued :
      /\ call.of = {i.witness} /\ call.space = i.space
      /\ call.found => /\ call.chain # i.witness.chain
                       /\ VerifyMembership(call.space, call.chain)
                       /\ call.tag = RandomTag

\* What a witness that was handed out is.
IsIssued(i) ==
  /\ i = [witness |-> i.witness, space |-> i.space, key |-> i.key, identity |-> i.identity]
  /\ i.witness = [chain |-> i.witness.chain, bindingTag |-> i.witness.bindingTag,
                  sessionId |-> i.witness.sessionId]
  /\ i.space \in Spaces
  /\ i.identity \in Seq(Nat) /\ i.witness.sessionId \in Seq(Nat)
  /\ i.witness.bindingTag =
       ComputeBindingTag(i.key, i.identity, i.witness.sessionId, i.witness.chain)
  /\ \E k \in 0 .. MaxAttempts - 1 :
       FirstOk(i.key, i.identity, i.witness.sessionId, i.space, k, i.witness.chain)

IsAlibi(x) ==
  /\ VerifyMembership(x.space, x.witness.chain)
  /\ x.witness.chain # x.of.chain
  /\ x.witness.bindingTag = RandomTag

IssuedInv == \A i \in issued : IsIssued(i)
AlibisInv == \A x \in alibis : IsAlibi(x)

\* The inductive invariant.
IInv == CallInv /\ DrawsInv /\ WitnessInv /\ AlibiInv /\ IssuedInv /\ AlibisInv

-----------------------------------------------------------------------------
\* Before anything happened all of it holds.
LEMMA InitIInv == Init => IInv
<1> SUFFICES ASSUME Init PROVE IInv
  OBVIOUS
<1>1. call.op = "idle" /\ DOMAIN draws = {}
  BY DEF Init, Idle
<1> QED BY <1>1 DEF Init, IInv, CallInv, DrawsInv, WitnessInv, AlibiInv, IssuedInv, AlibisInv

\* A draw that was remembered stays: what was first stays first.
LEMMA FirstOkStays ==
  ASSUME NEW key, NEW identity, NEW session, NEW space, NEW k, NEW chain,
         FirstOk(key, identity, session, space, k, chain),
         DOMAIN draws \subseteq DOMAIN draws',
         \A x \in DOMAIN draws : draws'[x] = draws[x]
  PROVE  FirstOk(key, identity, session, space, k, chain)'
<1>1. At(key, identity, session, space, k) \in DOMAIN draws
  BY DEF FirstOk
<1>2. \A m \in 0 .. k - 1 : At(key, identity, session, space, m) \in DOMAIN draws
  BY DEF FirstOk
<1> QED BY <1>1, <1>2 DEF FirstOk, Ok

\* So does what was said of the witnesses handed out.
LEMMA IssuedStays ==
  ASSUME IssuedInv, issued' = issued,
         DOMAIN draws \subseteq DOMAIN draws',
         \A x \in DOMAIN draws : draws'[x] = draws[x]
  PROVE  IssuedInv'
<1> SUFFICES ASSUME NEW i \in issued PROVE IsIssued(i)'
  BY DEF IssuedInv
<1>1. IsIssued(i)
  BY DEF IssuedInv
<1>2. PICK k \in 0 .. MaxAttempts - 1 :
        FirstOk(i.key, i.identity, i.witness.sessionId, i.space, k, i.witness.chain)
  BY <1>1 DEF IsIssued
<1>3. FirstOk(i.key, i.identity, i.witness.sessionId, i.space, k, i.witness.chain)'
  BY <1>2, FirstOkStays
<1> QED BY <1>1, <1>3 DEF IsIssued

\* What an attempt makes of the generator's record.
LEMMA Considered ==
  ASSUME Running, call.attempt < MaxAttempts,
         NEW chain, NEW ok \in BOOLEAN, NEW tag, Consider(chain, ok, tag)
  PROVE  /\ Running'
         /\ call'.op = call.op /\ call'.space = call.space /\ call'.of = call.of
         /\ call'.identity = call.identity /\ call'.session = call.session
         /\ call'.attempt = call.attempt + 1
         /\ call'.found = (call.found \/ ok)
         /\ call'.chain = IF ok /\ ~call.found THEN chain ELSE call.chain
         /\ call'.tag = IF ok /\ ~call.found THEN tag ELSE call.tag
<1>1. call.attempt + 1 \in 0 .. MaxAttempts
  BY WitnessAssumption, SMT DEF Running
<1>2. (call.found \/ ok) \in BOOLEAN
  BY DEF Running
<1>3. call' = [op |-> call.op, space |-> call.space, identity |-> call.identity,
               session |-> call.session, of |-> call.of, attempt |-> call.attempt + 1,
               chain |-> IF ok /\ ~call.found THEN chain ELSE call.chain,
               tag |-> IF ok /\ ~call.found THEN tag ELSE call.tag,
               found |-> call.found \/ ok]
  BY DEF Running, Consider, TakeThis, SelectBytes32
<1> QED BY <1>1, <1>2, <1>3 DEF Running

\* A draw is a chain of the root or the zero chain, with its bit.
LEMMA DrawType ==
  ASSUME NEW n, NEW d \in Draws(n) PROVE d.valid \in BOOLEAN
<1>1. CASE d = [chain |-> NoChain, valid |-> FALSE]
  BY <1>1
<1>2. CASE d \in [chain : Chainsets[n], valid : {TRUE}]
  BY <1>2
<1> QED BY <1>1, <1>2 DEF Draws

\* An attempt of a witness generator keeps a chain only while none is kept.
LEMMA AttemptWitnessStep == IInv /\ AttemptWitness => IInv'
<1> SUFFICES ASSUME IInv, AttemptWitness PROVE IInv'
  OBVIOUS
<1> DEFINE at(m) == At(secret.key, call.identity, call.session, call.space, m)
           x == at(call.attempt)
           tagOf(c) == ComputeBindingTag(secret.key, call.identity, call.session, c)
<1>1. call.op = "witness" /\ call.attempt < MaxAttempts
  BY DEF AttemptWitness, MoreAttempts
<1>2. Running
  BY <1>1 DEF IInv, CallInv, Idle
<1>3. x[2] = call.space.rootN
  BY DEF At
<1>4. PICK d \in IF x \in DOMAIN draws THEN {draws[x]} ELSE Draws(call.space.rootN) :
        /\ draws' = [y \in DOMAIN draws \cup {x} |-> IF y = x THEN d ELSE draws[y]]
        /\ Consider(d.chain, d.valid /\ VerifyMembership(call.space, d.chain), tagOf(d.chain))
  BY DEF AttemptWitness, DeriveSeed, At
<1>5. d \in Draws(x[2])
  BY <1>3, <1>4 DEF IInv, DrawsInv
<1>6. /\ DOMAIN draws \subseteq DOMAIN draws'
      /\ \A y \in DOMAIN draws : draws'[y] = draws[y]
      /\ x \in DOMAIN draws' /\ draws'[x] = d
  BY <1>4
<1>7. secret' = secret /\ issued' = issued /\ alibis' = alibis
  BY DEF AttemptWitness, secretVars
<1> DEFINE ok == Ok(d, call.space)
<1>8. ok \in BOOLEAN
  BY <1>5, DrawType DEF Ok, VerifyMembership
<1>9. Consider(d.chain, ok, tagOf(d.chain))
  BY <1>4 DEF Ok
<1>10. /\ Running' /\ call'.op = call.op /\ call'.space = call.space
       /\ call'.identity = call.identity /\ call'.session = call.session
       /\ call'.attempt = call.attempt + 1
       /\ call'.found = (call.found \/ ok)
       /\ call'.chain = IF ok /\ ~call.found THEN d.chain ELSE call.chain
       /\ call'.tag = IF ok /\ ~call.found THEN tagOf(d.chain) ELSE call.tag
  <2> HIDE DEF ok
  <2> QED BY <1>1, <1>2, <1>8, <1>9, Considered
<1>11. DrawsInv'
  <2> SUFFICES ASSUME NEW y \in DOMAIN draws' PROVE draws'[y] \in Draws(y[2])
    BY DEF DrawsInv, Draws
  <2>1. CASE y = x
    BY <1>5, <1>6, <2>1
  <2>2. CASE y # x
    BY <1>4, <2>2 DEF IInv, DrawsInv
  <2> QED BY <2>1, <2>2
<1>12. IssuedInv'
  BY <1>6, <1>7, IssuedStays DEF IInv
<1>13. call.attempt \in Nat
  BY <1>2, WitnessAssumption, SMT DEF Running
<1>14. WitnessInv'
  <2> DEFINE first(k, c) == FirstOk(secret.key, call.identity, call.session, call.space, k, c)
  <2>1. call.identity \in Seq(Nat) /\ call.session \in Seq(Nat)
    BY <1>1 DEF IInv, WitnessInv
  <2>2. \A m : at(m)' = at(m)
    BY <1>7, <1>10 DEF At
  <2>3. ASSUME ~call.found
        PROVE  \A m \in 0 .. call.attempt - 1 :
                 at(m) \in DOMAIN draws' /\ ~Ok(draws'[at(m)], call.space)
    BY <1>1, <1>6, <2>3 DEF IInv, WitnessInv
  <2>4. CASE call.found
    <3>1. PICK k \in 0 .. call.attempt - 1 : first(k, call.chain)
      BY <1>1, <2>4 DEF IInv, WitnessInv
    <3>2. FirstOk(secret.key, call.identity, call.session, call.space, k, call.chain)'
      <4>1. FirstOk(secret.key, call.identity, call.session, call.space, k, call.chain)
        BY <3>1
      <4>2. call'.chain = call.chain
        BY <1>10, <2>4
      <4> DEFINE key == secret.key
                 identity == call.identity
                 session == call.session
                 space == call.space
                 chain == call.chain
      <4>3. FirstOk(key, identity, session, space, k, chain)
        BY <4>1
      <4>4. /\ key' = key /\ identity' = identity /\ session' = session
            /\ space' = space /\ chain' = chain
        BY <1>7, <1>10, <4>2
      <4> QED BY <1>6, <4>3, <4>4 DEF FirstOk, Ok, At
    <3>3. k \in 0 .. call'.attempt - 1
      BY <1>10, <1>13, SMT
    <3>4. call.tag = tagOf(call.chain)
      BY <1>1, <2>4 DEF IInv, WitnessInv
    <3>5. call'.tag = ComputeBindingTag(secret.key, call.identity, call.session, call.chain)'
      BY <1>7, <1>10, <2>4, <3>4 DEF ComputeBindingTag
    <3>6. call'.found
      BY <1>10, <2>4
    <3> QED BY <1>7, <1>10, <2>1, <3>2, <3>3, <3>5, <3>6 DEF WitnessInv
  <2>5. CASE ~call.found /\ ok
    <3>1. call'.chain = d.chain /\ call'.tag = tagOf(d.chain) /\ call'.found
      BY <1>10, <2>5
    <3> PICK k : k = call.attempt
      OBVIOUS
    <3>2. FirstOk(secret.key, call.identity, call.session, call.space, k, d.chain)'
      <4>1. at(k) = x
        OBVIOUS
      <4>2. at(k)' = at(k)
        BY <2>2
      <4>3. at(k)' \in DOMAIN draws' /\ draws'[at(k)'] = d
        BY <1>6, <4>1, <4>2
      <4>4. Ok(d, call'.space)
        BY <1>10, <2>5
      <4>5. \A m \in 0 .. k - 1 :
              at(m)' \in DOMAIN draws' /\ ~Ok(draws'[at(m)'], call'.space)
        BY <1>10, <2>2, <2>3, <2>5
      <4> QED BY <4>3, <4>4, <4>5 DEF FirstOk, Ok
    <3>3. k \in 0 .. call'.attempt - 1
      BY <1>10, <1>13, SMT
    <3>4. call'.tag = ComputeBindingTag(secret.key, call.identity, call.session, call.chain)'
      BY <1>7, <1>10, <3>1 DEF ComputeBindingTag
    <3> QED BY <1>7, <1>10, <2>1, <3>1, <3>2, <3>3, <3>4 DEF WitnessInv
  <2>6. CASE ~call.found /\ ~ok
    <3>1. ~call'.found
      BY <1>10, <2>6
    <3>2. ASSUME NEW m \in 0 .. call'.attempt - 1
          PROVE  m \in 0 .. call.attempt - 1 \/ m = call.attempt
      <4> DEFINE k == call.attempt
      <4>1. k \in Nat /\ m \in 0 .. (k + 1) - 1
        BY <1>10, <1>13
      <4> HIDE DEF k
      <4>2. m \in 0 .. k - 1 \/ m = k
        BY <4>1, SMT
      <4> QED BY <4>2 DEF k
    <3>3. \A m \in 0 .. call'.attempt - 1 :
            at(m) \in DOMAIN draws' /\ ~Ok(draws'[at(m)], call.space)
      BY <1>6, <2>3, <2>6, <3>2
    <3>4. \A m \in 0 .. call'.attempt - 1 :
            at(m)' \in DOMAIN draws' /\ ~Ok(draws'[at(m)'], call'.space)
      BY <1>10, <2>2, <3>3
    <3> QED BY <1>7, <1>10, <2>1, <3>1, <3>4 DEF WitnessInv, Ok
  <2> QED BY <2>4, <2>5, <2>6
<1>15. AlibiInv'
  BY <1>1, <1>10 DEF AlibiInv
<1>16. AlibisInv'
  BY <1>7 DEF IInv, AlibisInv, IsAlibi
<1> QED BY <1>10, <1>11, <1>12, <1>14, <1>15, <1>16 DEF IInv, CallInv

\* An attempt of an alibi generator keeps only what stands apart.
LEMMA AttemptAlibiStep == IInv /\ AttemptAlibi => IInv'
<1> SUFFICES ASSUME IInv, AttemptAlibi PROVE IInv'
  OBVIOUS
<1>1. call.op = "alibi" /\ call.attempt < MaxAttempts
  BY DEF AttemptAlibi, MoreAttempts
<1>2. Running
  BY <1>1 DEF IInv, CallInv, Idle
<1>3. PICK i \in issued :
        /\ call.of = {i.witness} /\ call.space = i.space
        /\ call.found => /\ call.chain # i.witness.chain
                         /\ VerifyMembership(call.space, call.chain)
                         /\ call.tag = RandomTag
  BY <1>1 DEF IInv, AlibiInv
<1> DEFINE w == i.witness
<1>4. PICK d \in Draws(call.space.rootN) :
        Consider(d.chain,
                 d.valid /\ ChainsDiffer(d.chain, w.chain) /\ VerifyMembership(call.space, d.chain),
                 RandomTag)
  BY <1>3 DEF AttemptAlibi
<1>5. secret' = secret /\ draws' = draws /\ issued' = issued /\ alibis' = alibis
  BY DEF AttemptAlibi, secretVars
<1> DEFINE ok == d.valid /\ ChainsDiffer(d.chain, w.chain)
                   /\ VerifyMembership(call.space, d.chain)
<1>6. ok \in BOOLEAN
  BY <1>4, DrawType DEF ChainsDiffer, VerifyMembership
<1>7. /\ Running' /\ call'.op = call.op /\ call'.space = call.space /\ call'.of = call.of
      /\ call'.found = (call.found \/ ok)
      /\ call'.chain = IF ok /\ ~call.found THEN d.chain ELSE call.chain
      /\ call'.tag = IF ok /\ ~call.found THEN RandomTag ELSE call.tag
  <2>1. Consider(d.chain, ok, RandomTag)
    BY <1>4
  <2> HIDE DEF ok
  <2> QED BY <1>1, <1>2, <1>6, <2>1, Considered
<1>8. AlibiInv'
  <2>1. ASSUME call'.found
        PROVE  /\ call'.chain # w.chain /\ call'.tag = RandomTag
               /\ VerifyMembership(call.space, call'.chain)
    <3>1. CASE call.found
      BY <1>3, <1>7, <3>1
    <3>2. CASE ~call.found
      BY <1>7, <2>1, <3>2 DEF ChainsDiffer
    <3> QED BY <3>1, <3>2
  <2>2. VerifyMembership(call.space, call'.chain) = VerifyMembership(call.space, call.chain)'
    BY <1>7 DEF VerifyMembership
  <2>3. i \in issued' /\ call'.of = {w} /\ call'.space = i.space
    BY <1>3, <1>5, <1>7
  <2> QED BY <1>7, <2>1, <2>2, <2>3 DEF AlibiInv
<1>9. WitnessInv'
  BY <1>1, <1>7 DEF WitnessInv
<1>10. IssuedInv'
  BY <1>5, IssuedStays DEF IInv
<1>11. DrawsInv' /\ AlibisInv'
  BY <1>5 DEF IInv, DrawsInv, AlibisInv, IsAlibi
<1> QED BY <1>7, <1>8, <1>9, <1>10, <1>11 DEF IInv, CallInv

\* A generator that starts has nothing.
LEMMA StartStep ==
  ASSUME IInv, draws' = draws, issued' = issued, alibis' = alibis,
         NEW op \in {"witness", "alibi"}, NEW space \in Spaces, NEW identity, NEW session, NEW of,
         call' = Start(op, space, identity, session, of),
         op = "witness" => identity \in Seq(Nat) /\ session \in Seq(Nat),
         op = "alibi" => \E i \in issued : of = {i.witness} /\ space = i.space
  PROVE  IInv'
<1>1. /\ call' = [op |-> op, space |-> space, identity |-> identity, session |-> session,
                  of |-> of, attempt |-> 0, chain |-> NoChain, tag |-> NoTag, found |-> FALSE]
  BY DEF Start
<1>2. /\ call'.op = op /\ call'.attempt = 0 /\ call'.found = FALSE
      /\ call'.identity = identity /\ call'.session = session /\ call'.of = of
      /\ call'.space = space
  BY <1>1
<1>3. 0 \in 0 .. MaxAttempts
  BY WitnessAssumption, SMT
<1>4. CallInv'
  BY <1>1, <1>3 DEF CallInv, Running
<1>5. \A m \in 0 .. 0 - 1 : FALSE
  BY SMT
<1>6. WitnessInv'
  BY <1>2, <1>5 DEF WitnessInv
<1>7. AlibiInv'
  BY <1>2 DEF AlibiInv
<1>8. IssuedInv'
  BY IssuedStays DEF IInv
<1>9. DrawsInv' /\ AlibisInv'
  BY DEF IInv, DrawsInv, AlibisInv, IsAlibi
<1> QED BY <1>4, <1>6, <1>7, <1>8, <1>9 DEF IInv

\* A request starts a generator.
LEMMA GenerateStep == IInv /\ Generate => IInv'
<1> SUFFICES ASSUME IInv, Generate PROVE IInv'
  OBVIOUS
<1>1. PICK s \in Spaces, r \in Requests : call' = Start("witness", s, r[1], r[2], {})
  BY DEF Generate
<1>2. r[1] \in Seq(Nat) /\ r[2] \in Seq(Nat)
  <2>1. r \in Seq(Nat) \X Seq(Nat)
    BY WitnessAssumption
  <2> QED BY <2>1
<1>3. draws' = draws /\ issued' = issued /\ alibis' = alibis
  BY DEF Generate
<1> QED BY <1>1, <1>2, <1>3, StartStep

\* A witness that was handed out starts one for an alibi.
LEMMA GenerateAlternativeStep == IInv /\ GenerateAlternative => IInv'
<1> SUFFICES ASSUME IInv, GenerateAlternative PROVE IInv'
  OBVIOUS
<1>1. PICK i \in issued : call' = Start("alibi", i.space, << >>, i.witness.sessionId, {i.witness})
  BY DEF GenerateAlternative
<1>2. i.space \in Spaces
  BY DEF IInv, IssuedInv, IsIssued
<1>3. draws' = draws /\ issued' = issued /\ alibis' = alibis
  BY DEF GenerateAlternative
<1> QED BY <1>1, <1>2, <1>3, StartStep

\* With no generator running the parts about it say nothing.
LEMMA IdleStep ==
  ASSUME IInv, draws' = draws, call' = Idle, IssuedInv', AlibisInv'
  PROVE  IInv'
<1>1. call'.op = "idle"
  BY DEF Idle
<1> QED BY <1>1 DEF IInv, CallInv, WitnessInv, AlibiInv, DrawsInv

\* What a generator that is through hands out is what its invariant says.
LEMMA ReturnStep == IInv /\ Return => IInv'
<1> SUFFICES ASSUME IInv, Return PROVE IInv'
  OBVIOUS
<1> DEFINE w == [chain |-> call.chain, bindingTag |-> call.tag, sessionId |-> call.session]
           new == [witness |-> w, space |-> call.space, key |-> secret.key,
                   identity |-> call.identity]
<1>1. Running /\ call.attempt = MaxAttempts
  BY DEF Return, Finished, IInv, CallInv
<1>2. draws' = draws /\ call' = Idle
  BY DEF Return
<1>3. IssuedInv'
  <2>1. ASSUME NEW i \in issued PROVE IsIssued(i)'
    <3>1. IsIssued(i)
      BY DEF IInv, IssuedInv
    <3> QED BY <1>2, <3>1 DEF IsIssued, FirstOk, Ok
  <2>2. CASE call.op = "witness" /\ call.found
    <3>1. PICK k \in 0 .. call.attempt - 1 :
            FirstOk(secret.key, call.identity, call.session, call.space, k, call.chain)
      BY <2>2 DEF IInv, WitnessInv
    <3>2. /\ call.identity \in Seq(Nat) /\ call.session \in Seq(Nat)
          /\ call.tag = ComputeBindingTag(secret.key, call.identity, call.session, call.chain)
      BY <2>2 DEF IInv, WitnessInv
    <3> PICK i : i = new
      OBVIOUS
    <3>3. IsIssued(i)
      BY <1>1, <3>1, <3>2 DEF IsIssued, Running
    <3>4. IsIssued(i)'
      BY <1>2, <3>3 DEF IsIssued, FirstOk, Ok
    <3>5. issued' = issued \cup {i}
      BY <2>2 DEF Return
    <3> QED BY <2>1, <3>4, <3>5 DEF IssuedInv
  <2>3. CASE ~(call.op = "witness" /\ call.found)
    BY <2>1, <2>3 DEF Return, IssuedInv
  <2> QED BY <2>2, <2>3
<1>4. AlibisInv'
  <2>1. CASE call.op = "alibi" /\ call.found
    <3>1. PICK v : /\ call.of = {v} /\ call.chain # v.chain /\ call.tag = RandomTag
                   /\ VerifyMembership(call.space, call.chain)
      BY <2>1 DEF IInv, AlibiInv
    <3>2. alibis' = alibis \cup {[witness |-> w, space |-> call.space, of |-> v]}
      BY <2>1, <3>1 DEF Return
    <3>3. IsAlibi([witness |-> w, space |-> call.space, of |-> v])
      BY <3>1 DEF IsAlibi
    <3> QED BY <3>2, <3>3 DEF IInv, AlibisInv
  <2>2. CASE ~(call.op = "alibi" /\ call.found)
    BY <2>2 DEF Return, IInv, AlibisInv
  <2> QED BY <2>1, <2>2
<1> QED BY <1>2, <1>3, <1>4, IdleStep

\* What happens to the secret leaves what was handed out alone.
LEMMA SecretSteps == IInv /\ (UseSecret \/ Stop) => IInv'
<1> SUFFICES ASSUME IInv, UseSecret \/ Stop PROVE IInv'
  OBVIOUS
<1>1. draws' = draws /\ issued' = issued /\ alibis' = alibis /\ call' = Idle
  BY DEF UseSecret, Stop
<1>2. IssuedInv'
  BY <1>1, IssuedStays DEF IInv
<1>3. AlibisInv'
  BY <1>1 DEF IInv, AlibisInv, IsAlibi
<1> QED BY <1>1, <1>2, <1>3, IdleStep

\* What was handed out, and what the generators have, is as IInv says, at every
\* step.
THEOREM HandedOutCorrect == Spec => []IInv
<1>1. IInv /\ [Next]_vars => IInv'
  <2> SUFFICES ASSUME IInv, [Next]_vars PROVE IInv'
    OBVIOUS
  <2>1. CASE UNCHANGED vars
    <3>1. draws' = draws /\ issued' = issued /\ alibis' = alibis /\ call' = call
              /\ secret' = secret
      BY <2>1 DEF vars
    <3>2. AlibiInv'
      BY <3>1 DEF IInv, AlibiInv
    <3> QED BY <3>1, <3>2 DEF IInv, CallInv, Running, DrawsInv, WitnessInv, IssuedInv,
                              AlibisInv, IsIssued, IsAlibi, FirstOk, Ok, Idle
  <2>2. CASE Next
    BY <2>2, GenerateStep, GenerateAlternativeStep, AttemptWitnessStep, AttemptAlibiStep,
       ReturnStep, SecretSteps DEF Next, Attempt
  <2> QED BY <2>1, <2>2
<1> QED BY InitIInv, <1>1, PTL DEF Spec

-----------------------------------------------------------------------------
\* A witness that was handed out has the tag of its chain and its request, and
\* is a member of its space.
THEOREM IssuedCorrect == Spec => []IssuedIsBoundMember
<1>1. IInv => IssuedIsBoundMember
  <2> SUFFICES ASSUME IInv, NEW i \in issued
               PROVE  /\ VerifyMembership(i.space, i.witness.chain)
                      /\ VerifyAuthenticity(i.key, i.witness, i.identity) = "Authentic"
    BY DEF IssuedIsBoundMember
  <2>1. IsIssued(i)
    BY DEF IInv, IssuedInv
  <2> QED BY <2>1 DEF IsIssued, FirstOk, Ok, VerifyAuthenticity
<1> QED BY HandedOutCorrect, <1>1, PTL

\* The tag of an alibi is the tag of no request.
LEMMA RandomIsNoTag ==
  \A key, identity, session, chain :
    RandomTag # ComputeBindingTag(key, identity, session, chain)
<1>1. RandomTag.mac = "fill_bytes"
  BY DEF RandomTag
<1>2. \A key, identity, session, chain :
        ComputeBindingTag(key, identity, session, chain).mac = "bind"
  BY DEF ComputeBindingTag
<1> QED BY <1>1, <1>2

\* An alibi is a member of the space, another chain than that of its witness,
\* and its tag is that of no key: whoever logs in.
THEOREM AlibiCorrect == Spec => []AlibiStandsApart
<1>1. IInv => AlibiStandsApart
  <2> SUFFICES ASSUME IInv, NEW x \in alibis
               PROVE  /\ VerifyMembership(x.space, x.witness.chain)
                      /\ x.witness.chain # x.of.chain
                      /\ \A key, identity :
                           VerifyAuthenticity(key, x.witness, identity) # "Authentic"
    BY DEF AlibiStandsApart
  <2>1. IsAlibi(x)
    BY DEF IInv, AlibisInv
  <2> QED BY <2>1, RandomIsNoTag DEF IsAlibi, VerifyAuthenticity
<1> QED BY HandedOutCorrect, <1>1, PTL

\* Of two attempts whose draws could be kept, with none before them that could,
\* neither comes first.
LEMMA FirstIsUnique ==
  ASSUME NEW key, NEW identity, NEW session, NEW space,
         NEW k \in Int, NEW m \in Int, 0 <= k, 0 <= m, NEW c, NEW e,
         FirstOk(key, identity, session, space, k, c),
         FirstOk(key, identity, session, space, m, e)
  PROVE  c = e
<1>1. k < m \/ k = m \/ m < k
  BY SMT
<1>2. CASE k < m
  <2>1. k \in 0 .. m - 1
    BY <1>2, SMT
  <2> QED BY <2>1 DEF FirstOk
<1>3. CASE m < k
  <2>1. m \in 0 .. k - 1
    BY <1>3, SMT
  <2> QED BY <2>1 DEF FirstOk
<1>4. CASE k = m
  BY <1>4 DEF FirstOk
<1> QED BY <1>1, <1>2, <1>3, <1>4

\* The same request gives the same witness, with the same key, whenever it is
\* made: in this process or in a later one.
LEMMA SameAgain == IInv => RegenerationAgrees
<1> SUFFICES ASSUME IInv, NEW i \in issued, NEW j \in issued,
                    i.key = j.key, i.identity = j.identity, i.space = j.space,
                    i.witness.sessionId = j.witness.sessionId
             PROVE  i = j
  BY DEF RegenerationAgrees
<1>1. IsIssued(i) /\ IsIssued(j)
  BY DEF IInv, IssuedInv
<1>2. PICK k \in 0 .. MaxAttempts - 1 :
        FirstOk(i.key, i.identity, i.witness.sessionId, i.space, k, i.witness.chain)
  BY <1>1 DEF IsIssued
<1>3. PICK m \in 0 .. MaxAttempts - 1 :
        FirstOk(i.key, i.identity, i.witness.sessionId, i.space, m, j.witness.chain)
  BY <1>1 DEF IsIssued
<1>4. k \in Int /\ m \in Int /\ 0 <= k /\ 0 <= m
  BY WitnessAssumption, SMT
<1>5. i.witness.chain = j.witness.chain
  BY <1>2, <1>3, <1>4, FirstIsUnique
<1>6. i.witness.bindingTag = j.witness.bindingTag
  BY <1>1, <1>5 DEF IsIssued
<1>7. i.witness = j.witness
  BY <1>1, <1>5, <1>6 DEF IsIssued
<1> QED BY <1>1, <1>7 DEF IsIssued

\* So no two witnesses handed out for one request differ.
THEOREM RegenerationCorrect == Spec => []RegenerationAgrees
BY HandedOutCorrect, SameAgain, PTL

\* What can be drawn for the root of a space three deep is a member of it.
LEMMA DrawnIsMember ==
  ASSUME NEW space \in Spaces, NEW c \in Chainsets[space.rootN], Len(c) = space.depth
  PROVE  VerifyMembership(space, c)
<1> DEFINE n(i) == IF i = 1 THEN space.rootN ELSE c[i - 1].a
           N == space.rootN
<1>1. N \in 0 .. Word - 1 /\ N \in DOMAIN Chainsets
  BY WitnessAssumption
<1>2. c \in Seq([a : Nat, b : Nat]) /\ IsChain(N, c)
  BY <1>1, WitnessAssumption
<1>3. Len(c) = 3
  BY <1>2 DEF IsChain, VerifyDescent, Depth
<1>4. \A i \in 1 .. 3 : c[i] \in [a : Nat, b : Nat]
  <2> DEFINE Row == [a : Nat, b : Nat]
  <2>1. c \in Seq(Row)
    BY <1>2
  <2> HIDE DEF Row
  <2>2. c \in [1 .. Len(c) -> Row]
    BY <2>1, LenProperties
  <2>3. \A i \in 1 .. 3 : c[i] \in Row
    BY <1>3, <2>2
  <2> QED BY <2>3 DEF Row
<1>5. \A i \in 1 .. 3 : c[i].a \in Nat /\ c[i].b \in Nat
  BY <1>4
<1>6. /\ c[1].a \in Nat /\ c[1].b \in Nat /\ c[2].a \in Nat
      /\ c[2].b \in Nat /\ c[3].a \in Nat /\ c[3].b \in Nat
  BY <1>5, SMT
<1>7. Word \in Nat \ {0}
  BY WitnessAssumption
<1>8. /\ N > c[1].a /\ c[1].a > c[2].a /\ c[2].a > c[3].a
      /\ c[1].a >= 1 /\ c[2].a >= 1 /\ c[3].a >= 1
      /\ 19 * c[1].a + 9 * c[1].b = N /\ 19 * c[2].a + 9 * c[2].b = c[1].a
      /\ 19 * c[3].a + 9 * c[3].b = c[2].a
  BY <1>2 DEF IsChain, IsLayer, VerifyDescent
<1>9. \A x \in 0 .. Word - 1 : x % Word = x
  BY <1>7, SMT
<1>10. N % Word = N /\ c[1].a % Word = c[1].a /\ c[2].a % Word = c[2].a
  <2> DEFINE a1 == c[1].a  a2 == c[2].a
  <2>1. a1 \in Nat /\ a2 \in Nat /\ N > a1 /\ a1 > a2
    BY <1>6, <1>8
  <2> HIDE DEF a1, a2, N
  <2>2. a1 \in 0 .. Word - 1 /\ a2 \in 0 .. Word - 1
    BY <1>1, <1>7, <2>1, SMT
  <2> QED BY <1>1, <1>9, <2>2 DEF a1, a2
<1>11. \A p : p.a >= 1 => p # Zero
  <2>1. Zero.a = 0
    BY DEF Zero, Pair
  <2>2. ~(0 >= 1)
    BY SMT
  <2> QED BY <2>1, <2>2
<1>12. n(1) = N /\ n(2) = c[1].a /\ n(3) = c[2].a
  BY SMT
<1>13. \A i \in 1 .. 3 : (19 * c[i].a + 9 * c[i].b) % Word = n(i) /\ c[i] # Zero
  <2> SUFFICES ASSUME NEW i \in 1 .. 3
               PROVE  (19 * c[i].a + 9 * c[i].b) % Word = n(i) /\ c[i] # Zero
    OBVIOUS
  <2>1. i = 1 \/ i = 2 \/ i = 3
    BY SMT
  <2> HIDE DEF n
  <2>2. CASE i = 1
    BY <1>8, <1>10, <1>11, <1>12, <2>2
  <2>3. CASE i = 2
    BY <1>8, <1>10, <1>11, <1>12, <2>3
  <2>4. CASE i = 3
    BY <1>8, <1>10, <1>11, <1>12, <2>4
  <2> QED BY <2>1, <2>2, <2>3, <2>4
<1> QED BY <1>3, <1>13 DEF VerifyMembership

\* A draw that is not the zero chain is a member of the space, if chains of its
\* length are: the witness kept is the first chain drawn.
THEOREM FirstDrawCorrect == Spec => []IssuedIsFirstDraw
<1>1. IInv => IssuedIsFirstDraw
  <2> SUFFICES ASSUME IInv, NEW i \in issued
               PROVE  \E k \in 0 .. MaxAttempts - 1 :
                        LET at(m) == At(i.key, i.identity, i.witness.sessionId, i.space, m)
                        IN  /\ at(k) \in DOMAIN draws /\ draws[at(k)].chain = i.witness.chain
                            /\ \A m \in 0 .. k - 1 :
                                 at(m) \in DOMAIN draws /\ ~draws[at(m)].valid
    BY DEF IssuedIsFirstDraw, At
  <2> DEFINE at(m) == At(i.key, i.identity, i.witness.sessionId, i.space, m)
             root == i.space.rootN
  <2>1. IsIssued(i) /\ i.space \in Spaces
    BY DEF IInv, IssuedInv, IsIssued
  <2>2. PICK k \in 0 .. MaxAttempts - 1 :
          FirstOk(i.key, i.identity, i.witness.sessionId, i.space, k, i.witness.chain)
    BY <2>1 DEF IsIssued
  <2>3. \A m : at(m) \in DOMAIN draws => draws[at(m)] \in Draws(root)
    BY DEF IInv, DrawsInv, At
  <2>4. ASSUME NEW d \in Draws(root), d.valid PROVE d.chain \in Chainsets[root]
    <3>1. CASE d = [chain |-> NoChain, valid |-> FALSE]
      BY <2>4, <3>1
    <3>2. CASE d \in [chain : Chainsets[root], valid : {TRUE}]
      BY <3>2
    <3> QED BY <3>1, <3>2 DEF Draws
  <2>5. ASSUME NEW c \in Chainsets[root] PROVE Len(c) = 3
    <3>1. IsChain(root, c)
      BY <2>1, WitnessAssumption
    <3> QED BY <3>1 DEF IsChain, VerifyDescent, Depth
  <2>6. draws[at(k)].valid /\ VerifyMembership(i.space, draws[at(k)].chain)
    BY <2>2 DEF FirstOk, Ok
  <2>7. i.space.depth = 3
    <3>1. draws[at(k)].chain \in Chainsets[root]
      BY <2>2, <2>3, <2>4, <2>6 DEF FirstOk
    <3> QED BY <2>5, <2>6, <3>1 DEF VerifyMembership
  <2>8. ASSUME NEW m \in 0 .. k - 1 PROVE at(m) \in DOMAIN draws /\ ~draws[at(m)].valid
    <3>1. at(m) \in DOMAIN draws /\ ~Ok(draws[at(m)], i.space)
      BY <2>2 DEF FirstOk
    <3>2. draws[at(m)].valid => VerifyMembership(i.space, draws[at(m)].chain)
      BY <2>1, <2>3, <2>4, <2>5, <2>7, <3>1, DrawnIsMember
    <3> QED BY <3>1, <3>2 DEF Ok
  <2> QED BY <2>2, <2>8 DEF FirstOk
<1> QED BY HandedOutCorrect, <1>1, PTL

\* Facts about sequences, in the form the framing needs them.
LEMMA Reassociated ==
  ASSUME NEW s \in Seq(Nat), NEW t \in Seq(Nat), NEW u \in Seq(Nat)
  PROVE  (s \o t) \o u = s \o (t \o u)
BY ConcatAssociative

FromLeft(m, s, n, t)  == ((m \o s) \o n) \o t
FromRight(m, s, n, t) == m \o (s \o (n \o t))

LEMMA Regrouped ==
  ASSUME NEW m \in Seq(Nat), NEW s \in Seq(Nat), NEW n \in Seq(Nat), NEW t \in Seq(Nat)
  PROVE  FromLeft(m, s, n, t) = FromRight(m, s, n, t)
<1>1. m \o s \in Seq(Nat) /\ n \o t \in Seq(Nat)
  BY ConcatProperties
<1> DEFINE a == m \o s
           b == n \o t
<1>2. (m \o s) \o b = m \o (s \o b)
  <2> HIDE DEF b
  <2>1. b \in Seq(Nat)
    BY <1>1 DEF b
  <2> QED BY <2>1, Reassociated
<1>3. (a \o n) \o t = a \o (n \o t)
  <2> HIDE DEF a
  <2>1. a \in Seq(Nat)
    BY <1>1 DEF a
  <2> QED BY <2>1, Reassociated
<1> QED BY <1>2, <1>3, Zenon DEF FromLeft, FromRight

LEMMA Cancelled ==
  ASSUME NEW s \in Seq(Nat), NEW t \in Seq(Nat), NEW u \in Seq(Nat), s \o t = s \o u
  PROVE  t = u
BY ConcatSimplifications

\* A text that begins with its length.
Prefixed(s)   == Header(s) \o s
Then(s, rest) == Header(s) \o (s \o rest)

\* A header is a single number, and holds a length that is below LenWord.
LEMMA HeaderType ==
  ASSUME NEW s \in Seq(Nat)
  PROVE  /\ Len(s) % LenWord \in Nat
         /\ Header(s) \in Seq(Nat) /\ Prefixed(s) \in Seq(Nat)
         /\ Len(s) < LenWord => Header(s) = <<Len(s)>>
<1>1. Len(s) \in Nat /\ LenWord \in Nat \ {0}
  BY LenProperties, WitnessAssumption
<1>2. Len(s) % LenWord \in Nat /\ (Len(s) < LenWord => Len(s) % LenWord = Len(s))
  BY <1>1, SMT
<1>3. Header(s) \in Seq(Nat)
  BY <1>2 DEF Header
<1> QED BY <1>2, <1>3, ConcatProperties DEF Header, Prefixed

\* Two texts that begin with one number each.
LEMMA FirstRead ==
  ASSUME NEW m \in Nat, NEW n \in Nat, NEW p \in Seq(Nat), NEW q \in Seq(Nat),
         <<m>> \o p = <<n>> \o q
  PROVE  m = n /\ p = q
<1>1. ASSUME NEW k \in Nat, NEW r \in Seq(Nat) PROVE (<<k>> \o r)[1] = k
  <2>1. <<k>> \in Seq(Nat) /\ Len(<<k>>) = 1 /\ Len(r) \in Nat /\ <<k>>[1] = k
    BY LenProperties
  <2>2. (<<k>> \o r)[1] = <<k>>[1]
    BY <2>1, ConcatProperties, SMT
  <2> QED BY <2>1, <2>2
<1>2. m = n
  BY <1>1
<1>3. <<m>> \in Seq(Nat) /\ <<m>> \o p = <<m>> \o q
  BY <1>2
<1> QED BY <1>2, <1>3, Cancelled, Zenon

\* What follows a length-prefixed text does not change how it is read, if its
\* length fits the header.
LEMMA PrefixRead ==
  ASSUME NEW s \in Seq(Nat), NEW t \in Seq(Nat), NEW p \in Seq(Nat), NEW q \in Seq(Nat),
         Len(s) < LenWord, Len(t) < LenWord,
         Then(s, p) = Then(t, q)
  PROVE  s = t /\ p = q
<1>1. Len(s) \in Nat /\ Len(t) \in Nat /\ Len(p) \in Nat /\ Len(q) \in Nat
  BY LenProperties
<1>2. s \o p \in Seq(Nat) /\ t \o q \in Seq(Nat)
  BY ConcatProperties
<1>3. Header(s) = <<Len(s)>> /\ Header(t) = <<Len(t)>>
  BY HeaderType
<1>4. <<Len(s)>> \o (s \o p) = <<Len(t)>> \o (t \o q)
  BY <1>3, Zenon DEF Then
<1>5. Len(s) = Len(t) /\ s \o p = t \o q
  <2> DEFINE a == Len(s)
             b == Len(t)
             e == s \o p
             f == t \o q
  <2>1. a \in Nat /\ b \in Nat /\ e \in Seq(Nat) /\ f \in Seq(Nat) /\ <<a>> \o e = <<b>> \o f
    BY <1>1, <1>2, <1>4
  <2> HIDE DEF a, b, e, f
  <2>2. a = b /\ e = f
    BY <2>1, FirstRead
  <2> QED BY <2>2 DEF a, b, e, f
<1>6. ASSUME NEW i \in 1 .. Len(s) PROVE s[i] = t[i]
  <2>1. ASSUME NEW u \in Seq(Nat), NEW r \in Seq(Nat), i \in 1 .. Len(u)
        PROVE  (u \o r)[i] = u[i]
    <3>1. Len(r) \in Nat /\ Len(u) \in Nat
      BY LenProperties
    <3>2. i \in 1 .. Len(u) + Len(r) /\ i <= Len(u)
      BY <2>1, <3>1, SMT
    <3> QED BY <3>2, ConcatProperties
  <2>2. (s \o p)[i] = s[i] /\ (t \o q)[i] = t[i]
    BY <1>5, <2>1
  <2> QED BY <1>5, <2>2
<1>7. s = t
  BY <1>5, <1>6, SeqEqual
<1> QED BY <1>5, <1>7, Cancelled

\* The framing keeps two requests apart whose identities fit their headers.  Of
\* the sessions nothing is asked: they are the rest of the text.
LEMMA FramedApart ==
  ASSUME NEW x \in Seq(Nat), NEW y \in Seq(Nat), NEW u \in Seq(Nat), NEW v \in Seq(Nat),
         Len(x) < LenWord, Len(u) < LenWord,
         Framed(x, y) = Framed(u, v)
  PROVE  x = u /\ y = v
<1>1. ASSUME NEW s \in Seq(Nat), NEW t \in Seq(Nat)
      PROVE  Framed(s, t) = Then(s, Prefixed(t))
  <2>1. Header(s) \in Seq(Nat) /\ Header(t) \in Seq(Nat)
    BY HeaderType
  <2>2. FromLeft(Header(s), s, Header(t), t) = FromRight(Header(s), s, Header(t), t)
    BY <2>1, Regrouped
  <2> QED BY <2>2, Zenon DEF FromLeft, FromRight, Framed, Prefixed, Then
<1>2. /\ Prefixed(y) \in Seq(Nat) /\ Prefixed(v) \in Seq(Nat)
      /\ Len(y) % LenWord \in Nat /\ Len(v) % LenWord \in Nat
  BY HeaderType
<1>3. x = u /\ Prefixed(y) = Prefixed(v)
  BY <1>1, <1>2, PrefixRead
<1>4. <<Len(y) % LenWord>> \o y = <<Len(v) % LenWord>> \o v
  BY <1>3, Zenon DEF Prefixed, Header
<1>5. y = v
  <2> DEFINE a == Len(y) % LenWord
             b == Len(v) % LenWord
  <2>1. /\ a \in Nat /\ b \in Nat /\ y \in Seq(Nat) /\ v \in Seq(Nat)
        /\ <<a>> \o y = <<b>> \o v
    BY <1>2, <1>4
  <2> HIDE DEF a, b
  <2>2. a = b /\ y = v
    BY <2>1, FirstRead
  <2> QED BY <2>2
<1> QED BY <1>3, <1>5

\* A tag vouches for one key, one text and one chain, whatever the lengths.
LEMMA TagRead ==
  ASSUME IInv, NEW i \in issued, NEW j \in issued,
         i.witness.bindingTag = j.witness.bindingTag
  PROVE  /\ i.key = j.key /\ i.witness.chain = j.witness.chain
         /\ Framed(i.identity, i.witness.sessionId) = Framed(j.identity, j.witness.sessionId)
<1>1. IsIssued(i) /\ IsIssued(j)
  BY DEF IInv, IssuedInv
<1>2. ASSUME NEW k, NEW l, NEW a, NEW b, NEW s, NEW t, NEW c, NEW d,
             ComputeBindingTag(k, a, s, c) = ComputeBindingTag(l, b, t, d)
      PROVE  k = l /\ Framed(a, s) = Framed(b, t) /\ c = d
  BY <1>2 DEF ComputeBindingTag
<1> QED BY <1>1, <1>2 DEF IsIssued

\* For identities that fit their headers it vouches for one request.
LEMMA TagsApart == IInv => TagOfOneRequest
<1> SUFFICES ASSUME IInv, NEW i \in issued, NEW j \in issued,
                    i.witness.bindingTag = j.witness.bindingTag,
                    Len(i.identity) < LenWord, Len(j.identity) < LenWord
             PROVE  /\ i.identity = j.identity /\ i.key = j.key
                    /\ i.witness.sessionId = j.witness.sessionId
                    /\ i.witness.chain = j.witness.chain
  BY DEF TagOfOneRequest
<1>1. IsIssued(i) /\ IsIssued(j)
  BY DEF IInv, IssuedInv
<1> QED BY <1>1, TagRead, FramedApart DEF IsIssued

\* So no two witnesses handed out share a tag, unless one request was made twice
\* or an identity is as long as 4 GiB.
THEOREM TagCorrect == Spec => []TagOfOneRequest
BY HandedOutCorrect, TagsApart, PTL

-----------------------------------------------------------------------------
-----------------------------------------------------------------------------
\* A witness generator that has found a chain hands out a witness as the service
\* does.
LEMMA ReturnIssues ==
  ASSUME IInv, Return, call.op = "witness", call.found PROVE S!Issue
<1> PICK new : new = [witness |-> [chain |-> call.chain, bindingTag |-> call.tag,
                                   sessionId |-> call.session],
                      space |-> call.space, key |-> secret.key, identity |-> call.identity]
  OBVIOUS
<1>1. issued' = issued \cup {new} /\ alibis' = alibis
  BY DEF Return
<1>2. IInv'
  BY ReturnStep
<1>3. RegenerationAgrees'
  BY <1>2, SameAgain, PTL
<1>4. IsIssued(new)'
  BY <1>1, <1>2 DEF IInv, IssuedInv
<1>5. VerifyMembership(Served(new).space, Served(new).chain)
  <2>1. VerifyMembership(new.space, new.witness.chain)
    BY <1>4 DEF IsIssued, FirstOk, Ok
  <2> QED BY <2>1 DEF Served
<1>6. ASSUME NEW i \in issued, Served(i).request = Served(new).request
      PROVE  Served(i) = Served(new)
  <2>1. /\ i.key = new.key /\ i.identity = new.identity /\ i.space = new.space
        /\ i.witness.sessionId = new.witness.sessionId
    BY <1>6 DEF Served
  <2>2. i = new
    BY <1>1, <1>3, <2>1 DEF RegenerationAgrees
  <2> QED BY <2>2
<1>7. ASSUME NEW i \in issued, Served(i).tag = Served(new).tag
      PROVE  Served(i).chain = Served(new).chain
  <2>1. IsIssued(i)'
    BY <1>1, <1>2 DEF IInv, IssuedInv
  <2>2. ComputeBindingTag(i.key, i.identity, i.witness.sessionId, i.witness.chain)
          = ComputeBindingTag(new.key, new.identity, new.witness.sessionId, new.witness.chain)
    BY <1>4, <1>7, <2>1 DEF IsIssued, Served
  <2> QED BY <2>2 DEF ComputeBindingTag, Served
<1>8. ASSUME NEW x \in alibis PROVE Stood(x).tag # Served(new).tag
  <2>1. x.witness.bindingTag = RandomTag
    BY DEF IInv, AlibisInv, IsAlibi
  <2>2. new.witness.bindingTag # RandomTag
    BY <1>4, RandomIsNoTag DEF IsIssued
  <2> QED BY <2>1, <2>2 DEF Stood, Served
<1>9. {Served(i) : i \in issued'} = {Served(i) : i \in issued} \cup {Served(new)}
  BY <1>1
<1>10. Served(new) \in {Served(i) : i \in issued'}
  BY <1>9
<1> QED BY <1>1, <1>5, <1>6, <1>7, <1>8, <1>9, <1>10 DEF S!Issue

\* An alibi generator that has found a chain hands out an alibi as the service
\* does.
LEMMA ReturnStands ==
  ASSUME IInv, Return, call.op = "alibi", call.found PROVE S!Stand
<1>1. PICK i \in issued :
        /\ call.of = {i.witness} /\ call.space = i.space
        /\ call.chain # i.witness.chain /\ VerifyMembership(call.space, call.chain)
        /\ call.tag = RandomTag
  BY DEF IInv, AlibiInv
<1> PICK new : new = [witness |-> [chain |-> call.chain, bindingTag |-> call.tag,
                                   sessionId |-> call.session],
                      space |-> call.space, of |-> i.witness]
  OBVIOUS
<1>2. issued' = issued /\ alibis' = alibis \cup {new}
  BY <1>1 DEF Return
<1>3. /\ new.space = i.space /\ new.witness.chain = call.chain
      /\ new.witness.bindingTag = RandomTag /\ new.of = i.witness
  BY <1>1
<1>4. VerifyMembership(Stood(new).space, Stood(new).chain)
  BY <1>1, <1>3 DEF Stood
<1>5. /\ Served(i).space = Stood(new).space /\ Served(i).chain = Stood(new).of
      /\ Served(i).chain # Stood(new).chain
  BY <1>1, <1>3 DEF Stood, Served
<1>6. ASSUME NEW j \in issued PROVE Served(j).tag # Stood(new).tag
  <2>1. IsIssued(j)
    BY DEF IInv, IssuedInv
  <2>2. j.witness.bindingTag # RandomTag
    BY <2>1, RandomIsNoTag DEF IsIssued
  <2> QED BY <1>3, <2>2 DEF Stood, Served
<1>7. {Stood(x) : x \in alibis'} = {Stood(x) : x \in alibis} \cup {Stood(new)}
  BY <1>2
<1>8. Stood(new) \in {Stood(x) : x \in alibis'}
  BY <1>7
<1> QED BY <1>2, <1>4, <1>5, <1>6, <1>7, <1>8 DEF S!Stand

\* The loops, the restarts and the ways a key comes back implement the service.
THEOREM ServiceImplemented == Spec => ImplementsService
<1>1. Init => S!Init
  BY DEF Init, S!Init
<1>2. IInv /\ [Next]_vars => [S!Next]_<<{Served(i) : i \in issued}, {Stood(x) : x \in alibis}>>
  <2> SUFFICES ASSUME IInv, [Next]_vars
               PROVE  S!Next \/ (issued' = issued /\ alibis' = alibis)
    OBVIOUS
  <2>1. CASE Return
    <3>1. CASE call.op = "witness" /\ call.found
      BY <2>1, <3>1, ReturnIssues DEF S!Next
    <3>2. CASE call.op = "alibi" /\ call.found
      BY <2>1, <3>2, ReturnStands DEF S!Next
    <3>3. CASE ~(call.op = "witness" /\ call.found) /\ ~(call.op = "alibi" /\ call.found)
      BY <2>1, <3>3 DEF Return
    <3> QED BY <3>1, <3>2, <3>3
  <2>2. CASE Next /\ ~Return
    BY <2>2 DEF Next, Attempt, AttemptWitness, AttemptAlibi, Generate, GenerateAlternative,
                UseSecret, Stop
  <2>3. CASE UNCHANGED vars
    BY <2>3 DEF vars
  <2> QED BY <2>1, <2>2, <2>3
<1> QED BY HandedOutCorrect, <1>1, <1>2, PTL DEF Spec, ImplementsService, S!Spec

-----------------------------------------------------------------------------
DerivedKeys == {MasterKey(l.input, l.mode) : l \in Logins}

\* In memory, at rest and in shares there are derived keys only.
SecretInv ==
  /\ secret # None => secret.key \in DerivedKeys
  /\ \A b \in sealed : b.plaintext \in DerivedKeys
  /\ splits \in Seq([key : DerivedKeys, threshold : {p[1] : p \in Sharings},
                     shares : {p[2] : p \in Sharings}])

\* No way of getting, sharing or sealing a key makes another of it.
LEMMA SecretStepInv == SecretInv /\ SecretStep => SecretInv'
<1> SUFFICES ASSUME SecretInv, SecretStep PROVE SecretInv'
  OBVIOUS
<1> USE DEF SecretInv
<1> DEFINE Split1 == [key : DerivedKeys, threshold : {p[1] : p \in Sharings},
                      shares : {p[2] : p \in Sharings}]
<1>1. CASE Derive
  <2>1. PICK l \in Logins : secret' = [key |-> MasterKey(l.input, l.mode), mode |-> l.mode]
    BY <1>1 DEF Derive
  <2>2. secret'.key \in DerivedKeys
    BY <2>1 DEF DerivedKeys
  <2> QED BY <1>1, <2>2 DEF Derive
<1>2. CASE Split
  <2>1. PICK p \in Sharings :
          splits' = Append(splits, [key |-> secret.key, threshold |-> p[1], shares |-> p[2]])
    BY <1>2 DEF Split
  <2>2. secret # None /\ secret' = secret /\ sealed' = sealed
    BY <1>2 DEF Split
  <2>3. [key |-> secret.key, threshold |-> p[1], shares |-> p[2]] \in Split1
    BY <2>2
  <2> HIDE DEF Split1
  <2>4. \A e \in Split1 : splits \in Seq(Split1) => Append(splits, e) \in Seq(Split1)
    OBVIOUS
  <2>5. splits' \in Seq(Split1)
    BY <2>1, <2>3, <2>4 DEF Split1
  <2> QED BY <2>2, <2>5 DEF Split1
<1>3. CASE Recover
  <2>1. PICK c \in DOMAIN splits : secret'.key = splits[c].key
    BY <1>3 DEF Recover, Committed
  <2>2. splits[c] \in Split1
    <3> HIDE DEF Split1
    <3>1. splits \in Seq(Split1) => \A i \in DOMAIN splits : splits[i] \in Split1
      BY LenProperties
    <3> QED BY <2>1, <3>1 DEF Split1
  <2>3. secret'.key \in DerivedKeys
    BY <2>1, <2>2
  <2> QED BY <1>3, <2>3 DEF Recover
<1>4. CASE Seal
  BY <1>4 DEF Seal
<1>5. CASE Unseal
  <2>1. PICK b \in sealed : secret' = [key |-> b.plaintext, mode |-> b.mode]
    BY <1>5 DEF Unseal
  <2>2. secret'.key \in DerivedKeys
    BY <2>1
  <2> QED BY <1>5, <2>2 DEF Unseal
<1> QED BY <1>1, <1>2, <1>3, <1>4, <1>5 DEF SecretStep

\* A generator of witnesses runs on a key in memory, and so the tags were made
\* with derived keys only.
IssuedKeysInv ==
  /\ call.op = "witness" => secret # None
  /\ \A i \in issued : i.key \in DerivedKeys

KeysInv == SecretInv /\ IssuedKeysInv

\* Handing out adds a witness of the key in memory.
LEMMA ReturnKeys == KeysInv /\ Return => KeysInv'
<1> SUFFICES ASSUME KeysInv, Return PROVE KeysInv'
  OBVIOUS
<1>1. secret' = secret /\ sealed' = sealed /\ splits' = splits /\ call' = Idle
  BY DEF Return, secretVars
<1>2. call'.op # "witness"
  BY <1>1 DEF Idle
<1>3. SecretInv'
  BY <1>1 DEF KeysInv, SecretInv
<1>4. CASE call.op = "witness" /\ call.found
  <2>1. PICK new : /\ issued' = issued \cup {new}
                   /\ new.key = secret.key
    <3>1. \A w : [witness |-> w, space |-> call.space, key |-> secret.key,
                  identity |-> call.identity].key = secret.key
      OBVIOUS
    <3> QED BY <1>4, <3>1 DEF Return
  <2>2. secret.key \in DerivedKeys
    BY <1>4 DEF KeysInv, IssuedKeysInv, SecretInv
  <2> QED BY <1>2, <1>3, <2>1, <2>2 DEF KeysInv, IssuedKeysInv
<1>5. CASE ~(call.op = "witness" /\ call.found)
  <2>1. issued' = issued
    BY <1>5 DEF Return
  <2> QED BY <1>2, <1>3, <2>1 DEF KeysInv, IssuedKeysInv
<1> QED BY <1>4, <1>5

\* No step makes or uses a key that no login derives.
LEMMA StepKeys == KeysInv /\ [Next]_vars => KeysInv'
<1> SUFFICES ASSUME KeysInv, [Next]_vars PROVE KeysInv'
  OBVIOUS
<1> USE DEF KeysInv, IssuedKeysInv
<1>1. CASE UNCHANGED vars
  BY <1>1 DEF vars, SecretInv
<1>2. CASE UseSecret
  <2>1. call' = call /\ call.op # "witness" /\ issued' = issued
    BY <1>2 DEF UseSecret, Idle
  <2> QED BY <1>2, <2>1, SecretStepInv DEF UseSecret
<1>3. CASE Stop
  <2>1. call'.op # "witness" /\ issued' = issued /\ SecretInv'
    BY <1>3 DEF Stop, Lose, Idle, SecretInv
  <2> QED BY <2>1
<1>4. CASE Generate
  BY <1>4 DEF Generate, Start, secretVars, SecretInv
<1>5. CASE GenerateAlternative
  BY <1>5 DEF GenerateAlternative, Start, secretVars, SecretInv
<1>6. CASE AttemptWitness
  <2>1. call.op = "witness" /\ issued' = issued /\ UNCHANGED secretVars
    BY <1>6 DEF AttemptWitness
  <2> QED BY <2>1 DEF secretVars, SecretInv
<1>7. CASE AttemptAlibi
  <2>1. call'.op # "witness"
    <3>1. call.op # "witness"
      BY <1>7 DEF AttemptAlibi
    <3>2. \A f, g, h, k : [call EXCEPT !.attempt = f, !.chain = g, !.tag = h, !.found = k].op
                            = call.op
      OBVIOUS
    <3> QED BY <1>7, <3>1, <3>2 DEF AttemptAlibi, Consider
  <2> QED BY <1>7, <2>1 DEF AttemptAlibi, secretVars, SecretInv
<1>8. CASE Return
  BY <1>8, ReturnKeys
<1> QED BY <1>1, <1>2, <1>3, <1>4, <1>5, <1>6, <1>7, <1>8 DEF Next, Attempt

\* In every state the keys are derived ones.
LEMMA KeysCorrect == Spec => []KeysInv
<1>1. Init => KeysInv
  <2>1. Init => SecretInv
    BY DEF Init, SecretInit, SecretInv
  <2>2. Init => IssuedKeysInv
    BY DEF Init, IssuedKeysInv, Idle
  <2> QED BY <2>1, <2>2 DEF KeysInv
<1> QED BY <1>1, StepKeys, PTL DEF Spec

\* A key in memory was derived from a login, whether it was derived just now,
\* unsealed or put together from shares.
THEOREM KeyCorrect == Spec => []KeyWasDerived
<1>1. KeysInv => KeyWasDerived
  BY DEF KeysInv, SecretInv, KeyWasDerived, DerivedKeys
<1> QED BY <1>1, KeysCorrect, PTL

-----------------------------------------------------------------------------
\* A key finds a witness authentic if and only if it issued it.
LEMMA OnlyItsKey ==
  ASSUME IInv, NEW i \in issued, NEW key
  PROVE  VerifyAuthenticity(key, i.witness, i.identity) = "Authentic" <=> key = i.key
<1>1. IsIssued(i)
  BY DEF IInv, IssuedInv
<1>2. VerifyAuthenticity(key, i.witness, i.identity) = "Authentic"
        <=> ComputeBindingTag(i.key, i.identity, i.witness.sessionId, i.witness.chain)
              = ComputeBindingTag(key, i.identity, i.witness.sessionId, i.witness.chain)
  BY <1>1 DEF IsIssued, VerifyAuthenticity
<1> QED BY <1>2 DEF ComputeBindingTag

\* A witness is authentic to the logins that derive the key it was issued under,
\* of which there is one, and to no others: they share their factors and their
\* use, so that a key for authentic use and one for duress accept nothing in
\* common.
THEOREM LoginsCorrect == Spec => []AuthenticToItsLogins
<1>1. IInv /\ KeysInv => AuthenticToItsLogins
  <2> SUFFICES ASSUME IInv, KeysInv, NEW i \in issued
               PROVE  LET accepting ==
                            {l \in Logins : VerifyAuthenticity(MasterKey(l.input, l.mode),
                                                i.witness, i.identity) = "Authentic"}
                      IN  /\ accepting # {}
                          /\ \A l \in accepting : MasterKey(l.input, l.mode) = i.key
                          /\ \A l, m \in accepting :
                               l.mode = m.mode /\ Combined(l.input) = Combined(m.input)
    BY DEF AuthenticToItsLogins
  <2> DEFINE accepting == {l \in Logins : VerifyAuthenticity(MasterKey(l.input, l.mode),
                                            i.witness, i.identity) = "Authentic"}
  <2>1. accepting = {l \in Logins : MasterKey(l.input, l.mode) = i.key}
    BY OnlyItsKey
  <2>2. \E l \in Logins : i.key = MasterKey(l.input, l.mode)
    BY DEF KeysInv, IssuedKeysInv, DerivedKeys
  <2>3. accepting # {}
    BY <2>1, <2>2
  <2>4. ASSUME NEW l \in accepting, NEW m \in accepting
        PROVE  l.mode = m.mode /\ Combined(l.input) = Combined(m.input)
    <3>1. MasterKey(l.input, l.mode) = MasterKey(m.input, m.mode)
      BY <2>1
    <3> QED BY <3>1 DEF MasterKey
  <2> QED BY <2>1, <2>3, <2>4
<1> QED BY HandedOutCorrect, KeysCorrect, <1>1, PTL
=============================================================================
