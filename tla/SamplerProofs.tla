--------------------------- MODULE SamplerProofs ---------------------------
(***************************************************************************)
(* What a call of the sampler returns is a witness of its root, for every  *)
(* root, every number of attempts and every word size: the type invariant, *)
(* the genuineness of the kept chain, that an abort loses nothing, and the *)
(* refinement of WitnessDraw.                                              *)
(***************************************************************************)
EXTENDS Sampler, LayerProofs

\* The number the i-th layer of a chain decomposes.
Parent(c, n, i) == IF i = 1 THEN n ELSE c[i - 1].a

\* What is known of an attempt whose validity bit is still set.
Committed ==
  \A i \in 1 .. Len(chain) :
    /\ IsLayer(Parent(chain, root, i), chain[i])
    /\ chain[i].a < Parent(chain, root, i)
    /\ i < Depth => CheckAheadValid(chain[i].a)

AttemptInv ==
  /\ overallValid => Committed /\ currentN = Parent(chain, root, Len(chain) + 1)
  /\ CommittedPrefix
  /\ currentN # root => CheckAheadValid(currentN) \/ Len(chain) = Depth
  /\ currentN \in 1 .. Word - 1
  /\ chain # << >> => attempt < MaxAttempts
  /\ ~LayerParams(root).valid =>
       currentN = root /\ ~found /\ \A i \in 1 .. Len(chain) : chain[i] = Zero

OutcomeInv ==
  /\ outcome.status = "pending" => outcome = Pending
  /\ outcome.status = "panicked" =>
       outcome = Panicked /\ checked /\ ~LayerParams(root).valid
  /\ outcome.status = "none" => outcome = NoWitness
  /\ OutcomeIsKept

\* The inductive invariant.
IInv == TypeOK /\ AttemptInv /\ KeptIsGenuine /\ OutcomeInv

-----------------------------------------------------------------------------
LEMMA RootInWord == TypeOK => root \in 1 .. Word - 1
  BY SamplerAssumption DEF TypeOK

LEMMA PairType == \A a \in Nat, b \in Nat : Pair(a, b) \in Pairs
  BY DEF Pair, Pairs

LEMMA ZeroType == Zero \in Pairs
  BY PairType DEF Zero

\* A pick of a layer that keeps the validity bit is in the range of the
\* candidates, and its pair is a layer of the number it decomposes.
LEMMA ValidPick ==
  ASSUME NEW x \in 1 .. Word - 1, NEW last \in BOOLEAN, NEW drawn \in BOOLEAN,
         NEW t \in Pickable(LayerParams(x), WeightParams(LayerParams(x)), last, drawn),
         LayerValid(LayerParams(x), WeightParams(LayerParams(x)), last, t, drawn)
  PROVE  LET lp == LayerParams(x)
             p  == Pair(AAt(lp, t), BAt(lp, t))
         IN  /\ p \in Pairs /\ p.a \in 1 .. Word - 1 /\ p.a < x
             /\ IsLayer(x, p)
             /\ ~last => CheckAheadValid(p.a)
             /\ lp.valid
<1> DEFINE lp == LayerParams(x)
           w  == WeightParams(lp)
           a  == AAt(lp, t)
           b  == BAt(lp, t)
<1>1. lp.valid /\ (last \/ w.valid) /\ (last \/ CheckAheadValid(a))
      /\ ValidateTriangleCondition(b, a)
  BY DEF LayerValid
<1>2. lp.tMax \in Nat /\ w.tFilter \in Nat
  BY <1>1, ParamsOfValid, FilterIsSmall, SMT
<1>3. t \in 0 .. lp.tMax
  <2>1. CASE last
    <3> HIDE DEF lp, w
    <3> QED BY <1>2, <2>1, SMT DEF Pickable, FirstPick, lp, w
  <2>2. CASE ~last
    <3>1. w.tFilter <= lp.tMax
      BY <1>1, <2>2 DEF WeightParams
    <3> HIDE DEF lp, w
    <3> QED BY <1>2, <2>2, <3>1, SMT DEF Pickable, FirstPick, lp, w
  <2> QED BY <2>1, <2>2
<1>4. /\ a \in 1 .. Word - 1 /\ b \in Nat
      /\ 19 * a + 9 * b = x /\ a < x
      /\ b % 9 = (2 * x) % 9 /\ a % 9 = x % 9
  BY <1>1, <1>3, CandidateIsSolution
<1> HIDE DEF lp, w, a, b
<1>5. a \in Nat \ {0} /\ x \in Nat \ {0}
  BY <1>4, WordAssumption, SMT
<1>6. b # 0
  BY <1>1, <1>5, SMT DEF ValidateTriangleCondition, DigitalRoot
<1>7. ValidateTriangleCondition(b, x)
  BY <1>4, <1>5, <1>6, TriangleIsCongruence
<1>8. a >= 1 /\ b >= 1
  BY <1>4, <1>5, <1>6, SMT
<1> QED BY <1>1, <1>4, <1>5, <1>7, <1>8 DEF IsLayer, Pair, Pairs, a, b, lp

\* The outcomes that carry no chain.
LEMMA OutcomeType ==
  \A o \in {Pending, Panicked, NoWitness} :
    o \in [status : {"pending", "panicked", "none", "some"}, layers : Seq(Pairs)]
<1>1. << >> \in Seq(Pairs)
  OBVIOUS
<1>2. Pending \in [status : {"pending", "panicked", "none", "some"}, layers : Seq(Pairs)]
  BY <1>1 DEF Pending, Outcome
<1>3. Panicked \in [status : {"pending", "panicked", "none", "some"}, layers : Seq(Pairs)]
  BY <1>1 DEF Panicked, Outcome
<1>4. NoWitness \in [status : {"pending", "panicked", "none", "some"}, layers : Seq(Pairs)]
  BY <1>1 DEF NoWitness, Outcome
<1> QED BY <1>2, <1>3, <1>4

LEMMA AppendFacts ==
  ASSUME NEW S, NEW s \in Seq(S), NEW q \in S
  PROVE  /\ Append(s, q) \in Seq(S) /\ Len(s) \in Nat
         /\ Len(Append(s, q)) = Len(s) + 1
         /\ \A i \in 1 .. Len(s) : Append(s, q)[i] = s[i]
         /\ Append(s, q)[Len(s) + 1] = q
  OBVIOUS

-----------------------------------------------------------------------------
LEMMA InitIInv == Init => IInv
<1> SUFFICES ASSUME Init PROVE IInv
  OBVIOUS
<1>1. root \in 1 .. Word - 1 /\ root \in 0 .. Word - 1
  BY SamplerAssumption, WordAssumption, SMT DEF Init
<1>2. << >> \in Seq(Pairs) /\ Len(<< >>) = 0 /\ \A i \in 1 .. 0 : FALSE
  BY SMT
<1>3. <<Zero, Zero, Zero>> \in Seq(Pairs) /\ Len(<<Zero, Zero, Zero>>) = Depth
  BY ZeroType DEF Depth
<1>4. TypeOK
  <2>1. 0 \in Nat /\ 0 \in 0 .. MaxAttempts /\ 0 <= Depth
    BY SamplerAssumption, SMT DEF Depth
  <2>2. outcome \in [status : {"pending", "panicked", "none", "some"}, layers : Seq(Pairs)]
    BY OutcomeType DEF Init
  <2>3. best \in [layers : Seq(Pairs), valid : BOOLEAN] /\ Len(best.layers) = Depth
    BY <1>3 DEF Init
  <2>4. chain \in Seq(Pairs) /\ Len(chain) <= Depth
    BY <1>2, <2>1 DEF Init
  <2> QED BY <1>1, <2>1, <2>2, <2>3, <2>4 DEF Init, TypeOK
<1>5. AttemptInv
  BY <1>1, <1>2, SMT DEF Init, AttemptInv, Committed, CommittedPrefix, Parent
<1>6. KeptIsGenuine /\ OutcomeInv
  BY DEF Init, KeptIsGenuine, OutcomeInv, OutcomeIsKept, Pending, Outcome
<1> QED BY <1>4, <1>5, <1>6 DEF IInv

\* The step of a layer, whether or not it aborts.
LEMMA SampleLayerIInv == IInv /\ SampleLayer => IInv'
<1> DEFINE lp   == LayerParams(currentN)
           w    == WeightParams(lp)
           last == Len(chain) = Depth - 1
<1> SUFFICES ASSUME IInv, SampleLayer PROVE IInv'
  OBVIOUS
<1>0. /\ root \in 1 .. Word - 1 /\ currentN \in 1 .. Word - 1
      /\ chain \in Seq(Pairs) /\ Len(chain) \in 0 .. Depth - 1
      /\ outcome = Pending /\ last \in BOOLEAN
  <2>1. root \in 1 .. Word - 1 /\ currentN \in 1 .. Word - 1
    BY RootInWord DEF IInv, AttemptInv
  <2>2. chain \in Seq(Pairs) /\ Len(chain) < Depth /\ outcome = Pending
    BY DEF IInv, TypeOK, SampleLayer
  <2>3. Len(chain) \in Nat
    BY <2>2
  <2>4. Len(chain) \in 0 .. Depth - 1
    <3> DEFINE n == Len(chain)
    <3>1. n \in Nat /\ n < Depth
      BY <2>2, <2>3
    <3> HIDE DEF n
    <3>2. n \in 0 .. Depth - 1
      BY <3>1, SMT DEF Depth
    <3> QED BY <3>2 DEF n
  <2> QED BY <2>1, <2>2, <2>4
<1> DEFINE Picked(drawn, t) ==
        /\ draws' = draws + (IF last THEN 8 ELSE 16)
        /\ IF checked /\ Overflows(lp, t)
           THEN /\ outcome' = Panicked
                /\ UNCHANGED <<chain, currentN, overallValid>>
           ELSE LET ok == overallValid /\ LayerValid(lp, w, last, t, drawn)
                    p  == Pair(AAt(lp, t), BAt(lp, t))
                IN  /\ overallValid' = ok
                    /\ chain' = Append(chain, IF ok THEN p ELSE Zero)
                    /\ currentN' = IF ok THEN p.a ELSE currentN
                    /\ UNCHANGED outcome
<1>6. PICK drawn \in BOOLEAN :
        \E t \in Pickable(lp, w, last, drawn) : Picked(drawn, t)
  BY Zenon DEF SampleLayer, Fold
<1>1. PICK t \in Pickable(lp, w, last, drawn) : Picked(drawn, t)
  BY <1>6
<1>2. UNCHANGED <<root, checked, attempt, best, found>>
  BY DEF SampleLayer
<1>3. draws' \in Nat
  BY <1>1, SMT DEF IInv, TypeOK
<1>4. CASE checked /\ Overflows(lp, t)
  <2>1. outcome' = Panicked /\ UNCHANGED <<chain, currentN, overallValid>>
    BY <1>1, <1>4
  <2>2. ~lp.valid
    <3>1. SUFFICES ASSUME lp.valid PROVE FALSE
      OBVIOUS
    <3>2. /\ \A u \in 0 .. lp.tMax : ~Overflows(lp, u)
          /\ lp.tMax \in Nat /\ w.tFilter \in Nat
          /\ ~Overflows(lp, w.tFilter)
      <4>1. \A u \in 0 .. lp.tMax : ~Overflows(lp, u)
        BY <1>0, <3>1, CandidateIsSolution, Zenon
      <4>2. lp.tMax \in Nat
        BY <1>0, <3>1, ParamsOfValid, Zenon
      <4>3. w.tFilter \in 0 .. 38
        BY <1>0, <3>1, FilterIsSmall, Zenon
      <4>4. ~Overflows(lp, w.tFilter)
        BY <1>0, <3>1, FilterDoesNotOverflow, Zenon
      <4>5. w.tFilter \in Nat
        <5>1. \A i \in 0 .. 38 : i \in Nat
          BY SMT
        <5> QED BY <4>3, <5>1, Zenon
      <4> HIDE DEF lp, w
      <4> QED BY <4>1, <4>2, <4>4, <4>5, Zenon
    <3>3. t \in 0 .. lp.tMax \/ t = w.tFilter
      <4> HIDE DEF lp, w, last
      <4> QED BY <1>1, <3>2, SMT DEF Pickable, FirstPick
    <3> QED BY <1>4, <3>2, <3>3
  <2>3. ~CheckAheadValid(currentN)
    BY <2>2, SMT DEF CheckAheadValid, CountTriangleFilteredClosedForm
  <2>4. currentN = root
    <3>1. Len(chain) # Depth
      BY <1>0, SMT DEF Depth
    <3> QED BY <2>3, <3>1 DEF IInv, AttemptInv
  <2>5. ~LayerParams(root).valid
    BY <2>2, <2>4
  <2>6. TypeOK'
    BY <1>2, <1>3, <2>1, OutcomeType DEF IInv, TypeOK
  <2>7. AttemptInv'
    <3>1. UNCHANGED <<root, attempt, chain, currentN, overallValid, found>>
      BY <1>2, <2>1
    <3> QED BY <3>1 DEF IInv, AttemptInv, Committed, CommittedPrefix, Parent
  <2>8. KeptIsGenuine'
    BY <1>2 DEF IInv, KeptIsGenuine, Genuine
  <2>9. OutcomeInv'
    BY <1>2, <1>4, <2>1, <2>5 DEF OutcomeInv, OutcomeIsKept, Panicked, Outcome
  <2> QED BY <2>6, <2>7, <2>8, <2>9 DEF IInv
<1>5. CASE ~(checked /\ Overflows(lp, t))
  <2> DEFINE ok == overallValid /\ LayerValid(lp, w, last, t, drawn)
             p  == Pair(AAt(lp, t), BAt(lp, t))
             q  == IF ok THEN p ELSE Zero
             m  == Len(chain)
  <2>1. /\ overallValid' = ok /\ chain' = Append(chain, q)
        /\ currentN' = IF ok THEN p.a ELSE currentN
        /\ outcome' = outcome
    BY <1>1, <1>5
  <2>2. ok => /\ overallValid /\ lp.valid
              /\ p \in Pairs /\ p.a \in 1 .. Word - 1 /\ p.a < currentN
              /\ IsLayer(currentN, p)
              /\ ~last => CheckAheadValid(p.a)
    BY <1>0, ValidPick, Zenon
  <2>3. ok \in BOOLEAN
    BY DEF IInv, TypeOK, LayerValid
  <2> HIDE DEF ok, p
  <2>4. q \in Pairs
    BY <2>2, ZeroType
  <2> HIDE DEF q
  <2>5. /\ chain' \in Seq(Pairs) /\ Len(chain') = m + 1 /\ m \in 0 .. 2
        /\ \A i \in 1 .. m : chain'[i] = chain[i]
        /\ chain'[m + 1] = q
    BY <1>0, <2>1, <2>4, AppendFacts, SMT DEF Depth
  <2>6. TypeOK'
    <3>1. Len(chain') <= Depth
      <4> HIDE DEF m
      <4> QED BY <2>5, SMT DEF Depth
    <3>2. currentN' \in 1 .. Word - 1
      BY <1>0, <2>1, <2>2
    <3>3. currentN' \in 0 .. Word - 1
      BY <3>2, WordAssumption, SMT
    <3>4. overallValid' \in BOOLEAN
      BY <2>1, <2>3
    <3> QED BY <1>2, <1>3, <2>1, <2>5, <3>1, <3>3, <3>4 DEF IInv, TypeOK
  <2>7. /\ Parent(chain', root', m + 2) = q.a
        /\ \A i \in 1 .. m + 1 : Parent(chain', root', i) = Parent(chain, root, i)
    <3>1. root' = root
      BY <1>2
    <3> HIDE DEF m
    <3> QED BY <2>5, <3>1, SMT DEF Parent
  <2>8. ok => Committed' /\ currentN' = Parent(chain', root', Len(chain') + 1)
    <3> SUFFICES ASSUME ok PROVE Committed' /\ currentN' = Parent(chain', root', m + 2)
      BY <2>5, SMT
    <3>1. Committed /\ currentN = Parent(chain, root, m + 1) /\ q = p
      BY <2>2 DEF IInv, AttemptInv, q
    <3>2. ASSUME NEW i \in 1 .. m + 1
          PROVE  /\ IsLayer(Parent(chain', root', i), chain'[i])
                 /\ chain'[i].a < Parent(chain', root', i)
                 /\ i < Depth => CheckAheadValid(chain'[i].a)
      <4>1. CASE i = m + 1
        <5>1. i < Depth => ~last
          BY <4>1, <2>5, SMT DEF Depth
        <5> QED BY <4>1, <5>1, <2>2, <2>5, <2>7, <3>1
      <4>2. CASE i \in 1 .. m
        BY <4>2, <2>5, <2>7, <3>1 DEF Committed
      <4> QED BY <3>2, <4>1, <4>2, <2>5, SMT
    <3>3. Committed'
      BY <2>5, <3>2 DEF Committed
    <3>4. currentN' = Parent(chain', root', m + 2)
      BY <2>1, <2>7, <3>1
    <3> QED BY <3>3, <3>4
  <2>9. CommittedPrefix'
    <3> SUFFICES ASSUME NEW i \in 1 .. m + 1
                 PROVE  \/ chain'[i] = Zero /\ ~ok
                        \/ IsLayer(Parent(chain', root', i), chain'[i])
      BY <2>1, <2>5 DEF CommittedPrefix, Parent
    <3>1. CASE ok
      BY <3>1, <2>8, <2>5 DEF Committed
    <3>2. CASE ~ok /\ i = m + 1
      BY <3>2, <2>5 DEF q
    <3>3. CASE ~ok /\ i \in 1 .. m
      BY <3>3, <2>5, <2>7 DEF IInv, AttemptInv, CommittedPrefix, Parent
    <3> QED BY <3>1, <3>2, <3>3, <2>5, SMT
  <2>10. currentN' # root' => CheckAheadValid(currentN') \/ Len(chain') = Depth
    <3>1. CASE ok
      <4>1. last => Len(chain') = Depth
        BY <2>5, SMT DEF Depth
      <4> QED BY <3>1, <4>1, <2>1, <2>2
    <3>2. CASE ~ok
      <4>1. Len(chain) # Depth
        BY <1>0, SMT DEF Depth
      <4> QED BY <3>2, <4>1, <1>2, <2>1 DEF IInv, AttemptInv
    <3> QED BY <3>1, <3>2
  <2>11. currentN' \in 1 .. Word - 1
    BY <1>0, <2>1, <2>2
  <2>12. ~LayerParams(root').valid =>
           currentN' = root' /\ ~found' /\ \A i \in 1 .. Len(chain') : chain'[i] = Zero
    <3> SUFFICES ASSUME ~LayerParams(root).valid
                 PROVE  currentN' = root /\ ~found
                        /\ \A i \in 1 .. m + 1 : chain'[i] = Zero
      BY <1>2, <2>5
    <3>1. currentN = root /\ ~found /\ \A i \in 1 .. m : chain[i] = Zero
      BY DEF IInv, AttemptInv
    <3>2. ~ok
      BY <2>2, <3>1
    <3>3. q = Zero
      BY <3>2 DEF q
    <3>4. \A i \in 1 .. m + 1 : i \in 1 .. m \/ i = m + 1
      BY <2>5, SMT
    <3> QED BY <2>1, <2>5, <3>1, <3>2, <3>3, <3>4
  <2>13. AttemptInv'
    <3>1. attempt' < MaxAttempts
      BY <1>2 DEF SampleLayer, MoreAttempts
    <3> QED BY <2>1, <2>8, <2>9, <2>10, <2>11, <2>12, <3>1 DEF AttemptInv
  <2>14. KeptIsGenuine' /\ OutcomeInv'
    BY <1>0, <1>2, <2>1 DEF IInv, KeptIsGenuine, Genuine, OutcomeInv, OutcomeIsKept,
                           Pending, Outcome
  <2> QED BY <2>6, <2>13, <2>14 DEF IInv
<1> QED BY <1>4, <1>5

\* A chain whose attempt kept its validity bit has the shape IsChain asks for;
\* VerifyDescent only restates what the layers say.
LEMMA CommittedIsGenuine ==
  ASSUME Committed, Len(chain) = Depth, VerifyDescent(chain, root)
  PROVE  Genuine(root, chain)
<1>1. 1 \in 1 .. 3 /\ 2 \in 1 .. 3 /\ 3 \in 1 .. 3 /\ 1 < 3 /\ 2 < 3
      /\ 2 # 1 /\ 3 # 1 /\ 2 - 1 = 1 /\ 3 - 1 = 2
  BY SMT
<1>2. /\ IsLayer(root, chain[1]) /\ IsLayer(chain[1].a, chain[2])
      /\ IsLayer(chain[2].a, chain[3])
      /\ CheckAheadValid(chain[1].a) /\ CheckAheadValid(chain[2].a)
  BY <1>1 DEF Committed, Parent, Depth
<1> QED BY <1>2 DEF Genuine, IsChain

\* The end of an attempt: only here is a chain kept, and only a whole one.
LEMMA EndAttemptIInv == IInv /\ EndAttempt => IInv'
<1> DEFINE ok == overallValid /\ VerifyDescent(chain, root)
<1> SUFFICES ASSUME IInv, EndAttempt PROVE IInv'
  OBVIOUS
<1>1. /\ outcome = Pending /\ Len(chain) = Depth
      /\ best' = [layers |-> IF ok /\ ~found THEN chain ELSE best.layers, valid |-> TRUE]
      /\ found' = (found \/ ok)
      /\ attempt' = attempt + 1
      /\ chain' = << >> /\ currentN' = root /\ overallValid' = TRUE
      /\ UNCHANGED <<root, checked, draws, outcome>>
  BY DEF EndAttempt, SelectChain, TakeThis
<1>2. ok => Committed /\ Genuine(root, chain)
  BY <1>1, CommittedIsGenuine DEF IInv, AttemptInv
<1>3. root \in 1 .. Word - 1
  BY RootInWord DEF IInv
<1>4. << >> \in Seq(Pairs) /\ Len(<< >>) = 0
  OBVIOUS
<1>5. attempt' \in 0 .. MaxAttempts
  <2>1. chain # << >>
    BY <1>1, <1>4, SMT DEF Depth
  <2>2. attempt < MaxAttempts /\ attempt \in 0 .. MaxAttempts
    BY <2>1 DEF IInv, AttemptInv, TypeOK
  <2> QED BY <1>1, <2>2, SamplerAssumption, SMT
<1>6. TypeOK'
  <2>1. root \in 0 .. Word - 1 /\ 0 <= Depth
    BY <1>3, WordAssumption, SMT DEF Depth
  <2>2. ok \in BOOLEAN
    BY DEF IInv, TypeOK, VerifyDescent
  <2>3. best' \in [layers : Seq(Pairs), valid : BOOLEAN] /\ Len(best'.layers) = Depth
    BY <1>1 DEF IInv, TypeOK
  <2> HIDE DEF ok
  <2> QED BY <1>1, <1>4, <1>5, <2>1, <2>2, <2>3 DEF IInv, TypeOK
<1>7. ~LayerParams(root).valid => ~ok
  <2> SUFFICES ASSUME ~LayerParams(root).valid, ok PROVE FALSE
    OBVIOUS
  <2>1. 1 \in 1 .. Len(chain)
    BY <1>1, SMT DEF Depth
  <2>2. chain[1] = Zero
    BY <2>1 DEF IInv, AttemptInv
  <2>3. IsLayer(Parent(chain, root, 1), chain[1])
    BY <1>2, <2>1 DEF Committed
  <2>4. Zero.a >= 1
    BY <2>2, <2>3 DEF IsLayer
  <2> QED BY <2>4, SMT DEF Zero, Pair
<1>8. AttemptInv'
  <2>1. Committed' /\ CommittedPrefix'
    <3>1. \A i \in 1 .. Len(chain') : FALSE
      BY <1>1, <1>4, SMT
    <3> QED BY <3>1 DEF Committed, CommittedPrefix
  <2>2. currentN' = Parent(chain', root', Len(chain') + 1)
    <3>1. Len(chain') + 1 = 1
      BY <1>1, <1>4, SMT
    <3> QED BY <1>1, <3>1 DEF Parent
  <2>3. ~LayerParams(root').valid =>
          currentN' = root' /\ ~found' /\ \A i \in 1 .. Len(chain') : chain'[i] = Zero
    <3>1. \A i \in 1 .. Len(chain') : FALSE
      BY <1>1, <1>4, SMT
    <3> HIDE DEF ok
    <3> QED BY <1>1, <1>7, <3>1 DEF IInv, AttemptInv
  <2> QED BY <1>1, <1>3, <2>1, <2>2, <2>3 DEF AttemptInv
<1>9. KeptIsGenuine'
  <2> HIDE DEF ok
  <2>1. CASE found
    BY <1>1, <2>1 DEF IInv, KeptIsGenuine, Genuine
  <2>2. CASE ~found /\ ok
    <3>1. best'.layers = chain /\ found' /\ root' = root
      BY <1>1, <2>2
    <3> QED BY <1>2, <2>2, <3>1 DEF KeptIsGenuine, Genuine
  <2>3. CASE ~found /\ ~ok
    BY <1>1, <2>3 DEF IInv, KeptIsGenuine
  <2> QED BY <2>1, <2>2, <2>3
<1>10. OutcomeInv'
  <2>1. outcome' = Pending
    BY <1>1
  <2> QED BY <2>1 DEF OutcomeInv, OutcomeIsKept, Pending, Outcome
<1> QED BY <1>6, <1>8, <1>9, <1>10 DEF IInv

\* The return hands out what was kept.
LEMMA ReturnIInv == IInv /\ Return => IInv'
<1> SUFFICES ASSUME IInv, Return PROVE IInv'
  OBVIOUS
<1>1. /\ UNCHANGED <<root, checked, attempt, chain, currentN, overallValid, best, found, draws>>
      /\ \/ outcome' = NoWitness
         \/ outcome' = Witness(best.layers) /\ found
  BY DEF Return, FeasibleAndFound
<1>2. TypeOK'
  <2>1. best.layers \in Seq(Pairs)
    BY DEF IInv, TypeOK
  <2>2. outcome' \in [status : {"pending", "panicked", "none", "some"}, layers : Seq(Pairs)]
    <3>1. CASE outcome' = NoWitness
      BY <3>1, OutcomeType
    <3>2. CASE outcome' = Witness(best.layers)
      BY <2>1, <3>2 DEF Witness, Outcome
    <3> QED BY <1>1, <3>1, <3>2
  <2> QED BY <1>1, <2>2 DEF IInv, TypeOK
<1>3. AttemptInv'
  BY <1>1 DEF IInv, AttemptInv, Committed, CommittedPrefix, Parent
<1>4. KeptIsGenuine'
  BY <1>1 DEF IInv, KeptIsGenuine, Genuine
<1>5. OutcomeInv'
  BY <1>1 DEF OutcomeInv, OutcomeIsKept, NoWitness, Witness, Outcome
<1> QED BY <1>2, <1>3, <1>4, <1>5 DEF IInv

LEMMA NextIInv == IInv /\ [Next]_vars => IInv'
<1> SUFFICES ASSUME IInv, [Next]_vars PROVE IInv'
  OBVIOUS
<1>1. CASE UNCHANGED vars
  <2>1. UNCHANGED <<root, checked, attempt, chain, currentN, overallValid, best, found, draws,
                    outcome>>
    BY <1>1 DEF vars
  <2> QED BY <2>1 DEF IInv, TypeOK, AttemptInv, Committed, CommittedPrefix, Parent,
                      KeptIsGenuine, Genuine, OutcomeInv, OutcomeIsKept
<1> QED BY <1>1, SampleLayerIInv, EndAttemptIInv, ReturnIInv DEF Next

-----------------------------------------------------------------------------
\* The type invariant, for every set of roots below the word size and every
\* number of attempts: no masked or wrapped value leaves its range.
THEOREM TypeCorrect == Spec => []TypeOK
<1>1. IInv => TypeOK
  BY DEF IInv
<1> QED BY <1>1, InitIInv, NextIInv, PTL DEF Spec

\* What the retry loop keeps is a witness of the root, or the zero chain.
THEOREM KeptChainIsGenuine == Spec => []KeptIsGenuine
<1>1. IInv => KeptIsGenuine
  BY DEF IInv
<1> QED BY <1>1, InitIInv, NextIInv, PTL DEF Spec

\* The committed layers of an attempt are a prefix of a chain.
THEOREM PrefixCorrect == Spec => []CommittedPrefix
<1>1. IInv => CommittedPrefix
  BY DEF IInv, AttemptInv
<1> QED BY <1>1, InitIInv, NextIInv, PTL DEF Spec

\* What is returned is what was kept.
THEOREM OutcomeCorrect == Spec => []OutcomeIsKept
<1>1. IInv => OutcomeIsKept
  BY DEF IInv, OutcomeInv
<1> QED BY <1>1, InitIInv, NextIInv, PTL DEF Spec

\* An overflow abort loses no witness.
THEOREM PanicCorrect == Spec => []PanicOnlyOnEmptyRoot
<1>1. IInv => PanicOnlyOnEmptyRoot
  <2> SUFFICES ASSUME IInv, outcome = Panicked PROVE PanicOnlyOnEmptyRoot
    BY DEF PanicOnlyOnEmptyRoot
  <2>1. ~LayerParams(root).valid /\ root \in 1 .. Word - 1
    BY RootInWord DEF IInv, OutcomeInv, Panicked, Outcome
  <2>2. GenerateRepresentationFamily(root) = {}
    BY <2>1, InvalidHasNoFamily
  <2> QED BY <2>1, <2>2 DEF IInv, AttemptInv, PanicOnlyOnEmptyRoot
<1> QED BY <1>1, InitIInv, NextIInv, PTL DEF Spec

\* The first success stands.
THEOREM FirstSuccessStands == Spec => FirstSuccessKept
<1>1. IInv /\ [Next]_vars => [found => found' /\ best'.layers = best.layers]_vars
  <2> SUFFICES ASSUME IInv, Next, found PROVE found' /\ best'.layers = best.layers
    BY DEF vars
  <2>1. CASE SampleLayer
    BY <2>1 DEF SampleLayer
  <2>2. CASE EndAttempt
    <3> DEFINE ok == overallValid /\ VerifyDescent(chain, root)
    <3>1. /\ found' = (found \/ ok)
          /\ best' = [layers |-> IF ok /\ ~found THEN chain ELSE best.layers, valid |-> TRUE]
      BY <2>2 DEF EndAttempt, SelectChain, TakeThis
    <3> HIDE DEF ok
    <3> QED BY <3>1
  <2>3. CASE Return
    BY <2>3 DEF Return
  <2> QED BY <2>1, <2>2, <2>3 DEF Next
<1> QED BY <1>1, InitIInv, NextIInv, PTL DEF Spec, FirstSuccessKept

-----------------------------------------------------------------------------
(* The amount of work. *)

\* The random words an unfinished call has drawn.
WorkInv ==
  /\ outcome = Pending =>
       draws = 40 * attempt + (IF Len(chain) = Depth THEN 40 ELSE 16 * Len(chain))
  /\ FixedWork

\* A call that returns has drawn 40 words per attempt, whatever was drawn.
THEOREM WorkIsFixed == Spec => []FixedWork
<1>1. Init => WorkInv
  <2> SUFFICES ASSUME Init PROVE WorkInv
    OBVIOUS
  <2>1. Len(chain) = 0 /\ draws = 0 /\ attempt = 0 /\ outcome = Pending
    BY DEF Init
  <2> QED BY <2>1, SMT DEF WorkInv, FixedWork, Depth
<1>2. IInv /\ WorkInv /\ [Next]_vars => WorkInv'
  <2> SUFFICES ASSUME IInv, WorkInv, [Next]_vars PROVE WorkInv'
    OBVIOUS
  <2>1. attempt \in Nat /\ MaxAttempts \in Nat /\ draws \in Nat /\ chain \in Seq(Pairs)
    <3>1. \A i \in 0 .. MaxAttempts : i \in Nat
      BY SamplerAssumption, SMT
    <3> QED BY <3>1, SamplerAssumption DEF IInv, TypeOK
  <2>2. Len(chain) \in Nat
    BY <2>1
  <2>3. CASE SampleLayer
    <3> DEFINE m == Len(chain)
    <3>1. /\ outcome = Pending /\ m < Depth
          /\ draws' = draws + (IF m = Depth - 1 THEN 8 ELSE 16)
          /\ attempt' = attempt
      BY <2>3 DEF SampleLayer
    <3>2. \/ outcome' = Panicked
          \/ outcome' = Pending /\ \E q : chain' = Append(chain, q)
      BY <2>3 DEF SampleLayer
    <3>3. CASE outcome' = Panicked
      BY <3>3 DEF WorkInv, FixedWork, Pending, Panicked, Outcome
    <3>4. CASE outcome' = Pending /\ Len(chain') = m + 1
      <4>1. draws = 40 * attempt + 16 * m
        BY <3>1, SMT DEF WorkInv
      <4> DEFINE m2 == Len(chain')
      <4>2. m2 = m + 1 /\ m \in Nat
        BY <2>2, <3>4
      <4> HIDE DEF m, m2
      <4>3. draws' = 40 * attempt + (IF m2 = Depth THEN 40 ELSE 16 * m2)
        BY <2>1, <3>1, <4>1, <4>2, SMT DEF Depth
      <4>4. attempt' = attempt /\ outcome' = Pending
        BY <3>1, <3>4
      <4>5. draws' = 40 * attempt' + (IF Len(chain') = Depth THEN 40 ELSE 16 * Len(chain'))
        BY <4>3, <4>4 DEF m2
      <4> QED BY <4>4, <4>5 DEF WorkInv, FixedWork
    <3>5. (\E q : chain' = Append(chain, q)) => Len(chain') = m + 1
      BY <2>1
    <3> QED BY <3>2, <3>3, <3>4, <3>5
  <2>4. CASE EndAttempt
    <3>1. /\ outcome = Pending /\ Len(chain) = Depth /\ outcome' = outcome
          /\ draws' = draws /\ attempt' = attempt + 1 /\ chain' = << >>
      BY <2>4 DEF EndAttempt
    <3>2. draws = 40 * attempt + 40
      BY <3>1 DEF WorkInv
    <3>3. draws' = 40 * attempt' + 0
      BY <2>1, <3>1, <3>2, SMT
    <3>4. Len(chain') = 0
      BY <3>1
    <3>5. 16 * Len(chain') = 0 /\ Len(chain') # Depth
      BY <3>4, SMT DEF Depth
    <3> QED BY <3>1, <3>3, <3>5 DEF WorkInv, FixedWork
  <2>5. CASE Return
    <3>1. outcome = Pending /\ attempt = MaxAttempts /\ draws' = draws /\ outcome' # Pending
      BY <2>5 DEF Return, AllAttempted, NoWitness, Witness, Pending, Outcome
    <3>2. chain = << >>
      <4>1. chain # << >> => attempt < MaxAttempts
        BY DEF IInv, AttemptInv
      <4>2. ~(attempt < MaxAttempts)
        BY <2>1, <3>1, SMT
      <4> QED BY <4>1, <4>2
    <3>3. Len(chain) = 0
      BY <3>2
    <3>4. draws = 40 * MaxAttempts
      BY <2>1, <3>1, <3>3, SMT DEF WorkInv, Depth
    <3> QED BY <3>1, <3>4 DEF WorkInv, FixedWork
  <2>6. CASE UNCHANGED vars
    BY <2>6 DEF vars, WorkInv, FixedWork
  <2> QED BY <2>3, <2>4, <2>5, <2>6 DEF Next
<1>3. WorkInv => FixedWork
  BY DEF WorkInv
<1> QED BY <1>1, <1>2, <1>3, InitIInv, NextIInv, PTL DEF Spec

-----------------------------------------------------------------------------
(* The refinement. *)

\* The abstract specification means the same by a chain and by a candidate.
LEMMA SameChain == \A n, c : D!IsChain(n, c) <=> IsChain(n, c)
  BY DEF D!IsChain, IsChain, D!VerifyDescent, VerifyDescent, D!IsLayer, IsLayer,
         D!Depth, Depth, D!ValidateTriangleCondition, ValidateTriangleCondition,
         D!DigitalRoot, DigitalRoot

LEMMA SameFamily ==
  \A n : D!GenerateRepresentationFamily(n) = GenerateRepresentationFamily(n)
<1>1. \A x : D!DigitalRoot(x) = DigitalRoot(x)
  BY DEF D!DigitalRoot, DigitalRoot
<1>2. \A n : D!CalculateAnchor(n) = CalculateAnchor(n)
  BY <1>1 DEF D!CalculateAnchor, CalculateAnchor
<1>3. \A n : D!CalculatePopoviciuCardinality(n) = CalculatePopoviciuCardinality(n)
  BY <1>2 DEF D!CalculatePopoviciuCardinality, CalculatePopoviciuCardinality
<1>4. \A n, k : D!RepresentationAt(n, k) = RepresentationAt(n, k)
  BY <1>2 DEF D!RepresentationAt, RepresentationAt, D!Pair, Pair
<1>5. \A n : D!GenerateRepresentationFamilyUnfiltered(n) = GenerateRepresentationFamilyUnfiltered(n)
  BY <1>3, <1>4 DEF D!GenerateRepresentationFamilyUnfiltered, GenerateRepresentationFamilyUnfiltered
<1>6. \A b, n : D!ValidateTriangleCondition(b, n) <=> ValidateTriangleCondition(b, n)
  BY <1>1 DEF D!ValidateTriangleCondition, ValidateTriangleCondition
<1> QED BY <1>5, <1>6 DEF D!GenerateRepresentationFamily, GenerateRepresentationFamily

\* A call of the sampler, with its layers, masks and retries, is one draw of
\* WitnessDraw: it answers with a witness chain of the root or with none, and
\* aborts only where there was nothing to lose.
THEOREM Refinement == Spec => ImplementsWitnessDraw
<1>1. Init => D!Init
  BY DEF Init, D!Init, Pending, D!Pending, Outcome, D!Outcome
<1>2. IInv /\ IInv' /\ [Next]_vars => [D!Next]_<<root, outcome>>
  <2> SUFFICES ASSUME IInv, IInv', [Next]_vars PROVE D!Next \/ UNCHANGED <<root, outcome>>
    OBVIOUS
  <2>1. CASE SampleLayer
    <3>1. root' = root /\ outcome = Pending /\ (outcome' = outcome \/ outcome' = Panicked)
      BY <2>1 DEF SampleLayer
    <3>2. CASE outcome' = Panicked
      <4>1. ~LayerParams(root).valid /\ root \in 1 .. Word - 1
        BY <3>1, <3>2, RootInWord DEF IInv, OutcomeInv, Panicked, Outcome
      <4>2. GenerateRepresentationFamily(root) = {}
        BY <4>1, InvalidHasNoFamily
      <4>3. D!GenerateRepresentationFamily(root) = {}
        BY <4>2, SameFamily
      <4> QED BY <3>1, <3>2, <4>3 DEF D!Next, D!Abort, D!Pending, Pending,
              D!Outcome, Outcome, D!Panicked, Panicked
    <3> QED BY <3>1, <3>2
  <2>2. CASE EndAttempt
    BY <2>2 DEF EndAttempt
  <2>3. CASE Return
    <3>1. root' = root /\ outcome = Pending
      BY <2>3 DEF Return
    <3>2. CASE outcome' = NoWitness
      BY <3>1, <3>2 DEF D!Next, D!Answer, D!Pending, Pending, D!Outcome, Outcome,
                        D!NoWitness, NoWitness
    <3>3. CASE outcome' = Witness(best.layers) /\ found
      <4>1. outcome'.layers = best.layers
        BY <3>3 DEF Witness, Outcome
      <4>2. D!IsChain(root, best.layers)
        BY <3>3, SameChain DEF IInv, KeptIsGenuine, Genuine
      <4> QED BY <3>1, <3>3, <4>1, <4>2 DEF D!Next, D!Answer, D!Pending, Pending,
              D!Outcome, Outcome, D!Witness, Witness
    <3> QED BY <2>3, <3>2, <3>3 DEF Return, FeasibleAndFound
  <2>4. CASE UNCHANGED vars
    BY <2>4 DEF vars
  <2> QED BY <2>1, <2>2, <2>3, <2>4 DEF Next
<1> QED BY <1>1, <1>2, InitIInv, NextIInv, PTL DEF Spec, ImplementsWitnessDraw, D!Spec
=============================================================================
