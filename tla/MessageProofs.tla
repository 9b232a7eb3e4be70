--------------------------- MODULE MessageProofs ---------------------------
(***************************************************************************)
(* What holds of what is sent and shown, for any number of keys, texts and *)
(* calls: envelopes; the temporal barrier and the games of the time codes. *)
(***************************************************************************)
EXTENDS Envelope, TimeCode, SequenceTheorems, TLAPS

-----------------------------------------------------------------------------
(* Envelopes. *)

\* An envelope is what full_encrypt makes with its own encapsulation.
SealedAs(e, i) ==
  \E key, session, nonce, data, text :
    /\ session \in Sessions
    /\ e = [key |-> key, session |-> session, nonce |-> nonce, data |-> data, text |-> text,
            kyber |-> [to |-> key, number |-> i],
            aes |-> EncryptPayload(DeriveKeyFromClock(CombineSeed(<<"shared", key, i>>, session)),
                                   nonce, text, data)]

IsSeq(s) == s \in Seq({s[i] : i \in DOMAIN s})

SealedInv == IsSeq(sealed) /\ \A i \in 1 .. Len(sealed) : SealedAs(sealed[i], i)

\* A call of full_decrypt on parts that had been sealed by then.
Opened ==
  \E key, session, nonce, data, i, j :
    /\ i \in 1 .. Len(sealed) /\ j \in 1 .. Len(sealed) /\ session \in Sessions
    /\ opening = [op |-> "open", key |-> key, kyber |-> sealed[i].kyber, aes |-> sealed[j].aes,
                  session |-> session, nonce |-> nonce, data |-> data,
                  result |-> FullDecrypt(key, sealed[i].kyber, sealed[j].aes, session, nonce, data)]

OpeningInv == opening = [op |-> "none"] \/ Opened

IInv == SealedInv /\ OpeningInv

-----------------------------------------------------------------------------
\* A seed is made of one secret and one session only.
LEMMA SeedsApart ==
  ASSUME NEW a, NEW b, NEW s \in Seq(Nat), NEW t \in Seq(Nat), CombineSeed(a, s) = CombineSeed(b, t)
  PROVE  a = b /\ s = t
<1> DEFINE S == Nat \cup {a, b}
<1> DEFINE x == <<a, 0>>
<1> DEFINE y == <<b, 0>>
<1>1. /\ x \in Seq(S) /\ Len(x) = 2 /\ x[1] = a
      /\ y \in Seq(S) /\ Len(y) = 2 /\ y[1] = b
  OBVIOUS
<1>2. x \o s = y \o t
  BY DEF CombineSeed
<1>3. Nat \subseteq S
  OBVIOUS
<1> HIDE DEF S, x, y
<1>8. \A u \in Seq(Nat) : u \in Seq(S) /\ Len(u) \in Nat
  BY <1>3
<1>9. s \in Seq(S) /\ t \in Seq(S) /\ Len(s) \in Nat /\ Len(t) \in Nat
  BY <1>8
<1>10. /\ Len(x \o s) = Len(x) + Len(s)
       /\ \A i \in 1 .. Len(x) + Len(s) : (x \o s)[i] = IF i <= Len(x) THEN x[i] ELSE s[i - Len(x)]
  BY <1>1, <1>9, ConcatProperties, Zenon
<1>11. /\ Len(y \o t) = Len(y) + Len(t)
       /\ \A i \in 1 .. Len(y) + Len(t) : (y \o t)[i] = IF i <= Len(y) THEN y[i] ELSE t[i - Len(y)]
  BY <1>1, <1>9, ConcatProperties, Zenon
<1> DEFINE xs == x \o s
<1> DEFINE yt == y \o t
<1>12. xs = yt
  BY <1>2
<1>13. /\ Len(xs) = 2 + Len(s)
       /\ \A i \in 1 .. 2 + Len(s) : xs[i] = IF i <= 2 THEN x[i] ELSE s[i - 2]
  BY <1>1, <1>10
<1>14. /\ Len(yt) = 2 + Len(t)
       /\ \A i \in 1 .. 2 + Len(t) : yt[i] = IF i <= 2 THEN y[i] ELSE t[i - 2]
  BY <1>1, <1>11
<1> HIDE DEF xs, yt
<1>4. Len(s) = Len(t)
  BY <1>9, <1>12, <1>13, <1>14
<1>5. a = b
  <2>1. 1 \in 1 .. 2 + Len(s) /\ 1 \in 1 .. 2 + Len(t)
    BY <1>9
  <2> QED
    BY <2>1, <1>1, <1>12, <1>13, <1>14
<1>6. ASSUME NEW i \in 1 .. Len(s)  PROVE s[i] = t[i]
  <2>1. i + 2 \in 1 .. 2 + Len(s) /\ i + 2 - 2 = i /\ ~(i + 2 <= 2)
    BY <1>9
  <2>2. xs[i + 2] = s[i]
    BY <2>1, <1>13
  <2>3. yt[i + 2] = t[i]
    BY <2>1, <1>4, <1>14
  <2> QED
    BY <2>2, <2>3, <1>12
<1>7. s = t
  BY <1>4, <1>6, SeqEqual
<1> QED
  BY <1>5, <1>7

\* Two keys are equal only when their seeds are.
LEMMA KeysApart == \A s, t : DeriveKeyFromClock(s) = DeriveKeyFromClock(t) => s = t
  BY DEF DeriveKeyFromClock

\* The secrets of two encapsulations differ, and a refused one is none of them.
LEMMA SecretsApart ==
  /\ \A k, l, i, j : <<"shared", k, i>> = <<"shared", l, j>> => k = l /\ i = j
  /\ \A k, l, i, m, j : <<"shared", k, i>> # <<"rejected", l, m, j>>
  OBVIOUS

\* Adding to a sequence of anything.
LEMMA AppendIsSeq ==
  ASSUME NEW s, IsSeq(s), NEW x
  PROVE  /\ IsSeq(Append(s, x)) /\ Len(Append(s, x)) = Len(s) + 1 /\ Len(s) \in Nat
         /\ \A i \in 1 .. Len(s) : Append(s, x)[i] = s[i]
         /\ Append(s, x)[Len(s) + 1] = x
<1> DEFINE S == {s[i] : i \in DOMAIN s} \cup {x}
<1> DEFINE a == Append(s, x)
<1>1. s \in Seq(S)
  BY DEF IsSeq
<1>2. a \in Seq(S) /\ Len(a) = Len(s) + 1
  BY <1>1
<1>3. \A i \in 1 .. Len(s) : a[i] = s[i]
  BY <1>1
<1>4. a[Len(s) + 1] = x
  BY <1>1
<1>5. a \in Seq({a[i] : i \in DOMAIN a})
  BY <1>2
<1> QED
  BY <1>1, <1>2, <1>3, <1>4, <1>5 DEF IsSeq

-----------------------------------------------------------------------------
\* No envelope and no call at first.
LEMMA InitInv == Init => IInv
<1> SUFFICES ASSUME Init PROVE IInv
  OBVIOUS
<1>1. sealed = << >> /\ opening = [op |-> "none"]
  BY DEF Init
<1>2. IsSeq(<< >>) /\ Len(<< >>) = 0
  BY DEF IsSeq
<1> QED
  BY <1>1, <1>2 DEF IInv, SealedInv, OpeningInv

\* Every call adds an envelope of its own, and leaves the others.
LEMMA NextInv == IInv /\ [Next]_vars => IInv'
<1> SUFFICES ASSUME IInv, [Next]_vars  PROVE IInv'
  OBVIOUS
<1>1. CASE Seal
  <2>1. PICK key, session, nonce, data, text :
          /\ session \in Sessions
          /\ sealed' = Append(sealed,
               [key |-> key, session |-> session, nonce |-> nonce, data |-> data, text |-> text,
                kyber |-> [to |-> key, number |-> Len(sealed) + 1],
                aes |-> EncryptPayload(DeriveKeyFromClock(
                          CombineSeed(<<"shared", key, Len(sealed) + 1>>, session)),
                          nonce, text, data)])
    BY <1>1 DEF Seal, Encapsulate
  <2> DEFINE n == Len(sealed) + 1
  <2> DEFINE e == [key |-> key, session |-> session, nonce |-> nonce, data |-> data, text |-> text,
                kyber |-> [to |-> key, number |-> n],
                aes |-> EncryptPayload(DeriveKeyFromClock(CombineSeed(<<"shared", key, n>>, session)),
                          nonce, text, data)]
  <2>2. SealedAs(e, n)
    BY <2>1 DEF SealedAs
  <2>3. sealed' = Append(sealed, e)
    BY <2>1
  <2> HIDE DEF e
  <2>4. /\ IsSeq(sealed') /\ Len(sealed') = n /\ Len(sealed) \in Nat /\ sealed'[n] = e
        /\ \A i \in 1 .. Len(sealed) : sealed'[i] = sealed[i]
    BY <2>3, AppendIsSeq DEF IInv, SealedInv
  <2>5. SealedInv'
    <3>1. ASSUME NEW i \in 1 .. Len(sealed')  PROVE SealedAs(sealed'[i], i)
      <4>1. i \in 1 .. Len(sealed) \/ i = n
        BY <2>4
      <4> HIDE DEF n
      <4> QED
        BY <4>1, <2>2, <2>4 DEF IInv, SealedInv
    <3> QED
      BY <3>1, <2>4 DEF SealedInv
  <2>6. OpeningInv'
    <3>1. opening' = opening
      BY <1>1 DEF Seal
    <3>2. CASE Opened
      <4>1. PICK k, s, m, d, i, j :
              /\ i \in 1 .. Len(sealed) /\ j \in 1 .. Len(sealed) /\ s \in Sessions
              /\ opening = [op |-> "open", key |-> k, kyber |-> sealed[i].kyber, aes |-> sealed[j].aes,
                   session |-> s, nonce |-> m, data |-> d,
                   result |-> FullDecrypt(k, sealed[i].kyber, sealed[j].aes, s, m, d)]
        BY <3>2 DEF Opened
      <4>2. i \in 1 .. Len(sealed') /\ j \in 1 .. Len(sealed')
            /\ sealed'[i] = sealed[i] /\ sealed'[j] = sealed[j]
        BY <4>1, <2>4
      <4>3. opening' = [op |-> "open", key |-> k, kyber |-> sealed'[i].kyber, aes |-> sealed'[j].aes,
                   session |-> s, nonce |-> m, data |-> d,
                   result |-> FullDecrypt(k, sealed'[i].kyber, sealed'[j].aes, s, m, d)]
        BY <3>1, <4>1, <4>2
      <4>4. Opened'
        BY <4>1, <4>2, <4>3 DEF Opened
      <4> QED
        BY <4>4 DEF OpeningInv
    <3> QED
      BY <3>1, <3>2 DEF IInv, OpeningInv
  <2> QED
    BY <2>5, <2>6 DEF IInv
<1>2. CASE Open
  <2>1. Opened'
    BY <1>2 DEF Open, Opened
  <2> QED
    BY <1>2, <2>1 DEF Open, IInv, SealedInv, OpeningInv
<1>3. CASE UNCHANGED <<sealed, opening>>
  BY <1>3 DEF IInv, SealedInv, OpeningInv, Opened
<1> QED
  BY <1>1, <1>2, <1>3 DEF Next, Keygen, vars

\* It holds of every reachable state.
LEMMA AlwaysInv == Spec => []IInv
<1> QED
  BY InitInv, NextInv, PTL DEF Spec

-----------------------------------------------------------------------------
\* The key of an envelope is the key of its own encapsulation and session.
LEMMA KeysOfEnvelopes ==
  ASSUME NEW key, NEW c, NEW session \in Sessions, NEW e, NEW i \in Nat, SealedAs(e, i),
         NEW j \in Nat, NEW other, c = [to |-> other, number |-> j],
         e.aes.key = DeriveKeyFromClock(CombineSeed(Decapsulate(c, key), session))
  PROVE  e.key = key /\ e.session = session /\ c = e.kyber
<1>1. PICK k, s, nonce, data, text :
        /\ s \in Sessions
        /\ e = [key |-> k, session |-> s, nonce |-> nonce, data |-> data, text |-> text,
                kyber |-> [to |-> k, number |-> i],
                aes |-> EncryptPayload(DeriveKeyFromClock(CombineSeed(<<"shared", k, i>>, s)),
                                       nonce, text, data)]
  BY DEF SealedAs
<1>2. /\ e.aes.key = DeriveKeyFromClock(CombineSeed(<<"shared", k, i>>, s))
      /\ e.key = k /\ e.session = s /\ e.kyber = [to |-> k, number |-> i]
  BY <1>1 DEF EncryptPayload
<1> DEFINE mine == <<"shared", k, i>>
<1> DEFINE theirs == Decapsulate(c, key)
<1>3. CombineSeed(mine, s) = CombineSeed(theirs, session)
  BY <1>2, KeysApart
<1>4. s \in Seq(Nat) /\ session \in Seq(Nat)
  BY <1>1, EnvelopeAssumption
<1>5. mine = theirs /\ s = session
  <2> HIDE DEF mine, theirs
  <2> QED
    BY <1>3, <1>4, SeedsApart
<1>6. CASE c.to = key
  <2>1. theirs = <<"shared", key, c.number>>
    BY <1>6 DEF Decapsulate
  <2>2. k = key /\ i = c.number
    BY <2>1, <1>5, SecretsApart
  <2> QED
    BY <2>2, <1>2, <1>5, <1>6
<1>7. CASE c.to # key
  <2>1. theirs = <<"rejected", key, c.to, c.number>>
    BY <1>7 DEF Decapsulate
  <2> QED
    BY <2>1, <1>5, SecretsApart
<1> QED
  BY <1>6, <1>7

\* The payload of an envelope is under the key derived from its secret and session.
LEMMA KeyOfEnvelope ==
  ASSUME NEW e, NEW n \in Nat, SealedAs(e, n)
  PROVE  \E k, s : /\ s \in Sessions
                   /\ e.aes.key = DeriveKeyFromClock(CombineSeed(<<"shared", k, n>>, s))
<1>1. PICK key, session, nonce, data, text :
        /\ session \in Sessions
        /\ e = [key |-> key, session |-> session, nonce |-> nonce, data |-> data,
                text |-> text, kyber |-> [to |-> key, number |-> n],
                aes |-> EncryptPayload(DeriveKeyFromClock(CombineSeed(<<"shared", key, n>>, session)),
                                       nonce, text, data)]
  BY DEF SealedAs
<1>2. e.aes = EncryptPayload(DeriveKeyFromClock(CombineSeed(<<"shared", key, n>>, session)),
                             nonce, text, data)
  BY <1>1
<1>3. e.aes.key = DeriveKeyFromClock(CombineSeed(<<"shared", key, n>>, session))
  BY <1>2 DEF EncryptPayload
<1> QED
  BY <1>1, <1>3

\* OpenedWasSealed, for any texts, sessions, keys and number of calls.
THEOREM OpenedCorrect == Spec => []OpenedWasSealed
<1>1. IInv => OpenedWasSealed
  <2> SUFFICES ASSUME IInv, opening.op = "open", opening.result.ok
               PROVE  \E n \in 1 .. Len(sealed) :
                        sealed[n] = [key |-> opening.key, session |-> opening.session,
                          nonce |-> opening.nonce, data |-> opening.data,
                          text |-> opening.result.text, kyber |-> opening.kyber, aes |-> opening.aes]
    BY DEF OpenedWasSealed
  <2>1. PICK key, session, nonce, data, i, j :
          /\ i \in 1 .. Len(sealed) /\ j \in 1 .. Len(sealed) /\ session \in Sessions
          /\ opening = [op |-> "open", key |-> key, kyber |-> sealed[i].kyber, aes |-> sealed[j].aes,
                session |-> session, nonce |-> nonce, data |-> data,
                result |-> FullDecrypt(key, sealed[i].kyber, sealed[j].aes, session, nonce, data)]
    BY DEF IInv, OpeningInv, Opened
  <2> DEFINE e == sealed[j]
  <2> DEFINE c == sealed[i].kyber
  <2> DEFINE k == DeriveKeyFromClock(CombineSeed(Decapsulate(c, key), session))
  <2>2. /\ opening.key = key /\ opening.session = session /\ opening.nonce = nonce
        /\ opening.data = data /\ opening.kyber = c /\ opening.aes = e.aes
        /\ opening.result = DecryptPayload(k, nonce, e.aes, data)
    BY <2>1 DEF FullDecrypt
  <2>3. e.aes.key = k /\ e.aes.nonce = nonce /\ e.aes.data = data /\ opening.result.text = e.aes.text
    <3> HIDE DEF e, k
    <3>1. CASE e.aes.key = k /\ e.aes.nonce = nonce /\ e.aes.data = data
      BY <3>1, <2>2 DEF DecryptPayload, Ok
    <3>2. CASE ~(e.aes.key = k /\ e.aes.nonce = nonce /\ e.aes.data = data)
      <4>1. opening.result = [ok |-> FALSE]
        BY <3>2, <2>2, Zenon DEF DecryptPayload, Err
      <4> QED
        BY <4>1
    <3> QED
      BY <3>1, <3>2
  <2>4. i \in Nat /\ j \in Nat /\ SealedAs(sealed[i], i) /\ SealedAs(e, j)
    BY <2>1 DEF IInv, SealedInv
  <2>5. \E other : c = [to |-> other, number |-> i]
    BY <2>4 DEF SealedAs
  <2>6. PICK own, s, m, d, text :
          e = [key |-> own, session |-> s, nonce |-> m, data |-> d, text |-> text,
               kyber |-> [to |-> own, number |-> j],
               aes |-> EncryptPayload(DeriveKeyFromClock(CombineSeed(<<"shared", own, j>>, s)),
                                      m, text, d)]
    BY <2>4 DEF SealedAs
  <2>7. /\ e = [key |-> e.key, session |-> e.session, nonce |-> e.nonce, data |-> e.data,
                text |-> e.text, kyber |-> e.kyber, aes |-> e.aes]
        /\ e.aes.nonce = e.nonce /\ e.aes.data = e.data /\ e.aes.text = e.text
    BY <2>6 DEF EncryptPayload
  <2> HIDE DEF e, c
  <2>8. e.key = key /\ e.session = session /\ c = e.kyber
    BY <2>1, <2>3, <2>4, <2>5, KeysOfEnvelopes
  <2>9. e = [key |-> opening.key, session |-> opening.session, nonce |-> opening.nonce,
             data |-> opening.data, text |-> opening.result.text, kyber |-> opening.kyber,
             aes |-> opening.aes]
    BY <2>2, <2>3, <2>7, <2>8, Zenon
  <2> QED
    BY <2>1, <2>9 DEF e
<1> QED
  BY <1>1, AlwaysInv, PTL

\* WholeIsOpened, for any texts, sessions, keys and number of calls.
THEOREM WholeCorrect == Spec => []WholeIsOpened
<1>1. IInv => WholeIsOpened
  <2> SUFFICES ASSUME IInv, NEW i \in 1 .. Len(sealed)
               PROVE  FullDecrypt(sealed[i].key, sealed[i].kyber, sealed[i].aes, sealed[i].session,
                                  sealed[i].nonce, sealed[i].data) = Ok(sealed[i].text)
    BY DEF WholeIsOpened
  <2>1. i \in Nat /\ SealedAs(sealed[i], i)
    BY DEF IInv, SealedInv
  <2>2. PICK key, session, nonce, data, text :
          sealed[i] = [key |-> key, session |-> session, nonce |-> nonce, data |-> data,
            text |-> text, kyber |-> [to |-> key, number |-> i],
            aes |-> EncryptPayload(DeriveKeyFromClock(CombineSeed(<<"shared", key, i>>, session)),
                                   nonce, text, data)]
    BY <2>1 DEF SealedAs
  <2>3. /\ sealed[i].key = key /\ sealed[i].session = session /\ sealed[i].nonce = nonce
        /\ sealed[i].data = data /\ sealed[i].text = text
        /\ sealed[i].kyber = [to |-> key, number |-> i]
        /\ sealed[i].aes = EncryptPayload(
             DeriveKeyFromClock(CombineSeed(<<"shared", key, i>>, session)), nonce, text, data)
    BY <2>2
  <2>4. Decapsulate([to |-> key, number |-> i], key) = <<"shared", key, i>>
    BY DEF Decapsulate
  <2> QED
    BY <2>3, <2>4 DEF FullDecrypt, DecryptPayload, EncryptPayload
<1> QED
  BY <1>1, AlwaysInv, PTL

\* NonceOncePerKey, and more: no two envelopes are under one key at all.
THEOREM KeysAreFresh == Spec => []NonceOncePerKey
<1>1. IInv => NonceOncePerKey
  <2> SUFFICES ASSUME IInv, NEW i \in 1 .. Len(sealed), NEW j \in 1 .. Len(sealed),
                      sealed[i].aes.key = sealed[j].aes.key
               PROVE  i = j
    BY DEF NonceOncePerKey
  <2>1. i \in Nat /\ j \in Nat /\ SealedAs(sealed[i], i) /\ SealedAs(sealed[j], j)
    BY DEF IInv, SealedInv
  <2>2. PICK k, s :
          /\ s \in Sessions
          /\ sealed[i].aes.key = DeriveKeyFromClock(CombineSeed(<<"shared", k, i>>, s))
    BY <2>1, KeyOfEnvelope
  <2>3. PICK l, t :
          /\ t \in Sessions
          /\ sealed[j].aes.key = DeriveKeyFromClock(CombineSeed(<<"shared", l, j>>, t))
    BY <2>1, KeyOfEnvelope
  <2> DEFINE x == <<"shared", k, i>>
  <2> DEFINE y == <<"shared", l, j>>
  <2>4. CombineSeed(x, s) = CombineSeed(y, t)
    BY <2>2, <2>3, KeysApart
  <2>5. x = y
    <3> HIDE DEF x, y
    <3>1. s \in Seq(Nat) /\ t \in Seq(Nat)
      BY <2>2, <2>3, EnvelopeAssumption
    <3> QED
      BY <3>1, <2>4, SeedsApart
  <2> QED
    BY <2>5, SecretsApart
<1> QED
  BY <1>1, AlwaysInv, PTL
-----------------------------------------------------------------------------
(* Time codes. *)

\* Where a call of the barrier is, and what it has measured: never less than the
\* computation took.
RunInv ==
  /\ clock \in Nat
  /\ \/ run = Idle
     \/ \E timeout \in Nat, start \in 0 .. clock :
          run = [at |-> "computing", timeout |-> timeout, start |-> start]
     \/ \E timeout \in Nat, start \in Nat, ended \in Nat :
          /\ ended \in start .. clock
          /\ run = [at |-> "computed", timeout |-> timeout, start |-> start, ended |-> ended]
     \/ \E timeout \in Nat, start \in Nat, ended \in Nat, duration \in Nat :
          /\ ended - start <= duration
          /\ run = [at |-> "measured", timeout |-> timeout, start |-> start, ended |-> ended,
                    duration |-> duration]
     \/ \E timeout \in Nat, start \in Nat, ended \in Nat : \E result :
          /\ result # Empty => ended - start <= timeout
          /\ result = memory
          /\ run = [at |-> "returned", timeout |-> timeout, start |-> start, ended |-> ended,
                    result |-> result]

\* A step of the barrier measures no less than passed, and keeps what was in time.
LEMMA RunStep == RunInv /\ [TimeCodeNext]_timeCodeVars => RunInv'
<1> SUFFICES ASSUME RunInv, [TimeCodeNext]_timeCodeVars PROVE RunInv'
  OBVIOUS
<1>1. CASE StartRun
  <2>1. PICK timeout \in Timeouts :
          run' = [at |-> "computing", timeout |-> timeout, start |-> clock]
    BY <1>1 DEF StartRun
  <2>2. timeout \in Nat /\ clock' = clock /\ clock \in 0 .. clock
    BY <1>1, TimeCodeAssumption DEF StartRun, RunInv
  <2> QED
    BY <2>1, <2>2 DEF RunInv
<1>2. CASE Compute
  <2>1. PICK timeout \in Nat, start \in 0 .. clock :
          run = [at |-> "computing", timeout |-> timeout, start |-> start]
    BY <1>2 DEF Compute, RunInv, Idle
  <2>2. /\ run' = [at |-> "computed", timeout |-> timeout, start |-> start, ended |-> clock]
        /\ clock' = clock
    BY <1>2, <2>1 DEF Compute
  <2>3. clock \in start .. clock /\ start \in Nat /\ clock \in Nat
    BY <2>1 DEF RunInv
  <2> QED
    BY <2>2, <2>3 DEF RunInv
<1>3. CASE Measure
  <2>1. PICK timeout \in Nat, start \in Nat, ended \in Nat :
          /\ ended \in start .. clock
          /\ run = [at |-> "computed", timeout |-> timeout, start |-> start, ended |-> ended]
    BY <1>3 DEF Measure, RunInv, Idle
  <2>2. /\ run' = [at |-> "measured", timeout |-> timeout, start |-> start, ended |-> ended,
                   duration |-> clock - start]
        /\ clock' = clock
    BY <1>3, <2>1 DEF Measure, Elapsed
  <2>3. clock \in Nat /\ clock - start \in Nat /\ ended \in Nat /\ ended - start <= clock - start
    BY <2>1 DEF RunInv
  <2> QED
    BY <2>2, <2>3 DEF RunInv
<1>4. CASE Decide
  <2>1. PICK timeout \in Nat, start \in Nat, ended \in Nat, duration \in Nat :
          /\ ended - start <= duration
          /\ run = [at |-> "measured", timeout |-> timeout, start |-> start, ended |-> ended,
                    duration |-> duration]
    BY <1>4 DEF Decide, RunInv, Idle
  <2> PICK result : result = IF duration > timeout THEN Empty ELSE memory
    OBVIOUS
  <2>2. /\ run' = [at |-> "returned", timeout |-> timeout, start |-> start, ended |-> ended,
                   result |-> result]
        /\ memory' = result /\ clock' = clock
    BY <1>4, <2>1 DEF Decide
  <2>3. result # Empty => ended - start <= timeout
    BY <2>1
  <2>4. clock \in Nat
    BY DEF RunInv
  <2> QED
    BY <2>2, <2>3, <2>4 DEF RunInv
<1>5. CASE Tick
  <2>1. clock' = clock + 1 /\ run' = run /\ memory' = memory /\ clock \in Nat
    BY <1>5 DEF Tick, RunInv
  <2>2. clock' \in Nat /\ \A start : start \in 0 .. clock => start \in 0 .. clock'
    BY <2>1
  <2>3. \A start \in Nat : \A ended : ended \in start .. clock => ended \in start .. clock'
    BY <2>1
  <2> QED
    BY <2>1, <2>2, <2>3 DEF RunInv
<1>6. CASE UNCHANGED barrierVars
  BY <1>6 DEF barrierVars, RunInv, Idle
<1> QED
  BY <1>1, <1>2, <1>3, <1>4, <1>5, <1>6
     DEF TimeCodeNext, timeCodeVars, StartForgery, Query, Submit, StartSecrecy, Choose, Guess

\* A secret leaves the barrier only if it was computed in time, for every timeout
\* and every suspension of the process.
THEOREM BarrierCorrect == TimeCodeSpec => []LateIsDropped
<1>1. TimeCodeInit => RunInv
  BY DEF TimeCodeInit, RunInv
<1>2. RunInv => LateIsDropped
  <2> SUFFICES ASSUME RunInv, run.at = "returned"
               PROVE  /\ run.result # Empty => run.ended - run.start <= run.timeout
                      /\ run.result = memory
    BY DEF LateIsDropped
  <2>1. PICK timeout, start, ended, result :
          /\ result # Empty => ended - start <= timeout
          /\ result = memory
          /\ run = [at |-> "returned", timeout |-> timeout, start |-> start, ended |-> ended,
                    result |-> result]
    BY DEF RunInv, Idle
  <2> QED
    BY <2>1
<1> QED
  BY <1>1, <1>2, RunStep, PTL DEF TimeCodeSpec

\* What the adversary knows beyond what it knew before the game: what the oracle
\* was asked, the code of the current time, and in the end the challenge.
GameInv ==
  \/ game = NoGame
  \/ \E before, queried :
       /\ queried \subseteq Timestamps
       /\ known \subseteq before \cup {Code(t) : t \in queried}
       /\ game = [name |-> "forging", before |-> before, queried |-> queried]
  \/ \E before, t, sig, won :
       /\ won => sig \in before
       /\ game = [name |-> "forged", before |-> before, t |-> t, sig |-> sig, won |-> won]
  \/ \E before : \E currentT \in Timestamps :
       /\ known \subseteq before \cup {Code(currentT)}
       /\ game = [name |-> "choosing", before |-> before, currentT |-> currentT]
  \/ game = [name |-> "refused"]
  \/ \E before, b, shown, challenge :
       /\ challenge \in shown => challenge \in before
       /\ game = [name |-> "challenged", before |-> before, b |-> b, shown |-> shown,
                  challenge |-> challenge]
  \/ \E before, b, shown, challenge, won :
       /\ challenge \in shown => challenge \in before
       /\ game = [name |-> "guessed", before |-> before, b |-> b, shown |-> shown,
                  challenge |-> challenge, won |-> won]

\* The code of one timestamp is no other's, and nobody's guess.
LEMMA CodesApart ==
  /\ \A t, u : Code(t) = Code(u) => t = u
  /\ \A t : Code(t) # Random
BY DEF Code, Random

\* In a step of a game the adversary learns what the game says, and no more.
LEMMA GameStep == GameInv /\ [TimeCodeNext]_timeCodeVars => GameInv'
<1> SUFFICES ASSUME GameInv, [TimeCodeNext]_timeCodeVars PROVE GameInv'
  OBVIOUS
<1>1. CASE StartForgery
  <2>1. /\ game' = [name |-> "forging", before |-> known, queried |-> {}]
        /\ known' \subseteq known \cup {Code(t) : t \in {}}
    BY <1>1 DEF StartForgery
  <2> QED
    BY <2>1 DEF GameInv
<1>2. CASE Query
  <2>1. PICK before, queried :
          /\ queried \subseteq Timestamps
          /\ known \subseteq before \cup {Code(t) : t \in queried}
          /\ game = [name |-> "forging", before |-> before, queried |-> queried]
    BY <1>2 DEF Query, GameInv, NoGame
  <2>2. PICK t \in Timestamps : /\ game' = [game EXCEPT !.queried = Logged(@, t)]
                                /\ known' = known \cup {Code(t)}
    BY <1>2 DEF Query
  <2> DEFINE more == queried \cup {t}
  <2>3. /\ game' = [name |-> "forging", before |-> before, queried |-> more]
        /\ more \subseteq Timestamps
        /\ known' \subseteq before \cup {Code(u) : u \in more}
    BY <2>1, <2>2 DEF Logged
  <2> HIDE DEF more
  <2> QED
    BY <2>3 DEF GameInv
<1>3. CASE Submit
  <2>1. PICK before, queried :
          /\ known \subseteq before \cup {Code(t) : t \in queried}
          /\ game = [name |-> "forging", before |-> before, queried |-> queried]
    BY <1>3 DEF Submit, GameInv, NoGame
  <2>2. PICK t \in Timestamps, sig \in known \cup {Random} :
          game' = [name |-> "forged", before |-> before, t |-> t, sig |-> sig,
                   won |-> t \notin queried /\ sig = Code(t)]
    BY <1>3, <2>1 DEF Submit
  <2>3. ASSUME t \notin queried, sig = Code(t) PROVE sig \in before
    <3>1. sig # Random /\ \A u \in queried : sig # Code(u)
      BY <2>3, CodesApart
    <3> QED
      BY <2>1, <3>1
  <2> PICK won : won = (t \notin queried /\ sig = Code(t))
    OBVIOUS
  <2> QED
    BY <2>2, <2>3 DEF GameInv
<1>4. CASE StartSecrecy
  <2>1. PICK currentT \in Timestamps :
          /\ game' = [name |-> "choosing", before |-> known, currentT |-> currentT]
          /\ known' = known \cup {Code(currentT)}
    BY <1>4 DEF StartSecrecy
  <2> QED
    BY <2>1 DEF GameInv
<1>5. CASE Choose
  <2>1. PICK before : \E currentT \in Timestamps :
          /\ known \subseteq before \cup {Code(currentT)}
          /\ game = [name |-> "choosing", before |-> before, currentT |-> currentT]
    BY <1>5 DEF Choose, GameInv, NoGame
  <2>2. PICK currentT \in Timestamps :
          /\ known \subseteq before \cup {Code(currentT)}
          /\ game = [name |-> "choosing", before |-> before, currentT |-> currentT]
    BY <2>1
  <2>3. PICK t \in Timestamps, b \in BOOLEAN :
          game' = IF OutOfBounds(t, currentT) THEN [name |-> "refused"]
                  ELSE [name |-> "challenged", before |-> before, b |-> b,
                        shown |-> known, challenge |-> IF b THEN Random ELSE Code(t)]
    BY <1>5, <2>2 DEF Choose
  <2>4. CASE OutOfBounds(t, currentT)
    BY <2>3, <2>4 DEF GameInv
  <2>5. CASE ~OutOfBounds(t, currentT)
    <3> PICK challenge : challenge = IF b THEN Random ELSE Code(t)
      OBVIOUS
    <3>1. t # currentT
      BY <2>5, TimeCodeAssumption, SMT DEF OutOfBounds
    <3>2. challenge # Code(currentT)
      BY <3>1, CodesApart
    <3>3. challenge \in known => challenge \in before
      BY <2>2, <3>2
    <3>4. game' = [name |-> "challenged", before |-> before, b |-> b,
                   shown |-> known, challenge |-> challenge]
      BY <2>3, <2>5
    <3> QED
      BY <3>3, <3>4 DEF GameInv
  <2> QED
    BY <2>4, <2>5
<1>6. CASE Guess
  <2>1. PICK before, b, shown, challenge :
          /\ challenge \in shown => challenge \in before
          /\ game = [name |-> "challenged", before |-> before, b |-> b, shown |-> shown,
                     challenge |-> challenge]
    BY <1>6 DEF Guess, GameInv, NoGame
  <2>2. PICK c \in BOOLEAN :
          game' = [name |-> "guessed", before |-> before, b |-> b, shown |-> shown,
                   challenge |-> challenge, won |-> c = b]
    BY <1>6, <2>1 DEF Guess
  <2> QED
    BY <2>1, <2>2 DEF GameInv
<1>7. CASE UNCHANGED gameVars
  BY <1>7 DEF gameVars, GameInv, NoGame
<1> QED
  BY <1>1, <1>2, <1>3, <1>4, <1>5, <1>6, <1>7
     DEF TimeCodeNext, timeCodeVars, StartRun, Compute, Measure, Decide, Tick

\* Nothing the oracle says in a game wins that game, in however many games and
\* whatever order it is asked.
THEOREM ForgeryCorrect == TimeCodeSpec => []WinsOnlyWithOldCode
<1>1. TimeCodeInit => GameInv
  BY DEF TimeCodeInit, GameInv
<1>2. GameInv => WinsOnlyWithOldCode
  <2> SUFFICES ASSUME GameInv, game.name = "forged", game.won PROVE game.sig \in game.before
    BY DEF WinsOnlyWithOldCode
  <2>1. PICK before, t, sig, won :
          /\ won => sig \in before
          /\ game = [name |-> "forged", before |-> before, t |-> t, sig |-> sig, won |-> won]
    BY DEF GameInv, NoGame
  <2> QED
    BY <2>1
<1> QED
  BY <1>1, <1>2, GameStep, PTL DEF TimeCodeSpec

\* A true challenge is recognised only by who knew it before the game.
THEOREM ChallengeCorrect == TimeCodeSpec => []ChallengeIsNotShown
<1>1. TimeCodeInit => GameInv
  BY DEF TimeCodeInit, GameInv
<1>2. GameInv => ChallengeIsNotShown
  <2> SUFFICES ASSUME GameInv, game.name \in {"challenged", "guessed"},
                      game.challenge \in game.shown
               PROVE  game.challenge \in game.before
    BY DEF ChallengeIsNotShown
  <2> QED
    BY DEF GameInv, NoGame
<1> QED
  BY <1>1, <1>2, GameStep, PTL DEF TimeCodeSpec
=============================================================================
