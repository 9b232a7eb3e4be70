------------------------------ MODULE Envelope ------------------------------
(***************************************************************************)
(* Envelopes (src/framework.rs, and the key and the payload of             *)
(* src/crypto/clock.rs): anybody seals a text for the holder of a key, and *)
(* a holder opens what arrives.  Of an envelope only the two ciphertexts   *)
(* travel inside the packet; the session, the nonce and the associated     *)
(* data reach the receiver some other way, so that parts of different      *)
(* envelopes arrive together, late, in another order or again.             *)
(*                                                                         *)
(* Kyber, SHA-256 and AES-GCM are symbolic: an encapsulation makes a fresh *)
(* secret, a decapsulation with another key gives an unrelated one, and a  *)
(* payload decrypts only under what it was encrypted with.  What the clock *)
(* derivation computes between the two hashes is in module Clock.          *)
(***************************************************************************)
EXTENDS Naturals, Sequences

CONSTANTS
  Sessions,    \* session ids, byte strings
  Nonces,      \* chosen by the caller, who may choose one again
  Data,        \* associated data
  Texts,
  MaxKeys,     \* bound: key pairs generated
  MaxSealed    \* bound: envelopes sealed

ASSUME EnvelopeAssumption == Sessions \subseteq Seq(Nat)

VARIABLES
  keys,      \* the number of key pairs generated; a key pair is its number
  sealed,    \* the envelopes sealed, with what they were sealed for
  opening    \* the last call of full_decrypt and its result

vars == <<keys, sealed, opening>>

Ok(text) == [ok |-> TRUE, text |-> text]
Err      == [ok |-> FALSE]

\* Kyber: the number of an encapsulation stands for the randomness it used.
Encapsulate(key, number) ==
  [ciphertext |-> [to |-> key, number |-> number], secret |-> <<"shared", key, number>>]
Decapsulate(ciphertext, key) ==
  IF ciphertext.to = key THEN <<"shared", key, ciphertext.number>>
  ELSE <<"rejected", key, ciphertext.to, ciphertext.number>>

\* Slips of the code that the properties must notice; no specification uses
\* them.
SeedOfSecret(shared, session)  == <<shared, 0>>
SeedOfSession(shared, session) == <<0>> \o session

\* The shared secret has a fixed width, and is one element here.
CombineSeed(shared, session) == <<shared, 0>> \o session

DeriveKeyFromClock(seed) == [clock |-> seed]

EncryptPayload(key, nonce, text, data) == [key |-> key, nonce |-> nonce, data |-> data, text |-> text]
DecryptPayload(key, nonce, aes, data) ==
  IF aes.key = key /\ aes.nonce = nonce /\ aes.data = data THEN Ok(aes.text) ELSE Err

\* A receiver who leaves the session out; another slip.
OpenWithoutSession(key, kyber, aes, session, nonce, data) ==
  DecryptPayload(DeriveKeyFromClock(SeedOfSecret(Decapsulate(kyber, key), session)),
                 nonce, aes, data)

\* The result of full_decrypt.
FullDecrypt(key, kyber, aes, session, nonce, data) ==
  DecryptPayload(DeriveKeyFromClock(CombineSeed(Decapsulate(kyber, key), session)),
                 nonce, aes, data)

-----------------------------------------------------------------------------
Init == keys = 0 /\ sealed = << >> /\ opening = [op |-> "none"]

Keygen ==
  /\ keys < MaxKeys
  /\ keys' = keys + 1
  /\ UNCHANGED <<sealed, opening>>

Seal ==
  /\ Len(sealed) < MaxSealed
  /\ \E key \in 1 .. keys, session \in Sessions, nonce \in Nonces, data \in Data, text \in Texts :
       LET kem == Encapsulate(key, Len(sealed) + 1)
           k   == DeriveKeyFromClock(CombineSeed(kem.secret, session))
       IN  sealed' = Append(sealed,
             [key |-> key, session |-> session, nonce |-> nonce, data |-> data, text |-> text,
              kyber |-> kem.ciphertext, aes |-> EncryptPayload(k, nonce, text, data)])
  /\ UNCHANGED <<keys, opening>>

\* A holder puts together what has arrived, with any key of theirs.
Open ==
  \E key \in 1 .. keys, i, j \in 1 .. Len(sealed),
     session \in Sessions, nonce \in Nonces, data \in Data :
    /\ opening' = [op |-> "open", key |-> key, kyber |-> sealed[i].kyber, aes |-> sealed[j].aes,
                   session |-> session, nonce |-> nonce, data |-> data,
                   result |-> FullDecrypt(key, sealed[i].kyber, sealed[j].aes, session, nonce, data)]
    /\ UNCHANGED <<keys, sealed>>

Next == Keygen \/ Seal \/ Open

Spec == Init /\ [][Next]_vars

-----------------------------------------------------------------------------
\* What is opened was sealed, as it is: for this key and session, with this nonce
\* and data, and with both ciphertexts from the same call.
OpenedWasSealed ==
  opening.op = "open" /\ opening.result.ok =>
    \E i \in 1 .. Len(sealed) :
      sealed[i] = [key |-> opening.key, session |-> opening.session, nonce |-> opening.nonce,
                   data |-> opening.data, text |-> opening.result.text,
                   kyber |-> opening.kyber, aes |-> opening.aes]

\* An envelope that arrives whole opens to its text, however many keys were made
\* and envelopes sealed since, and whether or not it was opened before.
WholeIsOpened ==
  \A i \in 1 .. Len(sealed) :
    LET e == sealed[i]
    IN  FullDecrypt(e.key, e.kyber, e.aes, e.session, e.nonce, e.data) = Ok(e.text)

\* A caller who repeats a nonce, even for the same holder and session, never meets
\* the key it was used with before.
NonceOncePerKey ==
  \A i, j \in 1 .. Len(sealed) :
    sealed[i].aes.key = sealed[j].aes.key /\ sealed[i].aes.nonce = sealed[j].aes.nonce => i = j
=============================================================================
