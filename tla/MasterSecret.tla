--------------------------- MODULE MasterSecret ---------------------------
(***************************************************************************)
(* The master secret of src/security/witness.rs and how a process comes to *)
(* hold it: derived from the user's factors, unsealed with a device key, or *)
(* recovered from shares.  A process that ends loses it; what was sealed   *)
(* and what was handed out as shares stays.                                *)
(*                                                                         *)
(* The cryptography is symbolic: Argon2id, HMAC and AES-GCM give equal     *)
(* results for equal inputs only, and a 32-byte value is the set of atoms  *)
(* whose XOR it is.  A call that returns an Err changes nothing and is not *)
(* a step.                                                                 *)
(***************************************************************************)
EXTENDS Integers, Sequences, FiniteSets

CONSTANTS
  Logins,       \* what users type: records [input, mode], see below
  Devices,      \* device keys
  Sharings,     \* the pairs <<threshold, shares>> split is called with
  MaxCopies     \* bound: sealed copies and splits there are

Modes == {"Authentic", "Duress"}

None == [key |-> [ikm |-> {}, domain |-> "none"], mode |-> "none"]   \* no master secret in memory

\* XOR of 32-byte values.
Xor(x, y) == (x \ y) \cup (y \ x)

\* The panic suffix changes the password and nothing else.
DeriveDuressInput(input, suffix) == [input EXCEPT !.password = @ \o suffix]

\* An absent token or biometric hash leaves the sum as it is, like {}.  The salt
\* is also that of the HMACs that follow, which adds nothing to a sum it is in.
Combined(input) ==
  Xor(Xor({<<"argon2id", input.password, input.salt>>}, input.hardwareToken),
      input.biometricHash)

\* Slips of the code that the properties must notice; no specification uses
\* them.
KeyOfFactors(input, mode) == [ikm |-> Combined(input), domain |-> "MASTER"]
CommittedToAny(value, commitment) == TRUE

MasterKey(input, mode) == [ikm |-> Combined(input), domain |-> mode]

-----------------------------------------------------------------------------
VARIABLES
  secret,   \* the MasterSecret in memory
  sealed,   \* the SealedMasterSecrets at rest
  splits    \* the calls of split: the key shared, the threshold, the shares

secretVars == <<secret, sealed, splits>>

\* Shares of a split, told apart by their index.
Shares ==
  UNION {[split : {i}, index : 1 .. splits[i].shares] : i \in DOMAIN splits}

\* What interpolation makes of a set of shares: the key, when they are enough
\* shares of one split, and some other value otherwise.  (Shamir models it in
\* the field itself.)
Interpolated(S) ==
  IF \E i \in DOMAIN splits :
       /\ \A s \in S : s.split = i
       /\ Cardinality(S) >= splits[i].threshold
  THEN splits[(CHOOSE s \in S : TRUE).split].key
  ELSE [ikm |-> {<<"share", s.split, s.index>> : s \in S}, domain |-> "interpolated"]

\* The commitment of a split is the hash of its key.
Committed(value, commitment) == value = commitment

SecretInit == secret = None /\ sealed = {} /\ splits = << >>

Derive ==
  /\ secret = None
  /\ \E l \in Logins : secret' = [key |-> MasterKey(l.input, l.mode), mode |-> l.mode]
  /\ UNCHANGED <<sealed, splits>>

Split ==
  /\ secret # None
  /\ Cardinality(sealed) + Len(splits) < MaxCopies
  /\ \E p \in Sharings :
       /\ p[1] >= 2 /\ p[2] >= p[1] /\ p[2] <= 255
       /\ splits' = Append(splits,
            [key |-> secret.key, threshold |-> p[1], shares |-> p[2]])
  /\ UNCHANGED <<secret, sealed>>

\* The caller brings shares, a commitment and a mode: nothing in a share says
\* which mode the key was derived for.
Recover ==
  /\ secret = None
  /\ \E S \in SUBSET Shares : \E c \in DOMAIN splits : \E m \in Modes :
       /\ S # {}
       /\ \A s, t \in S : s.index = t.index => s = t
       /\ Committed(Interpolated(S), splits[c].key)
       /\ secret' = [key |-> Interpolated(S), mode |-> m]
  /\ UNCHANGED <<sealed, splits>>

Seal ==
  /\ secret # None
  /\ Cardinality(sealed) + Len(splits) < MaxCopies
  /\ \E d \in Devices :
       sealed' = sealed \cup {[plaintext |-> secret.key, under |-> d, mode |-> secret.mode]}
  /\ UNCHANGED <<secret, splits>>

Unseal ==
  /\ secret = None
  /\ \E b \in sealed : \E d \in Devices :
       /\ b.under = d
       /\ secret' = [key |-> b.plaintext, mode |-> b.mode]
  /\ UNCHANGED <<sealed, splits>>

\* The secret is dropped and zeroized, or the process ends.
Lose ==
  /\ secret # None
  /\ secret' = None
  /\ UNCHANGED <<sealed, splits>>

SecretStep == Derive \/ Split \/ Recover \/ Seal \/ Unseal
=============================================================================
