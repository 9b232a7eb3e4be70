------------------------------ MODULE Witness ------------------------------
(***************************************************************************)
(* Authentic witnesses and alibis (src/security/witness.rs): a process     *)
(* that holds a master secret generates witnesses bound to an identity and *)
(* a session; anybody generates alibis from the public witness space.      *)
(*                                                                         *)
(* Both loops draw chains from the three-layer sampler.  What a draw can   *)
(* give is what WitnessDraw promises and Sampler implements: a chain of    *)
(* the root, or the zero chain and a cleared bit.  For a witness the draw  *)
(* is a function of the seed, which `draws' remembers: drawn once, the     *)
(* same seed gives the same chain ever after, in this process or the next. *)
(***************************************************************************)
EXTENDS MasterSecret, Chains

CONSTANTS
  Word,           \* 2^64 in the code
  Chainsets,      \* [root |-> the chains the sampler can draw for it]
  Spaces,         \* the WitnessSpaces, [rootN, depth]
  Requests,       \* the pairs <<identity, session>>, two byte strings each
  LenWord,        \* 2^32 in the code, the lengths a header can hold
  MaxAttempts,    \* 512 in the code
  MaxSeeds,       \* bound: seeds drawn from when a witness is asked for
  MaxAlibis       \* bound: alibis handed out

ASSUME WitnessAssumption ==
  /\ Word \in Nat \ {0} /\ LenWord \in Nat \ {0}
  /\ MaxAttempts \in Nat
  /\ Spaces \subseteq [rootN : 0 .. Word - 1, depth : Nat]
  /\ \A s \in Spaces : s.rootN \in DOMAIN Chainsets
  /\ \A n \in DOMAIN Chainsets :
       \A c \in Chainsets[n] : c \in Seq([a : Nat, b : Nat]) /\ IsChain(n, c)
  /\ Requests \subseteq Seq(Nat) \X Seq(Nat)

VARIABLES
  call,      \* the generator running, Idle when none is
  draws,     \* what the sampler drew for each seed and root used so far
  issued,    \* the witnesses handed out, and what they were asked for
  alibis     \* the alibis handed out, each with the witness it replaces

vars == <<secret, sealed, splits, call, draws, issued, alibis>>

NoChain == <<Zero, Zero, Zero>>
\* What sample_three_layers_safe_raw can give for a root.
Draws(n) == {[chain |-> NoChain, valid |-> FALSE]}
              \cup [chain : Chainsets[n], valid : {TRUE}]

NoTag     == [mac |-> "zeros"]
RandomTag == [mac |-> "fill_bytes"]

\* Slips of the code that the properties must notice; no specification uses
\* them.
Unframed(identity, session) == identity \o session

\* Two byte strings in a row, each after its length.  The length is cast to
\* u32: of a text of 4 GiB or more the header holds what is left of it.
Header(s) == <<Len(s) % LenWord>>
Framed(identity, session) == Header(identity) \o identity \o Header(session) \o session

SeedOfMode(identity, session, attempt) ==
  [key |-> secret, text |-> Framed(identity, session), attempt |-> attempt]
LatestTagOf(old, new, choice) == new
TakeEvery(ok) == ok
ChainsAgree(c, d) == c = d
FinishedWhenFound == call.attempt = MaxAttempts /\ call.found

DeriveSeed(identity, session, attempt) ==
  [key |-> secret.key, text |-> Framed(identity, session), attempt |-> attempt]

ComputeBindingTag(key, identity, session, chain) ==
  [mac |-> "bind", key |-> key, text |-> Framed(identity, session), hash |-> chain]

VerifyAuthenticity(key, w, identity) ==
  IF w.bindingTag = ComputeBindingTag(key, identity, w.sessionId, w.chain)
  THEN "Authentic" ELSE "BindingMismatch"

\* The equation is tested in wrapping arithmetic, layer by layer.
VerifyMembership(space, c) ==
  LET n(i) == IF i = 1 THEN space.rootN ELSE c[i - 1].a
  IN  /\ Len(c) = space.depth
      /\ \A i \in 1 .. Len(c) :
           /\ (19 * c[i].a + 9 * c[i].b) % Word = n(i)
           /\ ~(c[i] = Zero /\ n(i) > 0)

ChainsDiffer(c, d) == c # d
SelectBytes32(old, new, choice) == IF choice THEN new ELSE old

\* take_this
TakeThis(ok) == ok /\ ~call.found

-----------------------------------------------------------------------------
Idle == [op |-> "idle"]

Start(op, space, identity, session, of) ==
  [op |-> op, space |-> space, identity |-> identity, session |-> session, of |-> of,
   attempt |-> 0, chain |-> NoChain, tag |-> NoTag, found |-> FALSE]

MoreAttempts == call.attempt < MaxAttempts
Finished == call.attempt = MaxAttempts

Init ==
  /\ SecretInit
  /\ call = Idle /\ draws = << >> /\ issued = {} /\ alibis = {}

Generate ==
  /\ call = Idle /\ secret # None
  /\ Cardinality(DOMAIN draws) < MaxSeeds
  /\ \E s \in Spaces, r \in Requests : call' = Start("witness", s, r[1], r[2], {})
  /\ UNCHANGED <<secretVars, draws, issued, alibis>>

GenerateAlternative ==
  /\ call = Idle
  /\ Cardinality(alibis) < MaxAlibis
  /\ \E i \in issued : call' = Start("alibi", i.space, << >>, i.witness.sessionId, {i.witness})
  /\ UNCHANGED <<secretVars, draws, issued, alibis>>

\* The tail of an attempt, the same in both loops.
Consider(chain, ok, tag) ==
  call' = [call EXCEPT !.attempt = @ + 1,
                       !.chain = IF TakeThis(ok) THEN chain ELSE @,
                       !.tag   = SelectBytes32(@, tag, TakeThis(ok)),
                       !.found = @ \/ ok]

AttemptWitness ==
  LET n    == call.space.rootN
      seed == DeriveSeed(call.identity, call.session, call.attempt)
  IN
  /\ call.op = "witness" /\ MoreAttempts
  /\ \E d \in IF <<seed, n>> \in DOMAIN draws THEN {draws[<<seed, n>>]} ELSE Draws(n) :
       /\ draws' = [x \in DOMAIN draws \cup {<<seed, n>>} |->
                      IF x = <<seed, n>> THEN d ELSE draws[x]]
       /\ Consider(d.chain, d.valid /\ VerifyMembership(call.space, d.chain),
                   ComputeBindingTag(secret.key, call.identity, call.session, d.chain))
  /\ UNCHANGED <<secretVars, issued, alibis>>

AttemptAlibi ==
  /\ call.op = "alibi" /\ MoreAttempts
  /\ \E d \in Draws(call.space.rootN), w \in call.of :
       Consider(d.chain,
                d.valid /\ ChainsDiffer(d.chain, w.chain) /\ VerifyMembership(call.space, d.chain),
                RandomTag)
  /\ UNCHANGED <<secretVars, draws, issued, alibis>>

\* Some(witness), or None.
Return ==
  LET w == [chain |-> call.chain, bindingTag |-> call.tag, sessionId |-> call.session]
  IN
  /\ call # Idle /\ Finished
  /\ call' = Idle
  /\ issued' = IF call.op = "witness" /\ call.found
               THEN issued \cup {[witness |-> w, space |-> call.space, key |-> secret.key,
                                  identity |-> call.identity]}
               ELSE issued
  /\ alibis' = IF call.op = "alibi" /\ call.found
               THEN alibis \cup {[witness |-> w, space |-> call.space, of |-> v] : v \in call.of}
               ELSE alibis
  /\ UNCHANGED <<secretVars, draws>>

UseSecret ==
  /\ call = Idle
  /\ SecretStep
  /\ UNCHANGED <<call, draws, issued, alibis>>

\* The process may end at any point, in the middle of a generation too.
Stop ==
  /\ Lose
  /\ call' = Idle
  /\ UNCHANGED <<draws, issued, alibis>>

Attempt == AttemptWitness \/ AttemptAlibi
Next == Generate \/ GenerateAlternative \/ Attempt \/ Return \/ UseSecret \/ Stop

\* A generator that was called runs to its end; nobody has to call one.
Spec == Init /\ [][Next]_vars /\ WF_vars(Attempt \/ Return)

-----------------------------------------------------------------------------
\* Whatever was interpolated, unsealed or typed, a key in memory is one that a
\* user derived: a set of shares that does not fit is never taken for a key.
KeyWasDerived ==
  secret # None => secret.key \in {MasterKey(l.input, l.mode) : l \in Logins}

\* The tag handed out was computed for the chain handed out, for this request,
\* and the chain is in the witness space: both survive the attempts that come
\* after the one that was kept.
IssuedIsBoundMember ==
  \A i \in issued :
    /\ VerifyMembership(i.space, i.witness.chain)
    /\ VerifyAuthenticity(i.key, i.witness, i.identity) = "Authentic"

\* Generating again, after a restart and however the key came back, gives the
\* same witness.
RegenerationAgrees ==
  \A i, j \in issued :
    /\ i.key = j.key /\ i.identity = j.identity /\ i.space = j.space
    /\ i.witness.sessionId = j.witness.sessionId
    => i = j

\* A tag vouches for one request only: one identity, one session, one chain.
\* The identities have to be shorter than 4 GiB for it: a longer one can have
\* the header of a shorter one and be read as that one and a session.
TagOfOneRequest ==
  \A i, j \in issued :
    /\ i.witness.bindingTag = j.witness.bindingTag
    /\ Len(i.identity) < LenWord /\ Len(j.identity) < LenWord
    => /\ i.identity = j.identity /\ i.key = j.key
       /\ i.witness.sessionId = j.witness.sessionId /\ i.witness.chain = j.witness.chain

\* A witness is authentic to the logins of one user for one use, and to no
\* others: they derive the very key it was issued under, and there is such a
\* login however the key came to be in memory and whatever mode it was labelled
\* with.  The keys for authentic and for duress use stay apart even without a
\* panic suffix.
AuthenticToItsLogins ==
  \A i \in issued :
    LET accepting ==
          {l \in Logins :
             VerifyAuthenticity(MasterKey(l.input, l.mode), i.witness, i.identity) = "Authentic"}
    IN  /\ accepting # {}
        /\ \A l \in accepting : MasterKey(l.input, l.mode) = i.key
        /\ \A l, m \in accepting :
             l.mode = m.mode /\ Combined(l.input) = Combined(m.input)

\* An alibi is a member of the space its witness is a member of, differs from
\* it, and is authentic to no login.
AlibiStandsApart ==
  \A x \in alibis :
    /\ VerifyMembership(x.space, x.witness.chain)
    /\ x.witness.chain # x.of.chain
    /\ \A l \in Logins, r \in Requests :
         VerifyAuthenticity(MasterKey(l.input, l.mode), x.witness, r[1]) # "Authentic"

\* A witness is the first draw of its seeds that is a member, never a later one.
IssuedIsFirstDraw ==
  \A i \in issued : \E k \in 0 .. MaxAttempts - 1 :
    LET at(m) == <<[key |-> i.key, text |-> Framed(i.identity, i.witness.sessionId),
                    attempt |-> m], i.space.rootN>>
    IN  /\ at(k) \in DOMAIN draws /\ draws[at(k)].chain = i.witness.chain
        /\ \A m \in 0 .. k - 1 :
             at(m) \in DOMAIN draws /\ ~draws[at(m)].valid

\* The loops, restarts and recoveries implement the service: each call that returns
\* is one step of it.
Served(i) ==
  [request |-> <<i.key, i.identity, i.witness.sessionId, i.space>>, space |-> i.space,
   chain |-> i.witness.chain, tag |-> i.witness.bindingTag]
Stood(x) ==
  [space |-> x.space, chain |-> x.witness.chain, tag |-> x.witness.bindingTag,
   of |-> x.of.chain]

S == INSTANCE WitnessService WITH
  Member <- VerifyMembership,
  issued <- {Served(i) : i \in issued},
  alibis <- {Stood(x) : x \in alibis}

ImplementsService == S!Spec

\* Every generator that was called returns.
CallsReturn == call # Idle ~> call = Idle
=============================================================================
