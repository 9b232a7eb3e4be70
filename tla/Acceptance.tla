----------------------------- MODULE Acceptance -----------------------------
(***************************************************************************)
(* The acceptance tree (src/security/merkle.rs): whoever holds a list of   *)
(* chains commits to it with one hash, and shows later that a chain was    *)
(* among them.  Lists change, so that trees, proofs and roots of different *)
(* lists are about at the same time.                                       *)
(*                                                                         *)
(* A hash is the tuple of what was hashed.  The repository has no function *)
(* that makes a proof; the prover here reads the siblings off the tree.    *)
(***************************************************************************)
EXTENDS Naturals, Sequences, FiniteSets, Functions

CONSTANTS
  Chains,
  Lists,        \* the lists of chains that are committed to
  Params,       \* the values of k_param
  LeftFlag,     \* the prover's flag for a node that is a left child: TRUE to be
                \* accepted, and not the FALSE that merkle.rs:13 documents
  MaxTrees      \* bound: trees built

ASSUME AcceptanceAssumption ==
  /\ Lists \subseteq Seq(Chains)
  /\ Params \subseteq Nat
  /\ LeftFlag \in BOOLEAN

VARIABLES
  build,     \* the call of build_k_acceptance_root, with the levels so far
  trees,     \* what was built, from the leaves to the root
  proof,     \* the proof the prover makes, and for whom
  check      \* the call of verify_k_acceptance_proof

vars == <<build, trees, proof, check>>

\* Slips of the code that the properties must notice; no specification uses
\* them.
UnorderedHash(left, right) == <<"node", {left, right}>>
LastLeafAgain(list, k) ==
  [i \in 1 .. k |-> <<"leaf", list[IF i <= Len(list) THEN i ELSE Len(list)]>>]
OddNodeAlone(level) ==
  [j \in 1 .. (Len(level) + 1) \div 2 |->
     IF 2 * j <= Len(level) THEN <<"node", level[2 * j - 1], level[2 * j]>> ELSE level[2 * j - 1]]

HashPair(left, right) == <<"node", left, right>>
HashMrsChain(chain)   == <<"leaf", chain>>
Zeros                 == <<"zeros">>

TreeLeaves(list, k) ==
  [i \in 1 .. k |-> IF i <= Len(list) THEN HashMrsChain(list[i]) ELSE Zeros]

\* An odd node at the end is hashed with itself.
NextLevel(level) ==
  [j \in 1 .. (Len(level) + 1) \div 2 |->
     HashPair(level[2 * j - 1], level[IF 2 * j <= Len(level) THEN 2 * j ELSE 2 * j - 1])]

\* A flag says on which side the current hash goes.
HashWithSibling(current, sibling, flag) ==
  IF flag THEN HashPair(current, sibling) ELSE HashPair(sibling, current)

\* Where the prover finds the sibling of the i-th node: an odd one at the end is
\* its own.
IsLeft(i) == i % 2 = 1
Sibling(level, i) == IF ~IsLeft(i) THEN i - 1 ELSE IF i < Len(level) THEN i + 1 ELSE i

Top(levels) == levels[Len(levels)]
Root(tree)  == Top(tree.levels)[1]

\* Every hash somebody could show: of a chain, of the padding, of any node.
Hashes ==
  {HashMrsChain(c) : c \in Chains} \cup {Zeros}
    \cup UNION {UNION {Range(t.levels[h]) : h \in DOMAIN t.levels} : t \in trees}

-----------------------------------------------------------------------------
Idle == [op |-> "idle"]

Init == build = Idle /\ trees = {} /\ proof = Idle /\ check = Idle

\* An empty list, or one longer than k, has no root.
Build ==
  /\ build = Idle /\ Cardinality(trees) < MaxTrees
  /\ \E list \in Lists, k \in Params :
       /\ list # << >> /\ Len(list) <= k
       /\ build' = [op |-> "build", k |-> k, list |-> list, levels |-> <<TreeLeaves(list, k)>>]
  /\ UNCHANGED <<trees, proof, check>>

BuildLevel ==
  /\ build.op = "build" /\ Len(Top(build.levels)) > 1
  /\ build' = [build EXCEPT !.levels = Append(@, NextLevel(Top(@)))]
  /\ UNCHANGED <<trees, proof, check>>

BuildReturn ==
  /\ build.op = "build" /\ Len(Top(build.levels)) <= 1
  /\ trees' = trees \cup {build}
  /\ build' = Idle
  /\ UNCHANGED <<proof, check>>

\* The prover starts with the node of one leaf ...
Prove ==
  /\ proof = Idle
  /\ \E t \in trees : \E i \in 1 .. t.k :
       proof' = [op |-> "prove", tree |-> t, at |-> <<i>>, path |-> << >>, flags |-> << >>]
  /\ UNCHANGED <<build, trees, check>>

\* ... and writes down its sibling and its side, level by level.
ProveLevel ==
  LET i     == proof.at[Len(proof.at)]
      level == proof.tree.levels[Len(proof.at)]
  IN
  /\ proof.op = "prove" /\ check = Idle
  /\ Len(level) > 1
  /\ proof' = [proof EXCEPT !.at    = Append(@, (i + 1) \div 2),
                            !.path  = Append(@, level[Sibling(level, i)]),
                            !.flags = Append(@, IsLeft(i) = LeftFlag)]
  /\ UNCHANGED <<build, trees, check>>

Complete == Len(proof.path) = Len(proof.tree.levels) - 1

\* The proof, perhaps cut at either end, reaches somebody who holds a root, perhaps
\* that of an older or a newer tree, with any hash in the place of the leaf: neither
\* what it is the hash of nor how long the proof is gets tested.  (Flags missing
\* at the end cut the proof too: zip stops with the shorter of the two.)
Verify ==
  /\ check = Idle /\ proof # Idle
  /\ \E t \in trees, leaf \in Hashes, from \in 0 .. Len(proof.path) :
       check' = [op |-> "verify", tree |-> t, leaf |-> leaf, from |-> from,
                 current |-> leaf, steps |-> from]
  /\ UNCHANGED <<build, trees, proof>>

VerifyLevel ==
  LET s == check.steps + 1
  IN
  /\ check.op = "verify" /\ check.steps < Len(proof.path)
  /\ check' = [check EXCEPT !.steps = s,
                            !.current = HashWithSibling(@, proof.path[s], proof.flags[s])]
  /\ UNCHANGED <<build, trees, proof>>

Verified == check.op = "verify" /\ check.steps = Len(proof.path)
Accepted == Verified /\ check.current = Root(check.tree)

VerifyReturn ==
  /\ Verified
  /\ check' = Idle /\ proof' = Idle
  /\ UNCHANGED <<build, trees>>

Next ==
  \/ Build \/ BuildLevel \/ BuildReturn
  \/ Prove \/ ProveLevel
  \/ Verify \/ VerifyLevel \/ VerifyReturn

Spec == Init /\ [][Next]_vars

-----------------------------------------------------------------------------
\* Whatever the length of the list and k, with padding and odd levels, the proof
\* made for a leaf is accepted for that leaf under the root of its tree; and what is
\* left of it above a node on its way, for that node.
EveryLeafIsAccepted ==
  Verified /\ Complete /\ check.tree = proof.tree
    /\ check.leaf = proof.tree.levels[check.from + 1][proof.at[check.from + 1]]
    => Accepted

\* What is accepted is a hash of the tree, as far below the root as the proof has
\* steps: a leaf if it has as many as the tree has levels to climb, an inner node
\* if fewer (the root itself if none), never one with more.  When the list has
\* changed since, a proof is worth something only for a hash that is still where
\* it was.
AcceptedIsInItsSlot ==
  Accepted =>
    LET levels == check.tree.levels
        height == Len(levels) - (check.steps - check.from)
    IN  /\ height >= 1
        /\ \E i \in DOMAIN levels[height] : levels[height][i] = check.leaf
        /\ check.tree.k = proof.tree.k /\ Complete =>
             levels[height][proof.at[check.from + 1]] = check.leaf

\* With one k no two lists have the same root, although short lists are padded
\* and odd nodes are doubled.
RootBindsList ==
  \A t, u \in trees : t.k = u.k /\ Root(t) = Root(u) => t.list = u.list
=============================================================================
