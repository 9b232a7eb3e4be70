-------------------------- MODULE AcceptanceProofs --------------------------
(***************************************************************************)
(* What holds of acceptance trees of every width: the proof made for a     *)
(* leaf is accepted, and nothing but a node as far below the root as the   *)
(* proof has steps is.                                                     *)
(***************************************************************************)
EXTENDS Acceptance, WellFoundedInduction, TLAPS

-----------------------------------------------------------------------------
\* A sequence of anything.
IsSeq(s) == s \in Seq({s[i] : i \in DOMAIN s})

\* The tree as far as it was built.
Grown(levels, list, k) ==
  /\ k \in Nat \ {0} /\ IsSeq(levels) /\ Len(levels) >= 1
  /\ levels[1] = TreeLeaves(list, k)
  /\ \A j \in 1 .. Len(levels) : IsSeq(levels[j]) /\ Len(levels[j]) >= 1
  /\ \A j \in 1 .. Len(levels) - 1 : Len(levels[j]) > 1 /\ levels[j + 1] = NextLevel(levels[j])

Built(t) ==
  \E list, k, levels :
    t = [op |-> "build", k |-> k, list |-> list, levels |-> levels] /\ Grown(levels, list, k)

\* The proof as far as it was made: the positions, halved level by level, with
\* their siblings and sides.
Climbs(levels, at, path, flags) ==
  /\ IsSeq(at) /\ IsSeq(path) /\ IsSeq(flags)
  /\ Len(at) = Len(path) + 1 /\ Len(flags) = Len(path) /\ Len(at) <= Len(levels)
  /\ \A j \in 1 .. Len(at) : at[j] \in 1 .. Len(levels[j])
  /\ \A j \in 1 .. Len(path) :
       /\ at[j + 1] = (at[j] + 1) \div 2
       /\ path[j] = levels[j][Sibling(levels[j], at[j])]
       /\ flags[j] = (IsLeft(at[j]) = LeftFlag)

Proved ==
  \E t, at, path, flags :
    /\ t \in trees
    /\ proof = [op |-> "prove", tree |-> t, at |-> at, path |-> path, flags |-> flags]
    /\ Climbs(t.levels, at, path, flags)

\* Where the current hash is a node, the hash that was shown is one as many levels
\* below as steps were made.
Inside(levels, leaf, from, current, steps) ==
  \A j \in 1 .. Len(levels) : \A i \in 1 .. Len(levels[j]) :
    levels[j][i] = current =>
      /\ j - (steps - from) \in 1 .. Len(levels)
      /\ \E m \in 1 .. Len(levels[j - (steps - from)]) : levels[j - (steps - from)][m] = leaf

\* On the way up from a node the proof passes it is the node the prover was at ...
OnPath(levels, own, leaf, at, from, current, steps) ==
  levels = own /\ leaf = own[from + 1][at[from + 1]] => current = own[steps + 1][at[steps + 1]]

\* ... and under a tree of the same width it is so for that node only.
InSlot(levels, leaf, at, from, current, steps) ==
  levels[steps + 1][at[steps + 1]] = current => levels[from + 1][at[from + 1]] = leaf

Checked ==
  \E t, leaf, from, current, steps :
    /\ t \in trees /\ from \in 0 .. Len(proof.path) /\ steps \in from .. Len(proof.path)
    /\ check = [op |-> "verify", tree |-> t, leaf |-> leaf, from |-> from,
                current |-> current, steps |-> steps]
    /\ Inside(t.levels, leaf, from, current, steps)
    /\ OnPath(t.levels, proof.tree.levels, leaf, proof.at, from, current, steps)
    /\ t.k = proof.tree.k => InSlot(t.levels, leaf, proof.at, from, current, steps)

ProofInv == proof = Idle \/ Proved
CheckInv == check = Idle \/ (proof # Idle /\ Checked)

BuildInv == build = Idle \/ Built(build)
TreesInv == \A t \in trees : Built(t) /\ Len(Top(t.levels)) = 1

-----------------------------------------------------------------------------
\* Adding to a sequence of anything.
LEMMA AppendIsSeq ==
  ASSUME NEW s, IsSeq(s), NEW x
  PROVE  /\ IsSeq(Append(s, x)) /\ Len(Append(s, x)) = Len(s) + 1
         /\ \A i \in 1 .. Len(s) : Append(s, x)[i] = s[i]
         /\ Append(s, x)[Len(s) + 1] = x
<1> DEFINE S == {s[i] : i \in DOMAIN s} \cup {x}
<1> DEFINE a == Append(s, x)
<1>1. s \in Seq(S)
  BY DEF IsSeq
<1>2. a \in Seq(S) /\ Len(a) = Len(s) + 1
  BY <1>1
<1>3. \A i \in 1 .. Len(s) : a[i] = s[i]
  BY <1>1
<1>4. a[Len(s) + 1] = x
  BY <1>1
<1>5. a \in Seq({a[i] : i \in DOMAIN a})
  BY <1>2
<1> QED
  BY <1>2, <1>3, <1>4, <1>5 DEF IsSeq

\* What the steps below use of it.
LEMMA SeqLen ==
  ASSUME NEW s, IsSeq(s)
  PROVE  Len(s) \in Nat /\ DOMAIN s = 1 .. Len(s)
  BY DEF IsSeq

\* A function on a prefix of the numbers is a sequence.
LEMMA FunctionIsSeq ==
  ASSUME NEW n \in Nat, NEW f, f = [i \in 1 .. n |-> f[i]]
  PROVE  IsSeq(f) /\ Len(f) = n
<1>1. f \in [1 .. n -> {f[i] : i \in DOMAIN f}]
  OBVIOUS
<1>2. f \in Seq({f[i] : i \in DOMAIN f}) /\ Len(f) = n
  BY <1>1
<1> QED
  BY <1>2 DEF IsSeq

\* Two hashes are equal only when what was hashed is.
LEMMA HashesApart ==
  /\ \A a, b, c, d : HashPair(a, b) = HashPair(c, d) => a = c /\ b = d
  /\ \A a, b, c : HashPair(a, b) # HashMrsChain(c)
  /\ \A a, b : HashPair(a, b) # Zeros
  BY DEF HashPair, HashMrsChain, Zeros

\* The next level has half as many nodes, rounded up, and each is the hash of two.
LEMMA NextLevelHalves ==
  ASSUME NEW level, IsSeq(level), Len(level) >= 1
  PROVE  /\ IsSeq(NextLevel(level)) /\ Len(NextLevel(level)) = (Len(level) + 1) \div 2
         /\ Len(NextLevel(level)) >= 1
         /\ \A j \in 1 .. Len(NextLevel(level)) :
              /\ 2 * j - 1 \in 1 .. Len(level)
              /\ NextLevel(level)[j] = HashPair(level[2 * j - 1],
                                         level[IF 2 * j <= Len(level) THEN 2 * j ELSE 2 * j - 1])
<1> DEFINE n == Len(level)
<1> DEFINE h == (n + 1) \div 2
<1>1. n \in Nat /\ n >= 1
  BY DEF IsSeq
<1> HIDE DEF n
<1>2. h \in Nat /\ h >= 1 /\ 2 * h <= n + 1
  BY <1>1
<1> HIDE DEF h
<1>3. NextLevel(level) = [j \in 1 .. h |->
        HashPair(level[2 * j - 1], level[IF 2 * j <= n THEN 2 * j ELSE 2 * j - 1])]
  BY Zenon DEF NextLevel, n, h
<1>4. IsSeq(NextLevel(level)) /\ Len(NextLevel(level)) = h
  <2>1. NextLevel(level) = [j \in 1 .. h |-> NextLevel(level)[j]]
    BY <1>3
  <2> QED
    BY <2>1, <1>2, FunctionIsSeq
<1>5. \A j \in 1 .. h : 2 * j - 1 \in 1 .. n
  BY <1>1, <1>2
<1> QED
  BY <1>2, <1>3, <1>4, <1>5 DEF n, h

\* A step up from a node, with its sibling, gives the node above it ...
LEMMA StepUp ==
  ASSUME NEW level, IsSeq(level), Len(level) >= 1, NEW i \in 1 .. Len(level)
  PROVE  /\ (i + 1) \div 2 \in 1 .. Len(NextLevel(level))
         /\ HashWithSibling(level[i], level[Sibling(level, i)], IsLeft(i))
              = NextLevel(level)[(i + 1) \div 2]
<1> DEFINE n == Len(level)
<1> DEFINE q == (i + 1) \div 2
<1>1. n \in Nat /\ n >= 1 /\ i \in Nat /\ i >= 1 /\ i <= n
  BY SeqLen
<1>2. q \in 1 .. (n + 1) \div 2
  BY <1>1
<1>3. NextLevel(level)[q] = HashPair(level[2 * q - 1], level[IF 2 * q <= n THEN 2 * q ELSE 2 * q - 1])
  BY <1>2, NextLevelHalves
<1>4. CASE IsLeft(i)
  <2>1. 2 * q - 1 = i /\ Sibling(level, i) = (IF 2 * q <= n THEN 2 * q ELSE 2 * q - 1)
    BY <1>1, <1>4 DEF IsLeft, Sibling
  <2> HIDE DEF q, n
  <2> QED
    BY <2>1, <1>2, <1>3, <1>4, NextLevelHalves DEF HashWithSibling, q, n
<1>5. CASE ~IsLeft(i)
  <2>1. 2 * q = i /\ Sibling(level, i) = 2 * q - 1 /\ 2 * q <= n
    BY <1>1, <1>5 DEF IsLeft, Sibling
  <2>2. HashWithSibling(level[i], level[Sibling(level, i)], IsLeft(i))
          = HashPair(level[Sibling(level, i)], level[i])
    BY <1>5 DEF HashWithSibling
  <2>3. NextLevel(level)[q] = HashPair(level[2 * q - 1], level[2 * q])
    BY <2>1, <1>3
  <2> QED
    BY <2>1, <2>2, <2>3, <1>2, NextLevelHalves
<1> QED
  BY <1>4, <1>5

\* ... and only from that node.
LEMMA StepDown ==
  ASSUME NEW level, IsSeq(level), Len(level) >= 1, NEW i \in 1 .. Len(level),
         NEW current, NEW sibling,
         HashWithSibling(current, sibling, IsLeft(i)) = NextLevel(level)[(i + 1) \div 2]
  PROVE  level[i] = current
<1> DEFINE other == level[Sibling(level, i)]
<1>1. HashWithSibling(current, sibling, IsLeft(i)) = HashWithSibling(level[i], other, IsLeft(i))
  BY StepUp
<1> HIDE DEF other
<1>2. CASE IsLeft(i)
  BY <1>1, <1>2, HashesApart DEF HashWithSibling
<1>3. CASE ~IsLeft(i)
  BY <1>1, <1>3, HashesApart DEF HashWithSibling
<1> QED
  BY <1>2, <1>3

-----------------------------------------------------------------------------
\* What is built is a tree of its list, from the first level on.
LEMMA BuildPreserved ==
  ASSUME AcceptanceAssumption, BuildInv, TreesInv, [Next]_vars
  PROVE  BuildInv' /\ TreesInv'
<1> USE DEF Idle
<1>1. CASE Build
  <2>1. PICK list \in Lists, k \in Params :
          /\ list # << >> /\ Len(list) <= k
          /\ build' = [op |-> "build", k |-> k, list |-> list, levels |-> <<TreeLeaves(list, k)>>]
    BY <1>1 DEF Build
  <2> DEFINE level == TreeLeaves(list, k)
  <2>2. list \in Seq(Chains) /\ k \in Nat \ {0}
    BY <2>1 DEF AcceptanceAssumption
  <2>3. IsSeq(level) /\ Len(level) = k
    <3>1. level = [i \in 1 .. k |-> level[i]]
      BY DEF TreeLeaves
    <3> QED
      BY <3>1, <2>2, FunctionIsSeq
  <2> HIDE DEF level
  <2>4. IsSeq(<<level>>) /\ Len(<<level>>) = 1 /\ <<level>>[1] = level
    BY DEF IsSeq
  <2>5. Grown(<<level>>, list, k)
    BY <2>2, <2>3, <2>4 DEF Grown, level
  <2>6. BuildInv'
    BY <2>1, <2>5 DEF BuildInv, Built, level
  <2> QED
    BY <2>6, <1>1 DEF TreesInv, Build
<1>2. CASE BuildLevel
  <2>1. build # Idle /\ Len(Top(build.levels)) > 1
        /\ build' = [build EXCEPT !.levels = Append(@, NextLevel(Top(@)))]
    BY <1>2 DEF BuildLevel
  <2>2. PICK list, k, levels :
          build = [op |-> "build", k |-> k, list |-> list, levels |-> levels] /\ Grown(levels, list, k)
    BY <2>1 DEF BuildInv, Built
  <2> DEFINE top == Top(levels)
  <2> DEFINE more == Append(levels, NextLevel(top))
  <2>3. build' = [op |-> "build", k |-> k, list |-> list, levels |-> more]
    BY <2>1, <2>2
  <2>4. Len(levels) \in Nat /\ Len(levels) >= 1 /\ top = levels[Len(levels)] /\ Len(top) > 1
    BY <2>1, <2>2, SeqLen DEF Top, Grown
  <2>5. IsSeq(top) /\ IsSeq(NextLevel(top)) /\ Len(NextLevel(top)) >= 1
    <3>1. IsSeq(top) /\ Len(top) >= 1
      BY <2>2, <2>4 DEF Grown
    <3> QED
      BY <3>1, NextLevelHalves
  <2>6. IsSeq(more) /\ Len(more) = Len(levels) + 1 /\ more[Len(levels) + 1] = NextLevel(top)
        /\ \A i \in 1 .. Len(levels) : more[i] = levels[i]
    BY <2>2, AppendIsSeq DEF Grown
  <2> HIDE DEF more, top
  <2>7. Grown(more, list, k)
    <3>1. ASSUME NEW j \in 1 .. Len(more)  PROVE IsSeq(more[j]) /\ Len(more[j]) >= 1
      <4>1. j \in 1 .. Len(levels) \/ j = Len(levels) + 1
        BY <2>4, <2>6
      <4> QED
        BY <4>1, <2>2, <2>5, <2>6 DEF Grown
    <3>2. ASSUME NEW j \in 1 .. Len(more) - 1
          PROVE  Len(more[j]) > 1 /\ more[j + 1] = NextLevel(more[j])
      <4>1. CASE j = Len(levels)
        BY <4>1, <2>4, <2>6
      <4>2. CASE j # Len(levels)
        <5>1. j \in 1 .. Len(levels) - 1 /\ j \in 1 .. Len(levels) /\ j + 1 \in 1 .. Len(levels)
          BY <4>2, <2>4, <2>6
        <5> QED
          BY <5>1, <2>2, <2>6 DEF Grown
      <4> QED
        BY <4>1, <4>2
    <3> QED
      BY <3>1, <3>2, <2>2, <2>4, <2>6 DEF Grown
  <2>8. BuildInv'
    BY <2>3, <2>7 DEF BuildInv, Built
  <2> QED
    BY <2>8, <1>2 DEF TreesInv, BuildLevel
<1>3. CASE BuildReturn
  <2>1. Len(Top(build.levels)) = 1 /\ Built(build)
    <3>1. Built(build) /\ Len(Top(build.levels)) <= 1
      BY <1>3 DEF BuildReturn, BuildInv
    <3>2. PICK list, k, levels :
            build = [op |-> "build", k |-> k, list |-> list, levels |-> levels] /\ Grown(levels, list, k)
      BY <3>1 DEF Built
    <3>3. Len(levels) \in 1 .. Len(levels) /\ IsSeq(levels[Len(levels)]) /\ Len(levels[Len(levels)]) >= 1
      BY <3>2, SeqLen DEF Grown
    <3>4. Len(levels[Len(levels)]) \in Nat
      BY <3>3, SeqLen
    <3>5. build.levels = levels
      BY <3>2
    <3>6. Len(levels[Len(levels)]) = 1
      <4> DEFINE size == Len(levels[Len(levels)])
      <4>1. size <= 1
        BY <3>1, <3>5, Zenon DEF Top
      <4>2. size >= 1 /\ size \in Nat
        BY <3>3, <3>4
      <4> HIDE DEF size
      <4>3. size = 1
        BY <4>1, <4>2
      <4> QED
        BY <4>3 DEF size
    <3> QED
      BY <3>1, <3>5, <3>6 DEF Top
  <2> QED
    BY <2>1, <1>3 DEF BuildReturn, BuildInv, TreesInv
<1>4. ASSUME UNCHANGED <<build, trees>>  PROVE BuildInv' /\ TreesInv'
  BY <1>4 DEF BuildInv, TreesInv
<1> QED
  BY <1>1, <1>2, <1>3, <1>4 DEF Next, vars, Prove, ProveLevel, Verify, VerifyLevel, VerifyReturn

-----------------------------------------------------------------------------
\* A set of numbers that has one has a least one.
LEMMA Least ==
  ASSUME NEW N \in SUBSET Nat, N # {}
  PROVE  \E m \in N : \A n \in N : m <= n
<1> DEFINE R == OpToRel(<, Nat)
<1>1. R = {p \in Nat \X Nat : p[1] < p[2]}
  BY DEF OpToRel
<1>2. IsWellFoundedOn(R, Nat)
  BY NatLessThanWellFounded
<1> HIDE DEF R
<1>3. PICK m \in N : \A n \in N : <<n, m>> \notin R
  BY <1>2, WFMin
<1>4. \A n \in N : ~(n < m)
  BY <1>1, <1>3
<1> QED
  BY <1>4, SMT

\* What the steps of a chain keep, they all keep.
LEMMA StepByStep ==
  ASSUME NEW N \in SUBSET Nat, NEW n \in Nat, 1 \in N,
         \A j \in N : j < n => j + 1 \in N
  PROVE  \A j \in 1 .. n : j \in N
<1> SUFFICES ASSUME (1 .. n) \ N # {} PROVE FALSE
  OBVIOUS
<1> (1 .. n) \ N \in SUBSET Nat
  BY SMT
<1>1. PICK m \in (1 .. n) \ N : \A j \in (1 .. n) \ N : m <= j
  BY Least
<1>2. m # 1 /\ m - 1 \in 1 .. n /\ ~(m <= m - 1) /\ m - 1 < n /\ (m - 1) + 1 = m
  BY SMT
<1>3. m - 1 \in N
  BY <1>1, <1>2, Zenon
<1> QED
  BY <1>2, <1>3

\* Levels of one length with one level above them are the same.
LEMMA LevelsApart ==
  ASSUME NEW s, NEW u, IsSeq(s), IsSeq(u), Len(s) >= 1, Len(u) = Len(s),
         NextLevel(s) = NextLevel(u)
  PROVE  s = u
<1>1. ASSUME NEW i \in 1 .. Len(s) PROVE s[i] = u[i]
  <2> DEFINE q == (i + 1) \div 2
  <2>1. /\ q \in 1 .. Len(NextLevel(s))
        /\ HashWithSibling(s[i], s[Sibling(s, i)], IsLeft(i)) = NextLevel(s)[q]
    BY StepUp
  <2>2. HashWithSibling(s[i], s[Sibling(s, i)], IsLeft(i)) = NextLevel(u)[q]
    BY <2>1
  <2>3. u[i] = s[i]
    BY <2>2, StepDown
  <2> QED
    BY <2>3
<1>2. DOMAIN s = 1 .. Len(s) /\ DOMAIN u = 1 .. Len(s)
  BY SeqLen
<1>3. s = [i \in DOMAIN s |-> s[i]] /\ u = [i \in DOMAIN u |-> u[i]]
  BY DEF IsSeq
<1> QED
  BY <1>1, <1>2, <1>3

\* Two trees of one width are as long as each other at every height both have, and
\* are the same there only if their leaves are.
LEMMA TreesApart ==
  ASSUME NEW levels, NEW own, NEW list, NEW other, NEW k,
         Grown(levels, list, k), Grown(own, other, k),
         NEW n \in Nat, n <= Len(levels), n <= Len(own)
  PROVE  \A j \in 1 .. n :
           /\ Len(levels[j]) = Len(own[j])
           /\ levels[j] = own[j] => levels[1] = own[1]
<1> DEFINE N == {j \in Nat : j \in 1 .. n => /\ Len(levels[j]) = Len(own[j])
                                             /\ levels[j] = own[j] => levels[1] = own[1]}
<1>1. k \in Nat /\ levels[1] = TreeLeaves(list, k) /\ own[1] = TreeLeaves(other, k)
  BY DEF Grown
<1>2. Len(levels[1]) = k /\ Len(own[1]) = k
  <2>1. /\ levels[1] = [i \in 1 .. k |-> levels[1][i]]
        /\ own[1] = [i \in 1 .. k |-> own[1][i]]
    BY <1>1 DEF TreeLeaves
  <2> QED
    BY <2>1, <1>1, FunctionIsSeq
<1>3. 1 \in N
  BY <1>2
<1>4. ASSUME NEW j \in N, j < n PROVE j + 1 \in N
  <2>1. CASE j = 0
    BY <1>3, <2>1
  <2>2. CASE j # 0
    <3>0. j \in Nat /\ Len(levels) \in Nat /\ Len(own) \in Nat
      BY SeqLen DEF Grown
    <3>1. /\ j \in 1 .. n /\ j \in 1 .. Len(levels) /\ j \in 1 .. Len(own)
          /\ j \in 1 .. Len(levels) - 1 /\ j \in 1 .. Len(own) - 1
      BY <1>4, <2>2, <3>0, SMT
    <3>2. /\ IsSeq(levels[j]) /\ Len(levels[j]) >= 1 /\ levels[j + 1] = NextLevel(levels[j])
          /\ IsSeq(own[j]) /\ Len(own[j]) >= 1 /\ own[j + 1] = NextLevel(own[j])
      BY <3>1 DEF Grown
    <3>3. Len(levels[j]) = Len(own[j]) /\ (levels[j] = own[j] => levels[1] = own[1])
      BY <3>1
    <3>4. Len(levels[j + 1]) = Len(own[j + 1])
      BY <3>2, <3>3, NextLevelHalves
    <3>5. ASSUME levels[j + 1] = own[j + 1] PROVE levels[1] = own[1]
      <4>1. levels[j] = own[j]
        BY <3>2, <3>3, <3>5, LevelsApart
      <4> QED
        BY <3>3, <4>1
    <3> QED
      BY <3>4, <3>5
  <2> QED
    BY <2>1, <2>2
<1> HIDE DEF N
<1>5. N \in SUBSET Nat
  BY DEF N
<1>6. \A j \in 1 .. n : j \in N
  BY <1>3, <1>4, <1>5, StepByStep
<1> QED
  BY <1>6 DEF N

\* Whole trees of one width have as many levels, each as long as the other's.
LEMMA SameHeight ==
  ASSUME NEW levels, NEW own, NEW list, NEW other, NEW k,
         Grown(levels, list, k), Grown(own, other, k),
         Len(Top(levels)) = 1, Len(Top(own)) = 1
  PROVE  /\ Len(levels) = Len(own)
         /\ \A j \in 1 .. Len(own) : Len(levels[j]) = Len(own[j])
<1>1. Len(levels[Len(levels)]) = 1 /\ Len(own[Len(own)]) = 1
  BY DEF Top
<1>2. /\ Len(levels) \in Nat /\ Len(own) \in Nat /\ Len(levels) >= 1 /\ Len(own) >= 1
  BY SeqLen DEF Grown
<1>3. \A h \in 1 .. Len(levels) - 1 : Len(levels[h]) # 1
  <2> TAKE h \in 1 .. Len(levels) - 1
  <2>1. Len(levels[h]) > 1 /\ Len(levels[h]) \in Nat
    BY <1>2, SeqLen DEF Grown
  <2>2. \A l \in Nat : l > 1 => l # 1
    BY SMT
  <2> QED
    BY <2>1, <2>2, Zenon
<1>4. \A h \in 1 .. Len(own) - 1 : Len(own[h]) # 1
  <2> TAKE h \in 1 .. Len(own) - 1
  <2>1. Len(own[h]) > 1 /\ Len(own[h]) \in Nat
    BY <1>2, SeqLen DEF Grown
  <2>2. \A l \in Nat : l > 1 => l # 1
    BY SMT
  <2> QED
    BY <2>1, <2>2, Zenon
<1>5. Len(levels) = Len(own)
  <2>1. CASE Len(levels) < Len(own)
    <3> DEFINE n == Len(levels)
    <3>1. n \in Nat /\ n <= Len(levels) /\ n <= Len(own) /\ n \in 1 .. n /\ n \in 1 .. Len(own) - 1
      BY <1>2, <2>1, SMT
    <3>2. Len(levels[n]) = Len(own[n])
      BY <3>1, TreesApart
    <3> QED
      BY <1>1, <1>4, <3>1, <3>2
  <2>2. CASE Len(own) < Len(levels)
    <3> DEFINE n == Len(own)
    <3>1. n \in Nat /\ n <= Len(levels) /\ n <= Len(own) /\ n \in 1 .. n
          /\ n \in 1 .. Len(levels) - 1
      BY <1>2, <2>2, SMT
    <3>2. Len(levels[n]) = Len(own[n])
      BY <3>1, TreesApart
    <3> QED
      BY <1>1, <1>3, <3>1, <3>2
  <2> QED
    BY <1>2, <2>1, <2>2, SMT
<1>6. \A j \in 1 .. Len(own) : Len(levels[j]) = Len(own[j])
  BY <1>2, <1>5, TreesApart
<1> QED
  BY <1>5, <1>6

-----------------------------------------------------------------------------
\* A tree that was built stays as it is.
LEMMA TreesStay == [Next]_vars => trees \subseteq trees'
  BY DEF Next, vars, Build, BuildLevel, BuildReturn, Prove, ProveLevel, Verify, VerifyLevel,
     VerifyReturn

\* The proof is one of its tree, as far as it goes.
LEMMA ProofPreserved ==
  ASSUME TreesInv, ProofInv, [Next]_vars
  PROVE  ProofInv'
<1>1. CASE Prove
  <2>1. PICK t \in trees : \E i \in 1 .. t.k :
          proof' = [op |-> "prove", tree |-> t, at |-> <<i>>, path |-> << >>, flags |-> << >>]
    BY <1>1 DEF Prove
  <2>2. PICK i \in 1 .. t.k :
          proof' = [op |-> "prove", tree |-> t, at |-> <<i>>, path |-> << >>, flags |-> << >>]
    BY <2>1
  <2>3. PICK list, k, levels :
          t = [op |-> "build", k |-> k, list |-> list, levels |-> levels] /\ Grown(levels, list, k)
    BY <2>1 DEF TreesInv, Built
  <2>4. t.k = k /\ t.levels = levels
    BY <2>3
  <2>5. Len(levels) \in Nat /\ Len(levels) >= 1 /\ k \in Nat /\ levels[1] = TreeLeaves(list, k)
    BY <2>3, SeqLen DEF Grown
  <2>6. Len(levels[1]) = k
    <3>1. levels[1] = [j \in 1 .. k |-> levels[1][j]]
      BY <2>5 DEF TreeLeaves
    <3> QED
      BY <3>1, <2>5, FunctionIsSeq
  <2>7. IsSeq(<<i>>) /\ IsSeq(<< >>)
    BY DEF IsSeq
  <2>8. Climbs(t.levels, <<i>>, << >>, << >>)
    BY <2>2, <2>4, <2>5, <2>6, <2>7 DEF Climbs
  <2> QED
    BY <1>1, <2>1, <2>2, <2>8 DEF Prove, ProofInv, Proved
<1>2. CASE ProveLevel
  <2>1. PICK t, at, path, flags :
          /\ t \in trees
          /\ proof = [op |-> "prove", tree |-> t, at |-> at, path |-> path, flags |-> flags]
          /\ Climbs(t.levels, at, path, flags)
    BY <1>2 DEF ProveLevel, ProofInv, Proved, Idle
  <2> DEFINE n == Len(at)
  <2> DEFINE level == t.levels[n]
  <2> DEFINE up == (at[n] + 1) \div 2
  <2> DEFINE newAt == Append(at, up)
  <2> DEFINE newPath == Append(path, level[Sibling(level, at[n])])
  <2> DEFINE newFlags == Append(flags, IsLeft(at[n]) = LeftFlag)
  <2>2. /\ Len(level) > 1
        /\ proof' = [op |-> "prove", tree |-> t, at |-> newAt, path |-> newPath, flags |-> newFlags]
    BY <2>1, <1>2 DEF ProveLevel
  <2>3. PICK list, k, levels :
          /\ t = [op |-> "build", k |-> k, list |-> list, levels |-> levels]
          /\ Grown(levels, list, k) /\ Len(Top(t.levels)) = 1
    BY <2>1 DEF TreesInv, Built
  <2>4. t.levels = levels
    BY <2>3
  <2>5. n \in Nat /\ n >= 1 /\ Len(levels) \in Nat /\ n <= Len(levels) /\ n = Len(path) + 1
        /\ Len(flags) = Len(path) /\ Len(path) \in Nat
        /\ IsSeq(at) /\ IsSeq(path) /\ IsSeq(flags)
    BY <2>1, <2>3, <2>4, SeqLen DEF Climbs, Grown
  <2>6. Len(levels[Len(levels)]) = 1
    BY <2>3, <2>4 DEF Top
  <2>7. n \in 1 .. Len(levels) - 1
    <3>1. ASSUME n = Len(levels)  PROVE FALSE
      <4>1. Len(level) = 1
        BY <3>1, <2>4, <2>6, Zenon
      <4> HIDE DEF level
      <4> QED
        BY <4>1, <2>2
    <3> HIDE DEF n
    <3> QED
      BY <3>1, <2>5
  <2>8. IsSeq(level) /\ Len(level) >= 1 /\ at[n] \in 1 .. Len(level)
        /\ levels[n + 1] = NextLevel(level)
    BY <2>1, <2>3, <2>4, <2>5, <2>7 DEF Grown, Climbs
  <2>9. up \in 1 .. Len(levels[n + 1])
    BY <2>8, StepUp
  <2>10. /\ IsSeq(newAt) /\ Len(newAt) = n + 1 /\ newAt[n + 1] = up
         /\ \A j \in 1 .. n : newAt[j] = at[j]
    BY <2>5, AppendIsSeq
  <2>11. /\ IsSeq(newPath) /\ Len(newPath) = n /\ newPath[n] = level[Sibling(level, at[n])]
         /\ \A j \in 1 .. Len(path) : newPath[j] = path[j]
    BY <2>5, AppendIsSeq
  <2>12. /\ IsSeq(newFlags) /\ Len(newFlags) = n /\ newFlags[n] = (IsLeft(at[n]) = LeftFlag)
         /\ \A j \in 1 .. Len(path) : newFlags[j] = flags[j]
    BY <2>5, AppendIsSeq
  <2> HIDE DEF newAt, newPath, newFlags
  <2>13. Climbs(t.levels, newAt, newPath, newFlags)
    <3>1. Len(newAt) = Len(newPath) + 1 /\ Len(newFlags) = Len(newPath)
          /\ Len(newAt) <= Len(t.levels)
      BY <2>4, <2>5, <2>7, <2>10, <2>11, <2>12
    <3>2. ASSUME NEW j \in 1 .. Len(newAt)  PROVE newAt[j] \in 1 .. Len(t.levels[j])
      <4>1. j \in 1 .. n \/ j = n + 1
        BY <2>5, <2>10
      <4>2. \A x \in 1 .. n : at[x] \in 1 .. Len(t.levels[x])
        BY <2>1 DEF Climbs
      <4> HIDE DEF up, level, n
      <4> QED
        BY <4>1, <4>2, <2>4, <2>9, <2>10
    <3>3. ASSUME NEW j \in 1 .. Len(newPath)
          PROVE  /\ newAt[j + 1] = (newAt[j] + 1) \div 2
                 /\ newPath[j] = t.levels[j][Sibling(t.levels[j], newAt[j])]
                 /\ newFlags[j] = (IsLeft(newAt[j]) = LeftFlag)
      <4>1. CASE j = n
        BY <4>1, <2>5, <2>10, <2>11, <2>12
      <4>2. CASE j # n
        <5>1. j \in 1 .. Len(path) /\ j \in 1 .. n /\ j + 1 \in 1 .. n
          BY <4>2, <2>5, <2>11
        <5>2. /\ at[j + 1] = (at[j] + 1) \div 2
              /\ path[j] = t.levels[j][Sibling(t.levels[j], at[j])]
              /\ flags[j] = (IsLeft(at[j]) = LeftFlag)
          BY <5>1, <2>1 DEF Climbs
        <5> HIDE DEF n
        <5> QED
          BY <5>1, <5>2, <2>10, <2>11, <2>12
      <4> QED
        BY <4>1, <4>2
    <3> QED
      BY <3>1, <3>2, <3>3, <2>10, <2>11, <2>12 DEF Climbs
  <2> QED
    BY <2>1, <2>2, <2>13, <1>2 DEF ProveLevel, ProofInv, Proved
<1>3. ASSUME proof' = Idle  PROVE ProofInv'
  BY <1>3 DEF ProofInv, Idle
<1>4. ASSUME UNCHANGED proof, trees \subseteq trees'  PROVE ProofInv'
  BY <1>4 DEF ProofInv, Proved
<1> QED
  BY <1>1, <1>2, <1>3, <1>4, TreesStay
  DEF Next, vars, Build, BuildLevel, BuildReturn, Verify, VerifyLevel, VerifyReturn

-----------------------------------------------------------------------------
\* What the last three conditions become when a proof with another tree, or the
\* same, is checked one level further.
LEMMA OneLevelUp ==
  ASSUME NEW list, NEW k, NEW levels, Grown(levels, list, k),
         NEW ownList, NEW ownK, NEW own, Grown(own, ownList, ownK),
         Len(Top(levels)) = 1, Len(Top(own)) = 1, LeftFlag = TRUE,
         NEW at, NEW path, NEW flags, Climbs(own, at, path, flags),
         NEW s \in 1 .. Len(path), NEW from \in 0 .. s - 1, NEW leaf, NEW current,
         NEW new, new = HashWithSibling(current, path[s], flags[s])
  PROVE  /\ Inside(levels, leaf, from, current, s - 1) => Inside(levels, leaf, from, new, s)
         /\ OnPath(levels, own, leaf, at, from, current, s - 1)
              => OnPath(levels, own, leaf, at, from, new, s)
         /\ k = ownK /\ InSlot(levels, leaf, at, from, current, s - 1)
              => InSlot(levels, leaf, at, from, new, s)
<1>1. s \in Nat /\ s >= 1 /\ s + 1 \in 1 .. Len(at) /\ s \in 1 .. Len(at) /\ Len(at) <= Len(own)
      /\ Len(at) \in Nat /\ Len(own) \in Nat /\ Len(levels) \in Nat /\ Len(levels) >= 1
  BY SeqLen DEF Climbs, Grown
<1>2. /\ s \in 1 .. Len(own) - 1 /\ s \in 1 .. Len(own)
      /\ Len(own[s]) > 1 /\ own[s + 1] = NextLevel(own[s])
      /\ IsSeq(own[s]) /\ Len(own[s]) >= 1
  BY <1>1 DEF Grown
<1>3. /\ at[s] \in 1 .. Len(own[s]) /\ at[s + 1] = (at[s] + 1) \div 2
      /\ path[s] = own[s][Sibling(own[s], at[s])]
      /\ flags[s] = (IsLeft(at[s]) = LeftFlag)
  BY <1>1 DEF Climbs
<1>4. IsLeft(at[s]) \in BOOLEAN
  BY DEF IsLeft
<1>5. new = HashWithSibling(current, path[s], IsLeft(at[s]))
  <2>1. flags[s] <=> IsLeft(at[s])
    BY <1>3, <1>4
  <2> QED
    BY <2>1 DEF HashWithSibling
<1>6. \E x, y : new = HashPair(x, y) /\ (x = current \/ y = current)
  BY <1>5 DEF HashWithSibling
<1>7. ASSUME Inside(levels, leaf, from, current, s - 1)  PROVE Inside(levels, leaf, from, new, s)
  <2> SUFFICES ASSUME NEW j \in 1 .. Len(levels), NEW i \in 1 .. Len(levels[j]), levels[j][i] = new
               PROVE  /\ j - (s - from) \in 1 .. Len(levels)
                      /\ \E m \in 1 .. Len(levels[j - (s - from)]) :
                           levels[j - (s - from)][m] = leaf
    BY DEF Inside
  <2>1. PICK x, y : new = HashPair(x, y) /\ (x = current \/ y = current)
    BY <1>6
  <2>2. j # 1
    <3> SUFFICES ASSUME j = 1  PROVE FALSE
      OBVIOUS
    <3>1. levels[1] = TreeLeaves(list, k) /\ IsSeq(levels[1]) /\ 1 \in 1 .. Len(levels)
      BY <1>1 DEF Grown
    <3>2. i \in 1 .. k
      BY <3>1, SeqLen DEF TreeLeaves
    <3>3. new = Zeros \/ new = HashMrsChain(list[i])
      BY <3>1, <3>2 DEF TreeLeaves
    <3> QED
      BY <3>3, <2>1, HashesApart
  <2> DEFINE p == j - 1
  <2>3. p \in 1 .. Len(levels) - 1 /\ p \in 1 .. Len(levels) /\ j = p + 1
    BY <2>2, <1>1
  <2> HIDE DEF p
  <2>4. levels[j] = NextLevel(levels[p]) /\ IsSeq(levels[p]) /\ Len(levels[p]) >= 1
    BY <2>3 DEF Grown
  <2>5. /\ 2 * i - 1 \in 1 .. Len(levels[p])
        /\ new = HashPair(levels[p][2 * i - 1],
                          levels[p][IF 2 * i <= Len(levels[p]) THEN 2 * i ELSE 2 * i - 1])
    BY <2>4, NextLevelHalves
  <2> DEFINE right == IF 2 * i <= Len(levels[p]) THEN 2 * i ELSE 2 * i - 1
  <2>6. right \in 1 .. Len(levels[p])
    BY <2>4, <2>5, SeqLen
  <2>7. new = HashPair(levels[p][2 * i - 1], levels[p][right])
    BY <2>5
  <2> HIDE DEF right
  <2>8. levels[p][2 * i - 1] = x /\ levels[p][right] = y
    <3> DEFINE l == levels[p][2 * i - 1]
    <3> DEFINE r == levels[p][right]
    <3>1. HashPair(l, r) = HashPair(x, y)
      BY <2>1, <2>7
    <3> HIDE DEF l, r
    <3>2. l = x /\ r = y
      BY <3>1, HashesApart
    <3> QED
      BY <3>2 DEF l, r
  <2>9. \E l \in 1 .. Len(levels[p]) : levels[p][l] = current
    BY <2>1, <2>5, <2>6, <2>8
  <2> DEFINE low == p - (s - 1 - from)
  <2>10. low \in 1 .. Len(levels) /\ \E m \in 1 .. Len(levels[low]) : levels[low][m] = leaf
    BY <2>3, <2>9, <1>7 DEF Inside
  <2>11. low = j - (s - from)
    BY <2>3, <1>1
  <2> HIDE DEF low
  <2> QED
    BY <2>10, <2>11
<1>8. ASSUME OnPath(levels, own, leaf, at, from, current, s - 1)
      PROVE  OnPath(levels, own, leaf, at, from, new, s)
  <2> SUFFICES ASSUME levels = own, leaf = own[from + 1][at[from + 1]]
               PROVE  new = own[s + 1][at[s + 1]]
    BY DEF OnPath
  <2>1. s - 1 + 1 = s
    BY <1>1
  <2>2. current = own[s][at[s]]
    BY <1>8, <2>1 DEF OnPath
  <2> QED
    BY <2>2, <1>2, <1>3, <1>5, StepUp
<1>9. ASSUME k = ownK, InSlot(levels, leaf, at, from, current, s - 1)
      PROVE  InSlot(levels, leaf, at, from, new, s)
  <2>1. s - 1 + 1 = s
    BY <1>1
  <2>2. levels[s][at[s]] = current => levels[from + 1][at[from + 1]] = leaf
    BY <1>9, <2>1 DEF InSlot
  <2>3. Len(levels) = Len(own) /\ \A j \in 1 .. Len(own) : Len(levels[j]) = Len(own[j])
    BY <1>9, SameHeight
  <2>4. s \in 1 .. Len(levels) - 1 /\ s \in 1 .. Len(levels)
    BY <1>2, <2>3
  <2>5. levels[s + 1] = NextLevel(levels[s]) /\ IsSeq(levels[s]) /\ Len(levels[s]) >= 1
    BY <2>4 DEF Grown
  <2>7. at[s] \in 1 .. Len(levels[s])
    BY <2>3, <1>2, <1>3
  <2>8. ASSUME levels[s + 1][at[s + 1]] = new  PROVE levels[s][at[s]] = current
    BY <2>8, <2>5, <2>7, <1>3, <1>5, StepDown
  <2> QED
    BY <2>2, <2>8 DEF InSlot
<1> QED
  BY <1>7, <1>8, <1>9

-----------------------------------------------------------------------------
\* A check in progress keeps the three conditions.
LEMMA CheckPreserved ==
  ASSUME AcceptanceAssumption, LeftFlag = TRUE, TreesInv, ProofInv, CheckInv, [Next]_vars
  PROVE  CheckInv'
<1>1. CASE Verify
  <2>1. PICK t \in trees, leaf \in Hashes, from \in 0 .. Len(proof.path) :
          check' = [op |-> "verify", tree |-> t, leaf |-> leaf, from |-> from,
                    current |-> leaf, steps |-> from]
    BY <1>1 DEF Verify
  <2>2. PICK u, at, path, flags :
          /\ u \in trees
          /\ proof = [op |-> "prove", tree |-> u, at |-> at, path |-> path, flags |-> flags]
          /\ Climbs(u.levels, at, path, flags)
    BY <1>1 DEF Verify, ProofInv, Proved
  <2>3. from \in from .. Len(proof.path)
    BY <2>2, SeqLen DEF Climbs
  <2>4. Inside(t.levels, leaf, from, leaf, from)
    <3>1. \A j \in 1 .. Len(t.levels) : j - (from - from) = j
      BY <2>1
    <3> QED
      BY <3>1 DEF Inside
  <2>5. OnPath(t.levels, proof.tree.levels, leaf, proof.at, from, leaf, from)
    BY DEF OnPath
  <2>6. InSlot(t.levels, leaf, proof.at, from, leaf, from)
    BY DEF InSlot
  <2>7. UNCHANGED <<proof, trees>>
    BY <1>1 DEF Verify
  <2>8. Checked'
    BY <2>1, <2>3, <2>4, <2>5, <2>6, <2>7 DEF Checked
  <2> QED
    BY <2>8, <1>1 DEF Verify, CheckInv
<1>2. CASE VerifyLevel
  <2>1. PICK t, leaf, from, current, steps :
          /\ t \in trees /\ from \in 0 .. Len(proof.path) /\ steps \in from .. Len(proof.path)
          /\ check = [op |-> "verify", tree |-> t, leaf |-> leaf, from |-> from,
                      current |-> current, steps |-> steps]
          /\ Inside(t.levels, leaf, from, current, steps)
          /\ OnPath(t.levels, proof.tree.levels, leaf, proof.at, from, current, steps)
          /\ t.k = proof.tree.k => InSlot(t.levels, leaf, proof.at, from, current, steps)
    BY <1>2 DEF VerifyLevel, CheckInv, Checked, Idle
  <2>2. proof # Idle
    BY <1>2 DEF VerifyLevel, CheckInv, Idle
  <2>3. PICK u, at, path, flags :
          /\ u \in trees
          /\ proof = [op |-> "prove", tree |-> u, at |-> at, path |-> path, flags |-> flags]
          /\ Climbs(u.levels, at, path, flags)
    BY <2>2 DEF ProofInv, Proved
  <2>4. PICK list, k, levels :
          /\ t = [op |-> "build", k |-> k, list |-> list, levels |-> levels]
          /\ Grown(levels, list, k) /\ Len(Top(t.levels)) = 1
    BY <2>1 DEF TreesInv, Built
  <2>5. PICK ownList, ownK, own :
          /\ u = [op |-> "build", k |-> ownK, list |-> ownList, levels |-> own]
          /\ Grown(own, ownList, ownK) /\ Len(Top(u.levels)) = 1
    BY <2>3 DEF TreesInv, Built
  <2>6. /\ t.levels = levels /\ t.k = k /\ u.levels = own /\ u.k = ownK
        /\ proof.tree = u /\ proof.at = at /\ proof.path = path /\ proof.flags = flags
    BY <2>3, <2>4, <2>5
  <2> DEFINE s == steps + 1
  <2> DEFINE new == HashWithSibling(current, path[s], flags[s])
  <2>7. /\ check' = [op |-> "verify", tree |-> t, leaf |-> leaf, from |-> from,
                     current |-> new, steps |-> s]
        /\ steps < Len(path)
    BY <1>2, <2>1, <2>6 DEF VerifyLevel
  <2>8. /\ s \in 1 .. Len(path) /\ s \in from .. Len(path) /\ s - 1 = steps
        /\ from \in 0 .. s - 1
    BY <2>1, <2>3, <2>6, <2>7, SeqLen DEF Climbs
  <2>9. Len(Top(levels)) = 1 /\ Len(Top(own)) = 1
    BY <2>4, <2>5, <2>6
  <2> HIDE DEF s
  <2>10. /\ Inside(levels, leaf, from, current, s - 1) => Inside(levels, leaf, from, new, s)
         /\ OnPath(levels, own, leaf, at, from, current, s - 1)
              => OnPath(levels, own, leaf, at, from, new, s)
         /\ k = ownK /\ InSlot(levels, leaf, at, from, current, s - 1)
              => InSlot(levels, leaf, at, from, new, s)
    <3> HIDE DEF new
    <3>1. new = HashWithSibling(current, path[s], flags[s])
      BY DEF new
    <3>2. Climbs(own, at, path, flags)
      BY <2>3, <2>6
    <3>3. Grown(levels, list, k) /\ Grown(own, ownList, ownK)
      BY <2>4, <2>5
    <3> QED
      BY <3>1, <3>2, <3>3, <2>8, <2>9, OneLevelUp
  <2> HIDE DEF new
  <2>11. Checked'
    <3>1. UNCHANGED <<proof, trees>>
      BY <1>2 DEF VerifyLevel
    <3>2. /\ Inside(t.levels, leaf, from, new, s)
          /\ OnPath(t.levels, proof.tree.levels, leaf, proof.at, from, new, s)
          /\ t.k = proof.tree.k => InSlot(t.levels, leaf, proof.at, from, new, s)
      BY <2>1, <2>6, <2>8, <2>10
    <3>3. s \in from .. Len(proof.path) /\ from \in 0 .. Len(proof.path)
      BY <2>1, <2>6, <2>8
    <3>4. t \in trees
      BY <2>1
    <3> QED
      BY <3>1, <3>2, <3>3, <3>4, <2>7 DEF Checked
  <2> QED
    BY <2>2, <2>11, <1>2 DEF VerifyLevel, CheckInv
<1>3. ASSUME check' = Idle  PROVE CheckInv'
  BY <1>3 DEF CheckInv
<1>4. ASSUME UNCHANGED <<proof, check>>, trees \subseteq trees'  PROVE CheckInv'
  BY <1>4 DEF CheckInv, Checked
<1>5. CASE Prove \/ ProveLevel
  <2>1. check' = check /\ (proof = Idle \/ check = Idle)
    BY <1>5 DEF Prove, ProveLevel
  <2>2. check = Idle
    BY <2>1 DEF CheckInv
  <2> QED
    BY <2>1, <2>2 DEF CheckInv
<1> QED
  BY <1>1, <1>2, <1>3, <1>4, <1>5, TreesStay
  DEF Next, vars, Build, BuildLevel, BuildReturn, VerifyReturn

\* Nothing is in progress at first.
LEMMA InitInv == Init => BuildInv /\ TreesInv /\ ProofInv /\ CheckInv
  BY DEF Init, BuildInv, TreesInv, ProofInv, CheckInv

IInv == BuildInv /\ TreesInv /\ ProofInv /\ CheckInv

\* With a prover who flags sides as the verifier reads them the four parts hold
\* of every reachable state.
LEMMA AlwaysInv == ASSUME LeftFlag = TRUE PROVE Spec => []IInv
<1>1. Init => IInv
  BY InitInv DEF IInv
<1>2. IInv /\ [Next]_vars => IInv'
  BY AcceptanceAssumption, BuildPreserved, ProofPreserved, CheckPreserved DEF IInv
<1> QED
  BY <1>1, <1>2, PTL DEF Spec

\* A check that has come to its end, in the terms of the conditions above.
LEMMA AtTheEnd ==
  ASSUME IInv, Verified
  PROVE  /\ \E list : Grown(check.tree.levels, list, check.tree.k)
         /\ Len(Top(check.tree.levels)) = 1
         /\ \E list : Grown(proof.tree.levels, list, proof.tree.k)
         /\ Len(Top(proof.tree.levels)) = 1
         /\ check.steps = Len(proof.path) /\ check.steps \in Nat
         /\ check.from \in 0 .. check.steps
         /\ Len(proof.at) = check.steps + 1 /\ Len(proof.at) <= Len(proof.tree.levels)
         /\ \A j \in 1 .. Len(proof.at) : proof.at[j] \in 1 .. Len(proof.tree.levels[j])
         /\ Inside(check.tree.levels, check.leaf, check.from, check.current, check.steps)
         /\ OnPath(check.tree.levels, proof.tree.levels, check.leaf, proof.at,
                   check.from, check.current, check.steps)
         /\ check.tree.k = proof.tree.k =>
              InSlot(check.tree.levels, check.leaf, proof.at,
                     check.from, check.current, check.steps)
<1>1. proof # Idle /\ Checked /\ check.steps = Len(proof.path)
  BY DEF IInv, CheckInv, Verified, Idle
<1>2. PICK t, leaf, from, current, steps :
        /\ t \in trees /\ from \in 0 .. Len(proof.path) /\ steps \in from .. Len(proof.path)
        /\ check = [op |-> "verify", tree |-> t, leaf |-> leaf, from |-> from,
                    current |-> current, steps |-> steps]
        /\ Inside(t.levels, leaf, from, current, steps)
        /\ OnPath(t.levels, proof.tree.levels, leaf, proof.at, from, current, steps)
        /\ t.k = proof.tree.k => InSlot(t.levels, leaf, proof.at, from, current, steps)
  BY <1>1 DEF Checked
<1>3. PICK u, at, path, flags :
        /\ u \in trees
        /\ proof = [op |-> "prove", tree |-> u, at |-> at, path |-> path, flags |-> flags]
        /\ Climbs(u.levels, at, path, flags)
  BY <1>1 DEF IInv, ProofInv, Proved
<1>4. PICK list, k, levels :
        /\ t = [op |-> "build", k |-> k, list |-> list, levels |-> levels]
        /\ Grown(levels, list, k) /\ Len(Top(t.levels)) = 1
  BY <1>2 DEF IInv, TreesInv, Built
<1>5. PICK ownList, ownK, own :
        /\ u = [op |-> "build", k |-> ownK, list |-> ownList, levels |-> own]
        /\ Grown(own, ownList, ownK) /\ Len(Top(u.levels)) = 1
  BY <1>3 DEF IInv, TreesInv, Built
<1>6. /\ t.levels = levels /\ t.k = k /\ u.levels = own /\ u.k = ownK
      /\ proof.tree = u /\ proof.at = at /\ proof.path = path
      /\ check.tree = t /\ check.leaf = leaf /\ check.from = from
      /\ check.current = current /\ check.steps = steps
  BY <1>2, <1>3, <1>4, <1>5
<1>7. /\ Len(at) = steps + 1 /\ Len(at) <= Len(own) /\ steps \in Nat /\ steps = Len(proof.path)
      /\ from \in 0 .. steps
      /\ \A j \in 1 .. Len(at) : at[j] \in 1 .. Len(own[j])
  BY <1>1, <1>2, <1>3, <1>6, SeqLen DEF Climbs
<1> QED
  BY <1>2, <1>4, <1>5, <1>6, <1>7

\* EveryLeafIsAccepted, for lists and trees of every width.
THEOREM LeavesAccepted == ASSUME LeftFlag = TRUE PROVE Spec => []EveryLeafIsAccepted
<1>1. IInv => EveryLeafIsAccepted
  <2> SUFFICES ASSUME IInv, Verified, Complete, check.tree = proof.tree,
                      check.leaf = proof.tree.levels[check.from + 1][proof.at[check.from + 1]]
               PROVE  check.current = Root(check.tree)
    BY DEF EveryLeafIsAccepted, Accepted
  <2> DEFINE own == proof.tree.levels
  <2> DEFINE at == proof.at
  <2> DEFINE steps == check.steps
  <2>1. /\ Len(Top(own)) = 1 /\ Len(own) \in Nat
        /\ steps = Len(proof.path) /\ steps \in Nat /\ Len(at) = steps + 1
        /\ \A j \in 1 .. Len(at) : at[j] \in 1 .. Len(own[j])
        /\ OnPath(own, own, check.leaf, at, check.from, check.current, steps)
    BY AtTheEnd, SeqLen DEF Grown
  <2>2. Len(own) = steps + 1
    BY <2>1 DEF Complete
  <2>3. Root(check.tree) = own[Len(own)][1]
    BY DEF Root, Top
  <2>4. check.current = own[steps + 1][at[steps + 1]]
    BY <2>1 DEF OnPath
  <2> HIDE DEF own, at, steps
  <2>5. at[steps + 1] = 1
    <3>1. steps + 1 \in 1 .. Len(at) /\ Len(own[steps + 1]) = 1
      BY <2>1, <2>2 DEF Top
    <3>2. at[steps + 1] \in 1 .. Len(own[steps + 1])
      BY <3>1, <2>1
    <3> QED
      BY <3>1, <3>2
  <2> QED
    BY <2>2, <2>3, <2>4, <2>5
<1> QED
  BY <1>1, AlwaysInv, PTL

\* AcceptedIsInItsSlot, for lists and trees of every width, proofs cut anywhere and
\* any hash shown for a leaf.
THEOREM OnlyNodesAccepted == ASSUME LeftFlag = TRUE PROVE Spec => []AcceptedIsInItsSlot
<1>1. IInv => AcceptedIsInItsSlot
  <2> DEFINE levels == check.tree.levels
             own == proof.tree.levels
             at == proof.at
             leaf == check.leaf
             from == check.from
             steps == check.steps
             top == Len(levels)
             height == top - (steps - from)
  <2> SUFFICES ASSUME IInv, Verified, check.current = Root(check.tree)
               PROVE  /\ height >= 1
                      /\ \E i \in DOMAIN levels[height] : levels[height][i] = leaf
                      /\ check.tree.k = proof.tree.k /\ Complete =>
                           levels[height][at[from + 1]] = leaf
    BY DEF AcceptedIsInItsSlot, Accepted
  <2>1. /\ \E list : Grown(levels, list, check.tree.k)
        /\ \E list : Grown(own, list, proof.tree.k)
        /\ Len(Top(levels)) = 1 /\ Len(Top(own)) = 1
        /\ steps = Len(proof.path) /\ steps \in Nat /\ from \in 0 .. steps
        /\ Len(at) = steps + 1
        /\ \A j \in 1 .. Len(at) : at[j] \in 1 .. Len(own[j])
        /\ Inside(levels, leaf, from, check.current, steps)
        /\ check.tree.k = proof.tree.k =>
             InSlot(levels, leaf, at, from, check.current, steps)
    BY AtTheEnd
  <2>2. check.current = levels[top][1] /\ Len(levels[top]) = 1
    BY <2>1 DEF Root, Top
  <2>3. top \in 1 .. top /\ top \in Nat /\ 1 \in 1 .. Len(levels[top])
        /\ \A j \in 1 .. top : IsSeq(levels[j])
    BY <2>1, <2>2, SeqLen DEF Grown
  <2>4. height \in 1 .. top /\ \E m \in 1 .. Len(levels[height]) : levels[height][m] = leaf
    <3>1. \A j \in 1 .. top : \A i \in 1 .. Len(levels[j]) :
            levels[j][i] = check.current =>
              /\ j - (steps - from) \in 1 .. top
              /\ \E m \in 1 .. Len(levels[j - (steps - from)]) :
                   levels[j - (steps - from)][m] = leaf
      BY <2>1 DEF Inside
    <3> QED
      BY <3>1, <2>2, <2>3
  <2>5. height >= 1 /\ \E i \in DOMAIN levels[height] : levels[height][i] = leaf
    <3> HIDE DEF height
    <3>1. height >= 1 /\ DOMAIN levels[height] = 1 .. Len(levels[height])
      BY <2>3, <2>4, SeqLen
    <3> QED
      BY <2>4, <3>1
  <2>6. ASSUME check.tree.k = proof.tree.k, Complete PROVE levels[height][at[from + 1]] = leaf
    <3>1. InSlot(levels, leaf, at, from, check.current, steps)
      BY <2>1, <2>6
    <3>2. top = Len(own)
      BY <2>1, <2>6, SameHeight
    <3>3. top = steps + 1 /\ height = from + 1
      <4>1. steps = Len(own) - 1 /\ Len(own) \in Nat
        BY <2>1, <2>6, SeqLen DEF Complete, Grown
      <4>2. top = steps + 1
        BY <2>3, <3>2, <4>1
      <4>3. from \in Nat /\ steps \in Nat
        BY <2>1
      <4> HIDE DEF top, steps, from
      <4> QED
        BY <4>2, <4>3
    <3>4. at[steps + 1] = 1
      <4>1. steps + 1 \in 1 .. Len(at) /\ Len(own[steps + 1]) = 1
        BY <2>1, <3>2, <3>3 DEF Top
      <4> DEFINE s == steps + 1
      <4>2. at[s] \in 1 .. Len(own[s])
        BY <2>1, <4>1
      <4> HIDE DEF s, own, at
      <4> QED
        BY <4>1, <4>2 DEF s
    <3> HIDE DEF height, top
    <3> QED
      BY <3>1, <3>3, <3>4, <2>2 DEF InSlot
  <2> QED
    BY <2>5, <2>6
<1> QED
  BY <1>1, AlwaysInv, PTL

-----------------------------------------------------------------------------
\* The padding is no leaf, so that the leaves tell the list.
LEMMA LeavesApart ==
  ASSUME NEW list \in Seq(Chains), NEW other \in Seq(Chains), NEW k \in Nat,
         Len(list) <= k, Len(other) <= k, TreeLeaves(list, k) = TreeLeaves(other, k)
  PROVE  list = other
<1>1. Len(list) \in Nat /\ Len(other) \in Nat
  OBVIOUS
<1>2. \A i \in 1 .. k :
        (IF i <= Len(list) THEN HashMrsChain(list[i]) ELSE Zeros)
          = (IF i <= Len(other) THEN HashMrsChain(other[i]) ELSE Zeros)
  <2> SUFFICES ASSUME NEW i \in 1 .. k
               PROVE (IF i <= Len(list) THEN HashMrsChain(list[i]) ELSE Zeros)
                       = (IF i <= Len(other) THEN HashMrsChain(other[i]) ELSE Zeros)
    OBVIOUS
  <2>1. TreeLeaves(list, k)[i] = TreeLeaves(other, k)[i]
    OBVIOUS
  <2> QED
    BY <2>1 DEF TreeLeaves
<1>3. /\ \A c : HashMrsChain(c) # Zeros
      /\ \A c, d : HashMrsChain(c) = HashMrsChain(d) => c = d
  BY DEF HashMrsChain, Zeros
<1>4. \A i \in 1 .. k : i <= Len(list) <=> i <= Len(other)
  BY <1>2, <1>3, Zenon
<1>5. Len(list) = Len(other)
  BY <1>1, <1>4, SMT
<1>6. \A i \in 1 .. Len(list) : list[i] = other[i]
  <2> TAKE i \in 1 .. Len(list)
  <2>1. i \in 1 .. k /\ i <= Len(list) /\ i <= Len(other)
    BY <1>1, <1>5, SMT
  <2> QED
    BY <2>1, <1>2, <1>3
<1> QED
  BY <1>5, <1>6

\* What the lists of the trees built satisfy: those the guard of Build let in.
Fits(t) == t.list \in Seq(Chains) /\ Len(t.list) <= t.k
ListsInv == (build # Idle => Fits(build)) /\ \A t \in trees : Fits(t)

\* A tree keeps the list it was started with.
LEMMA ListsPreserved ==
  ASSUME AcceptanceAssumption, BuildInv, ListsInv, [Next]_vars
  PROVE  ListsInv'
<1>1. CASE Build
  <2>1. PICK list \in Lists, k \in Params :
          /\ Len(list) <= k
          /\ build' = [op |-> "build", k |-> k, list |-> list, levels |-> <<TreeLeaves(list, k)>>]
    BY <1>1 DEF Build
  <2>2. build'.list = list /\ build'.k = k /\ list \in Seq(Chains)
    BY <2>1 DEF AcceptanceAssumption
  <2> QED
    BY <1>1, <2>1, <2>2 DEF Build, ListsInv, Fits
<1>2. CASE BuildLevel
  <2>1. build # Idle /\ build' = [build EXCEPT !.levels = Append(@, NextLevel(Top(@)))]
    BY <1>2 DEF BuildLevel, Idle
  <2>2. build'.list = build.list /\ build'.k = build.k
    BY <2>1 DEF BuildInv, Built
  <2> QED
    BY <1>2, <2>1, <2>2 DEF BuildLevel, ListsInv, Fits
<1>3. CASE BuildReturn
  BY <1>3 DEF BuildReturn, ListsInv, Fits, Idle
<1>4. CASE UNCHANGED <<build, trees>>
  BY <1>4 DEF ListsInv, Fits, Idle
<1> QED
  BY <1>1, <1>2, <1>3, <1>4 DEF Next, vars, Prove, ProveLevel, Verify, VerifyLevel, VerifyReturn

\* Trees of one width with one root are trees of one list: the root is the hash of
\* all of it, padding and doubled nodes included, whatever flags the prover uses.
THEOREM RootCorrect == Spec => []RootBindsList
<1>1. TreesInv /\ ListsInv => RootBindsList
  <2> SUFFICES ASSUME TreesInv, ListsInv, NEW t \in trees, NEW u \in trees,
                      t.k = u.k, Root(t) = Root(u)
               PROVE  t.list = u.list
    BY DEF RootBindsList
  <2>1. PICK list, k, levels :
          t = [op |-> "build", k |-> k, list |-> list, levels |-> levels] /\ Grown(levels, list, k)
    BY DEF TreesInv, Built
  <2>2. PICK other, j, own :
          u = [op |-> "build", k |-> j, list |-> other, levels |-> own] /\ Grown(own, other, j)
    BY DEF TreesInv, Built
  <2>3. t.list = list /\ t.k = k /\ u.list = other /\ u.k = k /\ t.levels = levels /\ u.levels = own
    BY <2>1, <2>2
  <2>4. Grown(levels, list, k) /\ Grown(own, other, k)
    BY <2>1, <2>2, <2>3
  <2>5. /\ levels[Len(levels)][1] = own[Len(own)][1]
        /\ Len(levels[Len(levels)]) = 1 /\ Len(own[Len(own)]) = 1
    BY <2>3 DEF TreesInv, Root, Top
  <2>6. /\ Len(levels) \in Nat /\ Len(own) \in Nat /\ Len(levels) >= 1 /\ Len(own) >= 1
    BY <2>4, SeqLen DEF Grown
  <2>9. Len(levels) = Len(own)
    BY <2>4, <2>5, SameHeight DEF Top
  <2>10. levels[Len(levels)] = own[Len(levels)]
    <3> DEFINE x == levels[Len(levels)]
               y == own[Len(levels)]
    <3>1. IsSeq(x) /\ IsSeq(y) /\ Len(x) = 1 /\ Len(y) = 1 /\ x[1] = y[1]
      BY <2>4, <2>5, <2>6, <2>9 DEF Grown
    <3> HIDE DEF x, y
    <3>2. x = [i \in 1 .. 1 |-> x[i]] /\ y = [i \in 1 .. 1 |-> y[i]]
      BY <3>1 DEF IsSeq
    <3>3. \A i \in 1 .. 1 : x[i] = y[i]
      BY <3>1
    <3> QED
      BY <3>2, <3>3 DEF x, y
  <2>11. levels[1] = own[1]
    BY <2>4, <2>6, <2>9, <2>10, TreesApart
  <2>12. TreeLeaves(list, k) = TreeLeaves(other, k) /\ k \in Nat
    BY <2>4, <2>11 DEF Grown
  <2>13. list \in Seq(Chains) /\ other \in Seq(Chains) /\ Len(list) <= k /\ Len(other) <= k
    BY <2>3 DEF ListsInv, Fits
  <2> QED
    BY <2>3, <2>12, <2>13, LeavesApart
<1>2. Init => BuildInv /\ TreesInv /\ ListsInv
  BY DEF Init, BuildInv, TreesInv, ListsInv
<1>3. BuildInv /\ TreesInv /\ [Next]_vars => BuildInv' /\ TreesInv'
  BY AcceptanceAssumption, BuildPreserved
<1>4. BuildInv /\ ListsInv /\ [Next]_vars => ListsInv'
  BY AcceptanceAssumption, ListsPreserved
<1> QED
  BY <1>1, <1>2, <1>3, <1>4, PTL DEF Spec
=============================================================================
