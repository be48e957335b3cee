------------------------------- MODULE Induction -------------------------------
(***************************************************************************)
(* What proofs by induction rest on: sets of numbers have a least element, *)
(* so that a claim that fails for some number fails for a least one.       *)
(* Functions that are defined by recursion exist, and chains of blocks     *)
(* that are linked downwards end.                                          *)
(***************************************************************************)
EXTENDS Integers, FiniteSetsExt, FiniteSetTheorems, WellFoundedInduction, TLAPS

\* What holds of some natural number holds of a least one: a proof by induction takes the
\* least number of which the claim does not hold.
LEMMA LeastExists ==
    ASSUME NEW T, T \subseteq Nat, T # {}
    PROVE  \E x \in T : \A y \in T : x <= y
<1> DEFINE R == OpToRel(<, Nat)
<1>1. IsWellFoundedOn(R, Nat)
  BY NatLessThanWellFounded
<1>2. \A x, y \in Nat : y < x => <<y, x>> \in R
  BY DEF OpToRel
<1> HIDE DEF R
<1>3. PICK x \in T : \A y \in T : ~ (<<y, x>> \in R)
  BY <1>1, WFMin
<1>4. \A y \in T : ~ (y < x)
  BY <1>2, <1>3
<1> QED
  BY <1>4

\* Min is the least element of a set of natural numbers.
LEMMA MinOf ==
    ASSUME NEW T, T \subseteq Nat, T # {}
    PROVE  Min(T) \in T /\ \A y \in T : Min(T) <= y
BY LeastExists DEF Min

\* Max is the greatest element of a bounded one.
LEMMA MaxOf ==
    ASSUME NEW n \in Nat, NEW T, T \subseteq 0 .. n, T # {}
    PROVE  Max(T) \in T /\ \A y \in T : Max(T) >= y
<1> DEFINE U == {n - y : y \in T}
<1>1. U \subseteq Nat /\ U # {}
  <2>1. \A y \in T : n - y \in Nat
    OBVIOUS
  <2> QED
    BY <2>1
<1>2. PICK u \in U : \A v \in U : u <= v
  BY <1>1, LeastExists
<1>3. PICK x \in T : u = n - x
  OBVIOUS
<1>4. \A y \in T : x >= y
  <2> SUFFICES ASSUME NEW y \in T PROVE x >= y
    OBVIOUS
  <2>1. u <= n - y
    BY <1>2
  <2> QED
    BY <1>3, <2>1
<1> QED
  BY <1>4 DEF Max

\* Max of two integers.
LEMMA MaxOfTwo ==
    ASSUME NEW x \in Int, NEW y \in Int
    PROVE  Max({x, y}) \in {x, y} /\ Max({x, y}) >= x /\ Max({x, y}) >= y
<1>1. \E z \in {x, y} : \A w \in {x, y} : z >= w
  <2>1. CASE x >= y
    BY <2>1
  <2>2. CASE ~ (x >= y)
    BY <2>2
  <2> QED
    BY <2>1, <2>2
<1> QED
  BY <1>1 DEF Max

\* A function on 0 .. n is defined by its first value and by what each step makes of the last one.
StepsOn(S, n) == [1 .. n -> [S -> S]]

Paths(S, a, n, step) ==
    {f \in [0 .. n -> S] : f[0] = a /\ \A k \in 1 .. n : f[k] = step[k][f[k - 1]]}

LEMMA StepsExist ==
    ASSUME NEW S, NEW a \in S, NEW n \in Nat, NEW step \in StepsOn(S, n)
    PROVE  \E f : f \in Paths(S, a, n, step)
<1> USE DEF StepsOn
<1> DEFINE Built(m) == \E f \in [0 .. m -> S] : f[0] = a /\ \A k \in 1 .. m : f[k] = step[k][f[k - 1]]
           Bad      == {m \in 0 .. n : ~ Built(m)}
<1>1. Bad = {}
  <2> SUFFICES ASSUME Bad # {} PROVE FALSE
    OBVIOUS
  <2>1. Bad \subseteq Nat
    OBVIOUS
  <2>2. PICK m \in Bad : \A y \in Bad : m <= y
    BY <2>1, LeastExists
  <2>3. m \in 0 .. n /\ ~ Built(m)
    OBVIOUS
  <2>4. CASE m = 0
    <3> DEFINE f == [k \in 0 .. m |-> a]
    <3>1. f \in [0 .. m -> S] /\ f[0] = a /\ \A k \in 1 .. m : FALSE
      BY <2>4
    <3> QED
      BY <2>3, <3>1
  <2>5. CASE m # 0
    <3>1. m \in 1 .. n /\ Built(m - 1)
      <4>1. m - 1 \in 0 .. n /\ ~ (m <= m - 1)
        BY <2>3, <2>5
      <4>2. m - 1 \notin Bad
        BY <2>2, <4>1
      <4> QED
        BY <2>3, <2>5, <4>1, <4>2
    <3>2. PICK f \in [0 .. m - 1 -> S] : f[0] = a /\ \A k \in 1 .. m - 1 : f[k] = step[k][f[k - 1]]
      BY <3>1
    <3> DEFINE g == [k \in 0 .. m |-> IF k = m THEN step[m][f[m - 1]] ELSE f[k]]
    <3>3. f[m - 1] \in S /\ step[m] \in [S -> S]
      BY <3>1
    <3>4. g \in [0 .. m -> S] /\ g[0] = a
      <4>1. \A k \in 0 .. m : k = m \/ k \in 0 .. m - 1
        BY <3>1
      <4>2. step[m][f[m - 1]] \in S
        BY <3>3
      <4> QED
        BY <3>1, <3>2, <4>1, <4>2
    <3>5. ASSUME NEW k \in 1 .. m PROVE g[k] = step[k][g[k - 1]]
      <4>1. k \in 0 .. m /\ k - 1 \in 0 .. m /\ k - 1 # m
        BY <3>1
      <4>2. g[k - 1] = f[k - 1]
        BY <4>1
      <4>3. CASE k = m
        BY <4>1, <4>2, <4>3
      <4>4. CASE k # m
        <5>1. k \in 1 .. m - 1 /\ g[k] = f[k]
          BY <3>1, <4>1, <4>4
        <5> QED
          BY <3>2, <4>2, <5>1
      <4> QED
        BY <4>3, <4>4
    <3> HIDE DEF g
    <3> QED
      BY <2>3, <3>4, <3>5
  <2> QED
    BY <2>4, <2>5
<1>2. n \in 0 .. n
  OBVIOUS
<1>3. Built(n)
  BY <1>1, <1>2
<1> QED
  BY <1>3 DEF Paths

\* It is the only one.
Alike(f, g, n) == f[0] = g[0] /\ \A k \in 1 .. n : f[k - 1] = g[k - 1] => f[k] = g[k]

LEMMA SameSteps ==
    ASSUME NEW n \in Nat, NEW f, NEW g, Alike(f, g, n)
    PROVE  \A k \in 0 .. n : f[k] = g[k]
<1> USE DEF Alike
<1> DEFINE Bad == {k \in 0 .. n : f[k] # g[k]}
<1>1. Bad = {}
  <2> SUFFICES ASSUME Bad # {} PROVE FALSE
    OBVIOUS
  <2>1. Bad \subseteq Nat
    OBVIOUS
  <2>2. PICK m \in Bad : \A y \in Bad : m <= y
    BY <2>1, LeastExists
  <2>3. m \in 1 .. n /\ m - 1 \in 0 .. n /\ ~ (m <= m - 1)
    <3>1. m \in 0 .. n /\ m # 0
      OBVIOUS
    <3> QED
      BY <3>1
  <2>4. m - 1 \notin Bad
    BY <2>2, <2>3
  <2>5. f[m] = g[m]
    BY <2>3, <2>4
  <2> QED
    BY <2>5
<1> QED
  BY <1>1

\* Sums of integers.
LEMMA SumExists ==
    ASSUME NEW n \in Nat, NEW g \in [1 .. n -> Int]
    PROVE  \E f : f = [k \in 0 .. n |-> IF k = 0 THEN 0 ELSE f[k - 1] + g[k]]
<1> DEFINE step == [k \in 1 .. n |-> [x \in Int |-> x + g[k]]]
<1>1. step \in StepsOn(Int, n) /\ 0 \in Int
  BY DEF StepsOn
<1> HIDE DEF step
<1>2. PICK f : f \in Paths(Int, 0, n, step)
  BY <1>1, StepsExist
<1>5. f \in [0 .. n -> Int] /\ f[0] = 0 /\ \A k \in 1 .. n : f[k] = step[k][f[k - 1]]
  BY <1>2 DEF Paths
<1>3. ASSUME NEW k \in 0 .. n PROVE f[k] = IF k = 0 THEN 0 ELSE f[k - 1] + g[k]
  <2>1. CASE k = 0
    BY <1>5, <2>1
  <2>2. CASE k # 0
    <3>1. k \in 1 .. n /\ f[k - 1] \in Int
      BY <1>5, <2>2
    <3> QED
      BY <1>5, <2>2, <3>1 DEF step
  <2> QED
    BY <2>1, <2>2
<1>4. f = [k \in 0 .. n |-> IF k = 0 THEN 0 ELSE f[k - 1] + g[k]]
  BY <1>3, <1>5
<1> QED
  BY <1>4

-------------------------------------------------------------------------------
(* Chains of blocks, in a slice whose links go down.                       *)

Descending(s) ==
    \E n \in Nat : DOMAIN s = 0 .. n - 1 /\ \A i \in 0 .. n - 1 : s[i].next \in -1 .. i - 1

\* f follows the blocks of s.
Follows(f, s) ==
    f = [i \in DOMAIN s \cup {-1} |-> IF i = -1 THEN {} ELSE {i} \cup f[s[i].next]]

\* A function that follows the blocks is built from the bottom up.
LEMMA FollowsExists ==
    ASSUME NEW s, Descending(s)
    PROVE  \E f : Follows(f, s)
<1>1. PICK n \in Nat : DOMAIN s = 0 .. n - 1 /\ \A i \in 0 .. n - 1 : s[i].next \in -1 .. i - 1
  BY DEF Descending
<1> DEFINE Built(m) == \E f : f = [i \in -1 .. m - 1 |-> IF i = -1 THEN {} ELSE {i} \cup f[s[i].next]]
           Bad      == {m \in 0 .. n : ~ Built(m)}
<1>2. Bad = {}
  <2> SUFFICES ASSUME Bad # {} PROVE FALSE
    OBVIOUS
  <2>1. Bad \subseteq Nat
    OBVIOUS
  <2>2. PICK m \in Bad : \A y \in Bad : m <= y
    BY <2>1, LeastExists
  <2>3. m \in 0 .. n /\ ~ Built(m)
    OBVIOUS
  <2>4. CASE m = 0
    <3> DEFINE f == [i \in -1 .. m - 1 |-> {}]
    <3>1. f = [i \in -1 .. m - 1 |-> IF i = -1 THEN {} ELSE {i} \cup f[s[i].next]]
      <4>1. \A i \in -1 .. m - 1 : i = -1
        BY <2>4
      <4> QED
        BY <4>1
    <3> QED
      BY <2>3, <3>1
  <2>5. CASE m # 0
    <3>1. m - 1 \in 0 .. n - 1 /\ Built(m - 1)
      <4>1. m - 1 \in 0 .. n /\ m - 1 \in 0 .. n - 1 /\ ~ (m <= m - 1)
        BY <2>3, <2>5
      <4>2. m - 1 \notin Bad
        BY <2>2, <4>1
      <4> QED
        BY <4>1, <4>2
    <3>2. PICK f : f = [i \in -1 .. (m - 1) - 1 |-> IF i = -1 THEN {} ELSE {i} \cup f[s[i].next]]
      BY <3>1
    <3> DEFINE g == [i \in -1 .. m - 1 |->
                        IF i = m - 1 THEN {i} \cup f[s[i].next] ELSE f[i]]
    <3>3. ASSUME NEW i \in -1 .. m - 1
          PROVE  g[i] = IF i = -1 THEN {} ELSE {i} \cup g[s[i].next]
      <4>1. CASE i = m - 1
        <5>1. s[i].next \in -1 .. m - 2 /\ i # -1
          BY <1>1, <3>1, <4>1
        <5>2. g[s[i].next] = f[s[i].next]
          BY <3>1, <5>1
        <5> QED
          BY <4>1, <5>1, <5>2
      <4>2. CASE i # m - 1 /\ i # -1
        <5>1. i \in 0 .. n - 1 /\ i \in -1 .. (m - 1) - 1
          BY <2>3, <4>2
        <5>2. s[i].next \in -1 .. i - 1
          BY <1>1, <5>1
        <5>3. s[i].next \in -1 .. m - 1 /\ s[i].next # m - 1
          BY <4>2, <5>1, <5>2
        <5>4. g[s[i].next] = f[s[i].next] /\ g[i] = f[i]
          BY <4>2, <5>3
        <5> QED
          BY <3>2, <4>2, <5>1, <5>4
      <4>3. CASE i = -1 /\ i # m - 1
        <5>1. i \in -1 .. (m - 1) - 1 /\ g[i] = f[i]
          BY <2>3, <2>5, <4>3
        <5> QED
          BY <3>2, <4>3, <5>1
      <4> QED
        BY <4>1, <4>2, <4>3
    <3>4. g = [i \in -1 .. m - 1 |-> IF i = -1 THEN {} ELSE {i} \cup g[s[i].next]]
      BY <3>3
    <3> QED
      BY <2>3, <3>4
  <2> QED
    BY <2>4, <2>5
<1>3. Built(n)
  <2>1. n \in 0 .. n
    BY <1>1
  <2> HIDE DEF Built
  <2> QED
    BY <1>2, <2>1
<1>4. -1 .. n - 1 = DOMAIN s \cup {-1}
  BY <1>1
<1> QED
  BY <1>3, <1>4 DEF Follows

\* A chain is its block and the chain of the next, and goes down.
LEMMA ChainFacts ==
    ASSUME NEW s, NEW f, Descending(s), Follows(f, s)
    PROVE  /\ f[-1] = {}
           /\ \A i \in DOMAIN s : f[i] = {i} \cup f[s[i].next]
           /\ \A i \in DOMAIN s \cup {-1} : f[i] \subseteq 0 .. i
<1>1. PICK n \in Nat : DOMAIN s = 0 .. n - 1 /\ \A i \in 0 .. n - 1 : s[i].next \in -1 .. i - 1
  BY DEF Descending
<1>2. \A i \in DOMAIN s \cup {-1} : f[i] = IF i = -1 THEN {} ELSE {i} \cup f[s[i].next]
  BY Zenon DEF Follows
<1>3. f[-1] = {} /\ \A i \in DOMAIN s : f[i] = {i} \cup f[s[i].next]
  <2>1. -1 \in DOMAIN s \cup {-1} /\ \A i \in DOMAIN s : i # -1
    BY <1>1
  <2> QED
    BY <1>2, <2>1
<1> DEFINE Bad == {i \in 0 .. n - 1 : ~ (f[i] \subseteq 0 .. i)}
<1>4. Bad = {}
  <2> SUFFICES ASSUME Bad # {} PROVE FALSE
    OBVIOUS
  <2>1. Bad \subseteq Nat
    OBVIOUS
  <2>2. PICK m \in Bad : \A y \in Bad : m <= y
    BY <2>1, LeastExists
  <2>3. m \in 0 .. n - 1 /\ s[m].next \in -1 .. m - 1 /\ f[m] = {m} \cup f[s[m].next]
    BY <1>1, <1>3
  <2>4. f[s[m].next] \subseteq 0 .. m
    <3>1. CASE s[m].next = -1
      BY <1>3, <3>1
    <3>2. CASE s[m].next # -1
      <4> DEFINE x == s[m].next
      <4>1. x \in 0 .. n - 1 /\ ~ (m <= x) /\ x <= m
        BY <2>3, <3>2
      <4> HIDE DEF x
      <4>2. f[x] \subseteq 0 .. x
        BY <2>2, <4>1
      <4>3. f[x] \subseteq 0 .. m
        BY <2>3, <4>1, <4>2
      <4> QED
        BY <4>3 DEF x
    <3> QED
      BY <3>1, <3>2
  <2>5. f[m] \subseteq 0 .. m
    BY <2>3, <2>4
  <2> QED
    BY <2>5
<1>5. \A i \in DOMAIN s \cup {-1} : f[i] \subseteq 0 .. i
  BY <1>1, <1>3, <1>4
<1> QED
  BY <1>3, <1>5

\* Chains up to a slot depend on the slots up to there only.
LEMMA SameChains ==
    ASSUME NEW s, NEW f, Descending(s), Follows(f, s),
           NEW t, NEW g, Descending(t), Follows(g, t),
           NEW m \in Int, \A i \in 0 .. m : i \in DOMAIN s /\ i \in DOMAIN t /\ t[i] = s[i]
    PROVE  \A i \in -1 .. m : g[i] = f[i]
<1> DEFINE Bad == {i \in 0 .. m : g[i] # f[i]}
<1>1. /\ f[-1] = {} /\ \A i \in DOMAIN s : f[i] = {i} \cup f[s[i].next]
      /\ g[-1] = {} /\ \A i \in DOMAIN t : g[i] = {i} \cup g[t[i].next]
  BY ChainFacts
<1>2. \A i \in DOMAIN s : s[i].next \in -1 .. i - 1
  BY DEF Descending
<1>3. Bad = {}
  <2> SUFFICES ASSUME Bad # {} PROVE FALSE
    OBVIOUS
  <2>1. Bad \subseteq Nat
    OBVIOUS
  <2>2. PICK i \in Bad : \A y \in Bad : i <= y
    BY <2>1, LeastExists
  <2> DEFINE x == s[i].next
  <2>3. i \in 0 .. m /\ i \in DOMAIN s /\ i \in DOMAIN t /\ t[i] = s[i]
    OBVIOUS
  <2>4. x \in -1 .. i - 1 /\ f[i] = {i} \cup f[x] /\ g[i] = {i} \cup g[x]
    BY <1>1, <1>2, <2>3
  <2> HIDE DEF x
  <2>5. g[x] = f[x]
    <3>1. CASE x = -1
      BY <1>1, <3>1
    <3>2. CASE x # -1
      <4>1. x \in 0 .. m /\ ~ (i <= x)
        BY <2>3, <2>4, <3>2
      <4> QED
        BY <2>2, <4>1
    <3> QED
      BY <3>1, <3>2
  <2> QED
    BY <2>4, <2>5
<1>4. \A i \in 0 .. m : g[i] = f[i]
  BY <1>3
<1>5. \A i \in -1 .. m : i = -1 \/ i \in 0 .. m
  OBVIOUS
<1>6. g[-1] = f[-1]
  BY <1>1
<1> HIDE DEF Bad
<1> QED
  BY <1>4, <1>5, <1>6, Zenon

\* The blocks of a chain, from block i through next.
ChainIn(s, i) ==
    LET chain[j \in DOMAIN s \cup {-1}] ==
            IF j = -1 THEN {} ELSE {j} \cup chain[s[j].next]
    IN  chain[i]

\* ChainIn reads the chains off a function that follows the blocks.
LEMMA ChainInFollows ==
    ASSUME NEW s, Descending(s)
    PROVE  \E f : Follows(f, s) /\ \A i : ChainIn(s, i) = f[i]
<1> DEFINE c == CHOOSE f : f = [i \in DOMAIN s \cup {-1} |-> IF i = -1 THEN {} ELSE {i} \cup f[s[i].next]]
<1>1. PICK f : f = [i \in DOMAIN s \cup {-1} |-> IF i = -1 THEN {} ELSE {i} \cup f[s[i].next]]
  BY FollowsExists DEF Follows
<1>2. c = [i \in DOMAIN s \cup {-1} |-> IF i = -1 THEN {} ELSE {i} \cup c[s[i].next]]
  BY <1>1, Zenon
<1>3. \A i : ChainIn(s, i) = c[i]
  BY Zenon DEF ChainIn
<1> HIDE DEF c
<1> QED
  BY <1>2, <1>3 DEF Follows

\* A chain is its block and the chain of the next, and goes down.
LEMMA ChainInFacts ==
    ASSUME NEW s, Descending(s)
    PROVE  /\ ChainIn(s, -1) = {}
           /\ \A i \in DOMAIN s : ChainIn(s, i) = {i} \cup ChainIn(s, s[i].next)
           /\ \A i \in DOMAIN s \cup {-1} : ChainIn(s, i) \subseteq 0 .. i
<1>1. PICK f : Follows(f, s) /\ \A i : ChainIn(s, i) = f[i]
  BY ChainInFollows
<1> QED
  BY <1>1, ChainFacts

\* Chains up to a slot depend on the slots up to there only.
LEMMA SameChainIn ==
    ASSUME NEW s, Descending(s), NEW t, Descending(t),
           NEW m \in Int, \A i \in 0 .. m : i \in DOMAIN s /\ i \in DOMAIN t /\ t[i] = s[i]
    PROVE  \A i \in -1 .. m : ChainIn(t, i) = ChainIn(s, i)
<1>1. PICK f : Follows(f, s) /\ \A i : ChainIn(s, i) = f[i]
  BY ChainInFollows
<1>2. PICK g : Follows(g, t) /\ \A i : ChainIn(t, i) = g[i]
  BY ChainInFollows
<1>3. \A i \in -1 .. m : g[i] = f[i]
  BY <1>1, <1>2, SameChains
<1> QED
  BY <1>1, <1>2, <1>3
===============================================================================
