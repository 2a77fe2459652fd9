---------------------------- MODULE NumberLemmas ----------------------------
(***************************************************************************)
(* Lemmas about natural numbers that do not depend on the system.  The     *)
(* theorems of the library for induction take the property as an operator, *)
(* which the provers cannot instantiate; here it is a set of numbers, and  *)
(* a recursion is a function of the step and the value before.             *)
(***************************************************************************)
EXTENDS Integers, FiniteSets, FiniteSetTheorems, TLAPS

\* Among natural numbers there is a least one.
LEMMA LeastNumber ==
  ASSUME NEW T, T \subseteq Nat, T # {}
  PROVE  \E m \in T : \A n \in T : m <= n
<1>1. PICK n \in T : TRUE
  OBVIOUS
<1> DEFINE S == 0 .. n
           I == {0 .. k : k \in {m \in T : m <= n}}
<1>2. IsFiniteSet(S)
  BY <1>1, FS_Interval
<1>3. I \subseteq SUBSET S /\ I # {}
  BY <1>1
<1>4. IsWellFoundedOn(StrictSubsetOrdering(S), SUBSET S)
  <2>1. IsWellFoundedOn(StrictSubsetOrdering(S), FiniteSubsetsOf(S))
    BY FS_StrictSubsetOrderingWellFounded
  <2>. QED
    BY <1>2, <2>1, FS_FiniteSubsetsOfFinite
<1> HIDE DEF I, S
<1>5. \E x \in I : \A y \in I : <<y, x>> \notin StrictSubsetOrdering(S)
  BY <1>3, <1>4, WFMin
<1>6. PICK x \in I : \A y \in I : ~ (y \subseteq x /\ y # x)
  BY <1>3, <1>5 DEF StrictSubsetOrdering
<1>7. PICK m \in T : m <= n /\ x = 0 .. m
  BY <1>6 DEF I
<1>8. ASSUME NEW y \in T, ~ (m <= y)
      PROVE  FALSE
  <2>1. m \in Nat /\ y \in Nat /\ n \in Nat /\ y < m
    BY <1>1, <1>7, <1>8
  <2>2. (0 .. y) \in I
    BY <1>7, <2>1 DEF I
  <2>3. 0 .. y \subseteq 0 .. m /\ m \in 0 .. m /\ m \notin 0 .. y
    BY <2>1
  <2>. QED
    BY <1>6, <1>7, <2>2, <2>3
<1>. QED
  BY <1>7, <1>8

\* Among numbers that are bounded there is a greatest one.
LEMMA GreatestNumber ==
  ASSUME NEW T, NEW b \in Nat, T \subseteq 0..b, T # {}
  PROVE  \E m \in T : \A n \in T : n <= m
<1> DEFINE U == {b - x : x \in T}
<1>1. U \subseteq Nat /\ U # {}
  <2>1. \A x \in T : b - x \in Nat
    OBVIOUS
  <2>2. PICK x \in T : TRUE
    OBVIOUS
  <2>3. b - x \in U
    OBVIOUS
  <2>. QED
    BY <2>1, <2>3
<1>2. PICK k \in U : \A n \in U : k <= n
  <2> HIDE DEF U
  <2>. QED
    BY <1>1, LeastNumber
<1>3. PICK m \in T : k = b - m
  BY <1>2
<1>4. ASSUME NEW n \in T
      PROVE  n <= m
  <2>1. b - m <= b - n
    BY <1>2, <1>3
  <2>. QED
    BY <2>1
<1>. QED
  BY <1>4

\* What is so for 0, and for each number after one for which it is, is so for all of them.
LEMMA NumberInduction ==
  ASSUME NEW n \in Nat, NEW T, 0 \in T,
         \A k \in 1..n : k - 1 \in T => k \in T
  PROVE  \A k \in 0..n : k \in T
<1> DEFINE Rest == {k \in 0..n : k \notin T}
<1> SUFFICES ASSUME Rest # {} PROVE FALSE
  OBVIOUS
<1>1. Rest \subseteq Nat
  OBVIOUS
<1>2. PICK m \in Rest : \A k \in Rest : m <= k
  <2> HIDE DEF Rest
  <2>. QED
    BY <1>1, LeastNumber
<1>3. m \in 1..n /\ m - 1 \in 0..n /\ ~ (m <= m - 1)
  BY <1>2
<1>4. m - 1 \in T
  BY <1>2, <1>3
<1>. QED
  BY <1>2, <1>3, <1>4

\* There is a function that begins with `first` and goes on by `step`.
HasSolution(n, S, first, step) ==
  \E f \in [0..n -> S] :
    \A k \in 0..n : f[k] = IF k = 0 THEN first ELSE step[<<k, f[k - 1]>>]

\* A recursion over 0..n has a solution.
LEMMA RecursionHasSolution ==
  ASSUME NEW n \in Nat, NEW S, NEW first \in S, NEW step \in [(1..n) \X S -> S]
  PROVE  HasSolution(n, S, first, step)
<1> DEFINE Solves(f, m) ==
      /\ f \in [0..m -> S]
      /\ \A k \in 0..m : f[k] = IF k = 0 THEN first ELSE step[<<k, f[k - 1]>>]
           T == {m \in 0..n : \E f : Solves(f, m)}
<1>1. 0 \in T
  <2>1. Solves([k \in 0..0 |-> first], 0)
    OBVIOUS
  <2> HIDE DEF Solves
  <2>2. \E f : Solves(f, 0)
    BY <2>1
  <2>. QED
    BY <2>2
<1>2. ASSUME NEW m \in 1..n, m - 1 \in T
      PROVE  m \in T
  <2>1. PICK f : Solves(f, m - 1)
    BY <1>2
  <2> DEFINE last == step[<<m, f[m - 1]>>]
             g    == [k \in 0..m |-> IF k < m THEN f[k] ELSE last]
  <2>2. m - 1 \in 0..m - 1 /\ f[m - 1] \in S /\ last \in S
    <3>1. m - 1 \in 0..m - 1
      OBVIOUS
    <3>2. f[m - 1] \in S
      BY <2>1, <3>1
    <3>3. <<m, f[m - 1]>> \in (1..n) \X S
      BY <3>2
    <3>. QED
      BY <3>1, <3>2, <3>3
  <2>3. ASSUME NEW k \in 0..m
        PROVE  g[k] \in S /\ g[k] = IF k = 0 THEN first ELSE step[<<k, g[k - 1]>>]
    <3>1. k # 0 => k - 1 \in 0..m /\ k - 1 < m /\ g[k - 1] = f[k - 1]
      BY <2>3
    <3>2. CASE k < m
      <4>1. k \in 0..m - 1 /\ g[k] = f[k]
        BY <3>2
      <4>2. f[k] \in S /\ f[k] = IF k = 0 THEN first ELSE step[<<k, f[k - 1]>>]
        BY <2>1, <4>1
      <4>. QED
        BY <3>1, <4>1, <4>2
    <3>3. CASE ~ (k < m)
      <4>1. k = m /\ k # 0 /\ g[k] = last
        BY <3>3
      <4>. QED
        BY <2>2, <3>1, <4>1
    <3>. QED
      BY <3>2, <3>3
  <2>4. Solves(g, m)
    <3>1. g \in [0..m -> S]
      BY <2>3
    <3>. QED
      BY <2>3, <3>1
  <2> HIDE DEF Solves
  <2>5. \E h : Solves(h, m)
    BY <2>4
  <2>. QED
    BY <2>5
<1>3. n \in T
  <2> HIDE DEF T
  <2>1. \A k \in 0..n : k \in T
    BY <1>1, <1>2, NumberInduction
  <2>. QED
    BY <2>1
<1>. QED
  BY <1>3 DEF HasSolution
=============================================================================
