------------------------ MODULE EnumerationTheorems -------------------------
(***************************************************************************)
(* What the operators of Enumeration return, for every finite set.         *)
(***************************************************************************)
EXTENDS Enumeration, FiniteSetTheorems, WellFoundedInduction, TLAPS

\* An ascending enumeration of a finite set of numbers is a sequence that
\* holds every member once: the loops modelled with it skip nobody and
\* serve nobody twice.
LEMMA AscendingIsBijective ==
    ASSUME NEW S \in SUBSET Int, IsFiniteSet(S), NEW w \in Ascending(S)
    PROVE  /\ w \in Seq(S)
           /\ Len(w) = Cardinality(S)
           /\ \A i, j \in 1..Len(w) : w[i] = w[j] => i = j
           /\ \A x \in S : \E i \in 1..Len(w) : w[i] = x
<1> DEFINE n == Cardinality(S)
<1>1. n \in Nat
  BY FS_CardinalityType
<1>2. /\ w \in [1..n -> S]
      /\ \A i, j \in 1..n : i < j => w[i] < w[j]
  BY DEF Ascending
<1>3. w \in Seq(S) /\ Len(w) = n
  <2> HIDE DEF n
  <2> QED BY <1>1, <1>2
<1>4. \A i, j \in 1..n : w[i] = w[j] => i = j
  <2> HIDE DEF n
  <2> SUFFICES ASSUME NEW i \in 1..n, NEW j \in 1..n, w[i] = w[j], i # j
               PROVE  FALSE
    OBVIOUS
  <2>1. w[i] \in Int /\ w[j] \in Int
    BY <1>2
  <2>2. i < j \/ j < i
    BY <1>1
  <2> QED BY <1>2, <2>1, <2>2
<1>5. w \in Injection(1..n, S)
  BY <1>2, <1>4 DEF Injection, IsInjective
<1>6. Cardinality(1..n) = n
  <2>1. Cardinality(1..n) = IF 1 > n THEN 0 ELSE n - 1 + 1
    BY <1>1, FS_Interval
  <2> HIDE DEF n
  <2> QED BY <1>1, <2>1
<1>7. w \in Surjection(1..n, S)
  BY <1>5, <1>6, FS_Injection
<1> QED BY <1>3, <1>4, <1>7 DEF Surjection

\* There is no more than one first member.
LEMMA FirstIsUnique ==
    ASSUME NEW S \in SUBSET Int, NEW i \in Firsts(S), NEW j \in Firsts(S)
    PROVE  i = j
  BY DEF Firsts

\* A set of numbers up to n has a least member.
LEMMA LeastExists ==
    ASSUME NEW n \in Nat, NEW A \in SUBSET (0..n), A # {}
    PROVE  \E m \in A : \A a \in A : m <= a
<1> DEFINE S == 0..n
           T == {0..a : a \in A}
<1>1. IsFiniteSet(S)
  BY FS_Interval
<1>2. IsWellFoundedOn(StrictSubsetOrdering(S), FiniteSubsetsOf(S))
  BY FS_StrictSubsetOrderingWellFounded
<1>3. T \subseteq FiniteSubsetsOf(S)
  <2>1. \A a \in A : 0..a \subseteq S
    OBVIOUS
  <2>2. \A a \in A : IsFiniteSet(0..a)
    BY <1>1, <2>1, FS_Subset
  <2> QED BY <2>1, <2>2 DEF FiniteSubsetsOf
<1>4. T # {}
  OBVIOUS
<1>5. PICK x \in T : \A y \in T : ~ (<<y, x>> \in StrictSubsetOrdering(S))
  <2> HIDE DEF T, S
  <2> QED BY <1>2, <1>3, <1>4, WFMin
<1>6. PICK m \in A : x = 0..m
  OBVIOUS
<1>7. ASSUME NEW a \in A, a < m
      PROVE  FALSE
  <2>1. 0..a \in T
    OBVIOUS
  <2>2. /\ 0..a \in SUBSET S /\ x \in SUBSET S
        /\ 0..a \subseteq x
    BY <1>6, <1>7
  <2>3. m \in x /\ m \notin 0..a
    BY <1>6, <1>7
  <2> HIDE DEF T, S
  <2>4. <<0..a, x>> \in StrictSubsetOrdering(S)
    BY <2>2, <2>3 DEF StrictSubsetOrdering
  <2> QED BY <1>5, <2>1, <2>4
<1> QED BY <1>7

\* A search among the numbers up to n finds something, if there is anything.
LEMMA FirstExists ==
    ASSUME NEW n \in Nat, NEW A \in SUBSET (0..n), A # {}
    PROVE  Firsts(A) # {}
  BY LeastExists DEF Firsts

\* What holds of 0, and of i + 1 if of i, holds of all numbers up to n.
LEMMA InductionUpTo ==
    ASSUME NEW n \in Nat, NEW S, 0 \in S,
           \A i \in 0..n - 1 : i \in S => i + 1 \in S
    PROVE  0..n \subseteq S
<1> SUFFICES ASSUME (0..n) \ S # {} PROVE FALSE
  OBVIOUS
<1> DEFINE A == (0..n) \ S
<1>1. PICK m \in A : \A a \in A : m <= a
  BY LeastExists
<1>2. m # 0 /\ m - 1 \in 0..n - 1 /\ m - 1 \notin A
  BY <1>1
<1>3. m - 1 \in S
  BY <1>2
<1>4. (m - 1) + 1 \in S
  BY <1>2, <1>3
<1> QED BY <1>1, <1>4

\* f starts with v and takes its i-th step with step[i], up to the n-th.
Iterates(f, n, v, step) ==
    f[0] = v /\ \A i \in 1..n : f[i] = step[i][f[i - 1]]

\* Steps from V to V can be taken one after the other: this is what a
\* recursive function over 0..n needs to exist.
LEMMA IterationExists ==
    ASSUME NEW V, NEW v \in V, NEW n \in Nat, NEW step \in [1..n -> [V -> V]]
    PROVE  \E f \in [0..n -> V] : Iterates(f, n, v, step)
<1> DEFINE S == {l \in 0..n : \E f \in [0..l -> V] : Iterates(f, l, v, step)}
<1>1. 0 \in S
  <2>1. [i \in 0..0 |-> v] \in [0..0 -> V]
    OBVIOUS
  <2>2. Iterates([i \in 0..0 |-> v], 0, v, step)
    BY DEF Iterates
  <2> QED BY <2>1, <2>2
<1>2. ASSUME NEW l \in 0..n - 1, l \in S
      PROVE  l + 1 \in S
  <2>1. PICK f \in [0..l -> V] : Iterates(f, l, v, step)
    BY <1>2
  <2> DEFINE g == [i \in 0..l + 1 |-> IF i = l + 1 THEN step[l + 1][f[l]] ELSE f[i]]
  <2>2. l + 1 \in 1..n /\ l \in 0..l /\ l \in Nat
    BY <1>2
  <2>3. step[l + 1][f[l]] \in V
    BY <2>2
  <2>4. g \in [0..l + 1 -> V]
    BY <2>2, <2>3
  <2>5. /\ g[l + 1] = step[l + 1][f[l]]
        /\ \A i \in 0..l : g[i] = f[i]
    BY <2>2
  <2> HIDE DEF g
  <2>6. ASSUME NEW i \in 1..l + 1
        PROVE  g[i] = step[i][g[i - 1]]
    <3>1. CASE i = l + 1
      BY <2>2, <2>5, <3>1
    <3>2. CASE i # l + 1
      <4>1. i \in 1..l /\ i \in 0..l /\ i - 1 \in 0..l
        BY <2>2, <3>2
      <4>2. f[i] = step[i][f[i - 1]]
        BY <2>1, <4>1 DEF Iterates
      <4> QED BY <2>5, <4>1, <4>2
    <3> QED BY <3>1, <3>2
  <2>7. g[0] = v
    BY <2>1, <2>2, <2>5 DEF Iterates
  <2>8. Iterates(g, l + 1, v, step)
    BY <2>6, <2>7 DEF Iterates
  <2>9. l + 1 \in 0..n
    BY <2>2
  <2> QED BY <2>4, <2>8, <2>9
<1>3. 0..n \subseteq S
  <2> HIDE DEF S
  <2> QED BY <1>1, <1>2, InductionUpTo
<1> QED BY <1>3
\* What holds of the empty sequence, and of an extension of what it holds of,
\* holds of every sequence.
LEMMA AppendInduction ==
    ASSUME NEW A, NEW S, <<>> \in S,
           \A q \in Seq(A) : q \in S => \A a \in A : Append(q, a) \in S
    PROVE  Seq(A) \subseteq S
<1> SUFFICES ASSUME NEW s \in Seq(A) PROVE s \in S
  OBVIOUS
<1> DEFINE T == {i \in 0..Len(s) : SubSeq(s, 1, i) \in S}
<1>1. Len(s) \in Nat
  OBVIOUS
<1>2. 0 \in T
  <2>1. SubSeq(s, 1, 0) = <<>>
    OBVIOUS
  <2>2. SubSeq(s, 1, 0) \in S
    BY <2>1, Zenon
  <2> QED BY <1>1, <2>2
<1>3. ASSUME NEW i \in 0..Len(s) - 1, i \in T
      PROVE  i + 1 \in T
  <2>1. i \in 0..Len(s) /\ i + 1 \in 1..Len(s) /\ i + 1 \in 0..Len(s)
    BY <1>1
  <2>2. SubSeq(s, 1, i) \in Seq(A) /\ s[i + 1] \in A
    BY <2>1
  <2>3. SubSeq(s, 1, i + 1) = Append(SubSeq(s, 1, i), s[i + 1])
    BY <2>1
  <2> QED BY <1>3, <2>1, <2>2, <2>3
<1>4. 0..Len(s) \subseteq T
  <2> HIDE DEF T
  <2> QED BY <1>1, <1>2, <1>3, InductionUpTo
<1>5. SubSeq(s, 1, Len(s)) = s
  OBVIOUS
<1>6. SubSeq(s, 1, Len(s)) \in S
  BY <1>1, <1>4
<1> QED BY <1>5, <1>6, Zenon
=============================================================================
