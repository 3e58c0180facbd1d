----------------------------- MODULE ListLemmas -----------------------------
(***************************************************************************)
(* Facts about numbers, sequences and sums over sets that the proofs about *)
(* the driver and the timing package share. Induction goes over a set of   *)
(* numbers, by its least element.                                          *)
(***************************************************************************)
EXTENDS Integers, Sequences, SequencesExt, SequenceTheorems,
        FiniteSetTheorems, WellFoundedInduction, TLAPS

\* A set of numbers that is not empty has a least element.
LEMMA LeastElement ==
  ASSUME NEW S \in SUBSET Nat, S # {}
  PROVE  \E x \in S : \A y \in S : x <= y
<1>1. IsWellFoundedOn(OpToRel(<, Nat), Nat)
  BY NatLessThanWellFounded
<1>2. PICK x \in S : \A y \in S : ~ (<<y, x>> \in OpToRel(<, Nat))
  BY <1>1, WFMin
<1>3. \A y \in S : ~ (y < x)
  BY <1>2 DEF OpToRel
<1> QED
  BY <1>3

\* The Min of the community modules is one: SelectInSeq finds the first place.
LEMMA MinIsLeast ==
  ASSUME NEW S \in SUBSET Nat, S # {}
  PROVE  Min(S) \in S /\ \A y \in S : Min(S) <= y
  BY LeastElement DEF Min

\* A set of numbers with 0 in it, and with n + 1 for every n, has them all.
LEMMA SetInduction ==
  ASSUME NEW S, 0 \in S, \A n \in Nat : n \in S => n + 1 \in S
  PROVE  Nat \subseteq S
<1> DEFINE T == Nat \ S
<1> SUFFICES ASSUME T # {} PROVE FALSE
  OBVIOUS
<1>1. PICK x \in T : \A y \in T : x <= y
  <2> HIDE DEF T
  <2>1. T \in SUBSET Nat
    BY DEF T
  <2> QED
    BY <2>1, LeastElement
<1>2. x # 0 /\ x \in Nat
  OBVIOUS
<1>3. x - 1 \in Nat /\ x - 1 \notin T
  BY <1>1, <1>2
<1> QED
  BY <1>2, <1>3

\* The function h on 0 .. n, with values in D, that begins with first and has
\* g[k] lead from k - 1 to k.
StepsIn(g, n, D) == \A k \in 1 .. n : g[k] \in [D -> D]

Recursion(h, first, g, n, D) ==
  /\ h \in [0 .. n -> D]
  /\ h[0] = first
  /\ \A k \in 1 .. n : h[k] = g[k][h[k - 1]]

\* There is one.
LEMMA RecursionExists ==
  ASSUME NEW D, NEW first \in D, NEW n \in Nat, NEW g, StepsIn(g, n, D)
  PROVE  \E h : Recursion(h, first, g, n, D)
<1> USE DEF StepsIn
<1> DEFINE Upto(m, h) == h[0] = first /\ \A k \in 1 .. m : h[k] = g[k][h[k - 1]]
           S == { m \in Nat : m <= n => \E h \in [0 .. m -> D] : Upto(m, h) }
<1>1. 0 \in S
  <2>1. [k \in 0 .. 0 |-> first] \in [0 .. 0 -> D] /\ Upto(0, [k \in 0 .. 0 |-> first])
    OBVIOUS
  <2> QED
    BY <2>1
<1>2. ASSUME NEW m \in Nat, m \in S
      PROVE  m + 1 \in S
  <2> SUFFICES ASSUME m + 1 <= n
               PROVE  \E h \in [0 .. m + 1 -> D] : Upto(m + 1, h)
    OBVIOUS
  <2>1. PICK it \in [0 .. m -> D] : Upto(m, it)
    BY <1>2
  <2>2. PICK h : h = [k \in 0 .. m + 1 |-> IF k <= m THEN it[k] ELSE g[k][it[m]]]
    OBVIOUS
  <2>3. it[m] \in D /\ g[m + 1][it[m]] \in D
    OBVIOUS
  <2>4. h \in [0 .. m + 1 -> D]
    BY <2>2, <2>3
  <2>5. /\ \A k \in 0 .. m : h[k] = it[k]
        /\ h[m + 1] = g[m + 1][it[m]]
    BY <2>2
  <2>6. h[0] = first
    BY <2>1, <2>5
  <2>7. ASSUME NEW k \in 1 .. m + 1
        PROVE  h[k] = g[k][h[k - 1]]
    <3>1. CASE k = m + 1
      BY <2>5, <3>1
    <3>2. CASE k # m + 1
      <4>1. k \in 1 .. m /\ k \in 0 .. m /\ k - 1 \in 0 .. m
        BY <3>2
      <4> QED
        BY <2>1, <2>5, <4>1
    <3> QED
      BY <3>1, <3>2
  <2> QED
    BY <2>4, <2>6, <2>7
<1>3. Nat \subseteq S
  <2> HIDE DEF S
  <2> QED
    BY <1>1, <1>2, SetInduction
<1> QED
  BY <1>3 DEF Recursion

\* The places of list that are left when place k is taken out, in order.
Skip(k, j) == IF j < k THEN j ELSE j + 1

LEMMA RemoveAtParts ==
  ASSUME NEW R, NEW list \in Seq(R), NEW k \in DOMAIN list
  PROVE  /\ RemoveAt(list, k) \in Seq(R)
         /\ Len(RemoveAt(list, k)) = Len(list) - 1
         /\ \A j \in 1 .. Len(list) - 1 : RemoveAt(list, k)[j] = list[Skip(k, j)]
<1> DEFINE n == Len(list)
           s == SubSeq(list, 1, k - 1)
           t == SubSeq(list, k + 1, n)
<1>1. n \in Nat /\ k \in 1 .. n /\ \A j \in 1 .. n : list[j] \in R
  BY LenProperties, ElementOfSeq
<1>2. /\ s \in Seq(R) /\ Len(s) = k - 1
      /\ \A j \in 1 .. k - 1 : s[j] = list[j]
  <2>1. /\ 1 \in Int /\ k - 1 \in Int
        /\ \A j \in 1 .. k - 1 : list[j] \in R
    BY <1>1
  <2>2. /\ s \in Seq(R)
        /\ Len(s) = IF 1 <= k - 1 THEN (k - 1) - 1 + 1 ELSE 0
        /\ \A j \in 1 .. (k - 1) - 1 + 1 : s[j] = list[1 + j - 1]
    BY <2>1, SubSeqProperties
  <2>3. \A j \in 1 .. k - 1 : j \in 1 .. (k - 1) - 1 + 1 /\ 1 + j - 1 = j
    BY <1>1
  <2> QED
    BY <1>1, <2>2, <2>3
<1>3. /\ t \in Seq(R) /\ Len(t) = n - k
      /\ \A j \in 1 .. n - k : t[j] = list[k + j]
  <2>1. /\ k + 1 \in Int /\ n \in Int
        /\ \A j \in k + 1 .. n : list[j] \in R
    BY <1>1
  <2>2. /\ t \in Seq(R)
        /\ Len(t) = IF k + 1 <= n THEN n - (k + 1) + 1 ELSE 0
        /\ \A j \in 1 .. n - (k + 1) + 1 : t[j] = list[(k + 1) + j - 1]
    BY <2>1, SubSeqProperties
  <2>3. \A j \in 1 .. n - k : j \in 1 .. n - (k + 1) + 1 /\ (k + 1) + j - 1 = k + j
    BY <1>1
  <2> QED
    BY <1>1, <2>2, <2>3
<1>4. /\ s \o t \in Seq(R)
      /\ Len(s \o t) = (k - 1) + (n - k)
      /\ \A j \in 1 .. (k - 1) + (n - k) :
           (s \o t)[j] = IF j <= k - 1 THEN s[j] ELSE t[j - (k - 1)]
  <2> HIDE DEF s, t
  <2>1. s \in Seq(R) /\ t \in Seq(R) /\ Len(s) = k - 1 /\ Len(t) = n - k
    BY <1>2, <1>3
  <2>2. /\ s \o t \in Seq(R)
        /\ Len(s \o t) = Len(s) + Len(t)
        /\ \A j \in 1 .. Len(s) + Len(t) :
             (s \o t)[j] = IF j <= Len(s) THEN s[j] ELSE t[j - Len(s)]
    BY <2>1, ConcatProperties
  <2> QED
    BY <2>1, <2>2
<1>5. ASSUME NEW j \in 1 .. n - 1
      PROVE  (s \o t)[j] = list[Skip(k, j)]
  <2> HIDE DEF s, t
  <2>1. CASE j < k
    <3>1. (s \o t)[j] = s[j] /\ j \in 1 .. k - 1
      BY <1>1, <1>4, <2>1
    <3> QED
      BY <1>1, <1>2, <2>1, <3>1 DEF Skip
  <2>2. CASE j >= k
    <3>1. (s \o t)[j] = t[j - (k - 1)]
      <4>1. j \in 1 .. (k - 1) + (n - k) /\ ~ (j <= k - 1)
        BY <1>1, <2>2
      <4> QED
        BY <1>4, <4>1
    <3>2. j - (k - 1) \in 1 .. n - k /\ k + (j - (k - 1)) = j + 1
      BY <1>1, <2>2
    <3>3. t[j - (k - 1)] = list[j + 1]
      BY <1>3, <3>2
    <3>4. Skip(k, j) = j + 1
      BY <1>1, <2>2 DEF Skip
    <3> QED
      BY <3>1, <3>3, <3>4
  <2>3. j < k \/ j >= k
    <3>1. j \in Int /\ k \in Int
      BY <1>1
    <3> QED
      BY <3>1
  <2> HIDE DEF n, s, t
  <2> QED
    BY <2>1, <2>2, <2>3
<1>6. RemoveAt(list, k) = s \o t
  BY DEF RemoveAt
<1> QED
  <2> HIDE DEF s, t
  <2> QED
    BY <1>1, <1>4, <1>5, <1>6

\* In front of a list.
LEMMA Prepended ==
  ASSUME NEW R, NEW list \in Seq(R), NEW x \in R
  PROVE  /\ <<x>> \o list \in Seq(R)
         /\ Len(<<x>> \o list) = Len(list) + 1
         /\ \A j \in 1 .. Len(list) + 1 :
              (<<x>> \o list)[j] = IF j = 1 THEN x ELSE list[j - 1]
<1>1. Len(list) \in Nat
  BY LenProperties
<1>2. PICK s : s = <<x>>
  OBVIOUS
<1>3. s \in Seq(R) /\ Len(s) = 1 /\ s[1] = x
  BY <1>2
<1>4. /\ s \o list \in Seq(R)
      /\ Len(s \o list) = 1 + Len(list)
      /\ \A j \in 1 .. 1 + Len(list) : (s \o list)[j] = IF j <= 1 THEN s[j] ELSE list[j - 1]
  <2>1. /\ s \o list \in Seq(R)
        /\ Len(s \o list) = Len(s) + Len(list)
        /\ \A j \in 1 .. Len(s) + Len(list) :
             (s \o list)[j] = IF j <= Len(s) THEN s[j] ELSE list[j - Len(s)]
    BY <1>3, ConcatProperties
  <2> QED
    BY <1>3, <2>1
<1>5. ASSUME NEW j \in 1 .. Len(list) + 1
      PROVE  (s \o list)[j] = IF j = 1 THEN x ELSE list[j - 1]
  BY <1>1, <1>3, <1>4
<1> QED
  <2>1. /\ s \o list \in Seq(R)
        /\ Len(s \o list) = Len(list) + 1
    BY <1>1, <1>4
  <2> QED
    BY <1>2, <1>5, <2>1

-----------------------------------------------------------------------------
(* Sums over finite sets.                                                  *)

\* The sum that MapThenSumSet takes of f over the finite set S.
SumOver(f, S) == MapThenSumSet(LAMBDA x : f[x], S)

AnyOf(s) == CHOOSE x \in s : TRUE

\* The function that MapThenSumSet defines by recursion, over the subsets of S.
Adds(it, f, S) ==
  it = [s \in SUBSET S |-> IF s = {} THEN 0 ELSE f[AnyOf(s)] + it[s \ {AnyOf(s)}]]

LEMMA SumOverIs ==
  ASSUME NEW S, NEW f
  PROVE  SumOver(f, S) = (CHOOSE it : Adds(it, f, S))[S]
  BY DEF SumOver, MapThenSumSet, MapThenFoldSet, Adds, AnyOf

\* There is one, and its values are numbers.
LEMMA SumExists ==
  ASSUME NEW S, IsFiniteSet(S), NEW f, \A x \in S : f[x] \in Int
  PROVE  \E it : Adds(it, f, S) /\ it \in [SUBSET S -> Int]
<1> DEFINE Small(n) == { s \in SUBSET S : Cardinality(s) <= n }
           Next(it, s) == IF s = {} THEN 0 ELSE f[AnyOf(s)] + it[s \ {AnyOf(s)}]
           Upto(n) == \E it \in [Small(n) -> Int] : \A s \in Small(n) : it[s] = Next(it, s)
           N == { n \in Nat : Upto(n) }
<1>1. \A s \in SUBSET S : /\ IsFiniteSet(s) /\ Cardinality(s) \in Nat
                          /\ Cardinality(s) <= Cardinality(S)
                          /\ Cardinality(s) = 0 <=> s = {}
  BY FS_Subset, FS_CardinalityType, FS_EmptySet
<1>2. \A s \in SUBSET S : s # {} =>
        /\ AnyOf(s) \in s /\ AnyOf(s) \in S /\ s \ {AnyOf(s)} \in SUBSET S
        /\ Cardinality(s \ {AnyOf(s)}) = Cardinality(s) - 1
  <2> TAKE s \in SUBSET S
  <2> HAVE s # {}
  <2>1. AnyOf(s) \in s
    BY DEF AnyOf
  <2>2. IsFiniteSet(s)
    BY <1>1
  <2>3. Cardinality(s \ {AnyOf(s)}) = Cardinality(s) - 1
    BY <2>1, <2>2, FS_RemoveElement
  <2> QED
    BY <2>1, <2>3
<1>3. Upto(0)
  <2>1. \A s \in Small(0) : s = {}
    BY <1>1
  <2>2. [s \in Small(0) |-> 0] \in [Small(0) -> Int]
    OBVIOUS
  <2>3. \A s \in Small(0) : Next([s2 \in Small(0) |-> 0], s) = 0
    BY <2>1
  <2> QED
    BY <2>1, <2>2, <2>3
<1>4. ASSUME NEW n \in Nat, Upto(n)
      PROVE  Upto(n + 1)
  <2>1. PICK it \in [Small(n) -> Int] : \A s \in Small(n) : it[s] = Next(it, s)
    BY <1>4
  <2>2. \A s \in Small(n + 1) : s \in SUBSET S /\ (s # {} => s \ {AnyOf(s)} \in Small(n))
    BY <1>1, <1>2
  <2> HIDE DEF Small
  <2>3. PICK g : g = [s \in Small(n + 1) |-> Next(it, s)]
    OBVIOUS
  <2>4. g \in [Small(n + 1) -> Int]
    <3>1. ASSUME NEW s \in Small(n + 1)
          PROVE  Next(it, s) \in Int
      <4>1. s # {} => it[s \ {AnyOf(s)}] \in Int
        BY <2>1, <2>2
      <4>2. s # {} => f[AnyOf(s)] \in Int
        BY <1>2, <2>2
      <4> QED
        BY <4>1, <4>2
    <3> QED
      BY <2>3, <3>1
  <2>5. \A s \in Small(n) : s \in Small(n + 1)
    BY <1>1 DEF Small
  <2>6. \A s \in Small(n) : g[s] = it[s]
    BY <2>1, <2>3, <2>5
  <2>7. ASSUME NEW s \in Small(n + 1)
        PROVE  g[s] = Next(g, s)
    <3>1. s # {} => g[s \ {AnyOf(s)}] = it[s \ {AnyOf(s)}]
      BY <2>2, <2>6
    <3> QED
      BY <2>3, <3>1
  <2> HIDE DEF Next
  <2> QED
    BY <2>4, <2>7
<1>5. Nat \subseteq N
  <2>1. 0 \in N /\ \A n \in Nat : n \in N => n + 1 \in N
    <3> HIDE DEF Upto
    <3> QED
      BY <1>3, <1>4
  <2> HIDE DEF N
  <2> QED
    BY <2>1, SetInduction
<1>6. Upto(Cardinality(S))
  <2>1. Cardinality(S) \in Nat
    BY FS_CardinalityType
  <2> HIDE DEF Upto
  <2> QED
    BY <1>5, <2>1
<1>7. Small(Cardinality(S)) = SUBSET S
  BY <1>1
<1>8. PICK it \in [SUBSET S -> Int] : \A s \in SUBSET S : it[s] = Next(it, s)
  <2> HIDE DEF Next, Small
  <2> QED
    BY <1>6, <1>7
<1> QED
  BY <1>8 DEF Adds

\* It does not depend on the set around the subsets that are summed over.
LEMMA SumsAgree ==
  ASSUME NEW S, IsFiniteSet(S), NEW T \in SUBSET S, NEW f, NEW it, NEW jt,
         Adds(it, f, S), Adds(jt, f, T)
  PROVE  \A s \in SUBSET T : it[s] = jt[s]
<1> DEFINE Same(n) == \A s \in SUBSET T : Cardinality(s) <= n => it[s] = jt[s]
           N == { n \in Nat : Same(n) }
<1>1. \A s \in SUBSET T : /\ IsFiniteSet(s) /\ Cardinality(s) \in Nat
                          /\ Cardinality(s) = 0 <=> s = {}
  BY FS_Subset, FS_CardinalityType, FS_EmptySet
<1>2. ASSUME NEW s \in SUBSET T, s # {}
      PROVE  /\ s \ {AnyOf(s)} \in SUBSET T /\ Cardinality(s \ {AnyOf(s)}) = Cardinality(s) - 1
             /\ it[s] = f[AnyOf(s)] + it[s \ {AnyOf(s)}]
             /\ jt[s] = f[AnyOf(s)] + jt[s \ {AnyOf(s)}]
  <2>1. AnyOf(s) \in s
    BY <1>2 DEF AnyOf
  <2>2. Cardinality(s \ {AnyOf(s)}) = Cardinality(s) - 1
    BY <1>1, <2>1, FS_RemoveElement
  <2>3. s \in SUBSET S
    OBVIOUS
  <2>4. it[s] = f[AnyOf(s)] + it[s \ {AnyOf(s)}]
    BY <1>2, <2>3 DEF Adds
  <2>5. jt[s] = f[AnyOf(s)] + jt[s \ {AnyOf(s)}]
    BY <1>2 DEF Adds
  <2> QED
    BY <2>2, <2>4, <2>5
<1>3. it[{}] = 0 /\ jt[{}] = 0
  BY DEF Adds
<1>4. Same(0)
  BY <1>1, <1>3
<1>5. ASSUME NEW n \in Nat, Same(n)
      PROVE  Same(n + 1)
  <2> SUFFICES ASSUME NEW s \in SUBSET T, Cardinality(s) <= n + 1
               PROVE  it[s] = jt[s]
    OBVIOUS
  <2>1. CASE s = {}
    BY <1>3, <2>1
  <2>2. CASE s # {}
    <3>1. Cardinality(s \ {AnyOf(s)}) <= n
      BY <1>1, <1>2, <2>2
    <3> QED
      BY <1>2, <1>5, <2>2, <3>1
  <2> QED
    BY <2>1, <2>2
<1>6. Nat \subseteq N
  <2>1. 0 \in N /\ \A n \in Nat : n \in N => n + 1 \in N
    <3> HIDE DEF Same
    <3> QED
      BY <1>4, <1>5
  <2> HIDE DEF N
  <2> QED
    BY <2>1, SetInduction
<1> QED
  BY <1>1, <1>6

\* What the sum is, one element at a time.
LEMMA SumOverStep ==
  ASSUME NEW S, IsFiniteSet(S), NEW f, \A x \in S : f[x] \in Int
  PROVE  /\ SumOver(f, S) \in Int
         /\ SumOver(f, S) = IF S = {} THEN 0 ELSE f[AnyOf(S)] + SumOver(f, S \ {AnyOf(S)})
<1>1. PICK it : it = CHOOSE g : Adds(g, f, S)
  OBVIOUS
<1>2. PICK jt : Adds(jt, f, S) /\ jt \in [SUBSET S -> Int]
  BY SumExists
<1>3. Adds(it, f, S) /\ SumOver(f, S) = it[S]
  BY <1>1, <1>2, SumOverIs
<1>4. it[S] = jt[S]
  BY <1>2, <1>3, SumsAgree
<1>5. it[S] \in Int
  BY <1>2, <1>4
<1>6. it[S] = IF S = {} THEN 0 ELSE f[AnyOf(S)] + it[S \ {AnyOf(S)}]
  BY <1>3 DEF Adds
<1>7. SumOver(f, S \ {AnyOf(S)}) = it[S \ {AnyOf(S)}]
  <2>1. PICK T : T = S \ {AnyOf(S)}
    OBVIOUS
  <2>2. T \in SUBSET S /\ IsFiniteSet(T) /\ \A x \in T : f[x] \in Int
    BY <2>1, FS_Subset
  <2>3. PICK kt : kt = CHOOSE g : Adds(g, f, T)
    OBVIOUS
  <2>4. Adds(kt, f, T) /\ SumOver(f, T) = kt[T]
    BY <2>2, <2>3, SumExists, SumOverIs
  <2>5. it[T] = kt[T]
    BY <1>3, <2>2, <2>4, SumsAgree
  <2> QED
    BY <2>1, <2>4, <2>5
<1> QED
  BY <1>3, <1>5, <1>6, <1>7

\* The element may be any of them.
LEMMA SumOverTakesAny ==
  ASSUME NEW f, NEW S, IsFiniteSet(S), \A x \in S : f[x] \in Int, NEW x \in S
  PROVE  SumOver(f, S) = f[x] + SumOver(f, S \ {x})
<1> DEFINE Takes(T) == \A y \in T : SumOver(f, T) = f[y] + SumOver(f, T \ {y})
           Upto(n) == \A T \in SUBSET S : Cardinality(T) <= n => Takes(T)
           N == { n \in Nat : Upto(n) }
<1>1. \A T \in SUBSET S : /\ IsFiniteSet(T) /\ Cardinality(T) \in Nat
                          /\ Cardinality(T) = 0 <=> T = {}
  BY FS_Subset, FS_CardinalityType, FS_EmptySet
<1>2. \A T \in SUBSET S : \A y \in T : Cardinality(T \ {y}) = Cardinality(T) - 1
  BY <1>1, FS_RemoveElement
<1>3. \A T \in SUBSET S : SumOver(f, T) \in Int
  BY <1>1, SumOverStep
<1>4. Upto(0)
  BY <1>1
<1>5. ASSUME NEW n \in Nat, Upto(n)
      PROVE  Upto(n + 1)
  <2> SUFFICES ASSUME NEW T \in SUBSET S, Cardinality(T) <= n + 1, NEW y \in T
               PROVE  SumOver(f, T) = f[y] + SumOver(f, T \ {y})
    OBVIOUS
  <2>1. PICK z : z = AnyOf(T)
    OBVIOUS
  <2>2. z \in T
    BY <2>1 DEF AnyOf
  <2>3. SumOver(f, T) = f[z] + SumOver(f, T \ {z})
    BY <1>1, <2>1, <2>2, SumOverStep
  <2>4. CASE y = z
    BY <2>3, <2>4
  <2>5. CASE y # z
    <3>1. PICK A, B, C : A = T \ {z} /\ B = T \ {y} /\ C = T \ {y, z}
      OBVIOUS
    <3>2. /\ A \in SUBSET S /\ B \in SUBSET S /\ C \in SUBSET S
          /\ y \in A /\ z \in B /\ C = A \ {y} /\ C = B \ {z}
      BY <2>2, <2>5, <3>1
    <3>3. Cardinality(A) <= n /\ Cardinality(B) <= n
      BY <1>1, <1>2, <2>2, <3>1
    <3>4. SumOver(f, A) = f[y] + SumOver(f, C) /\ SumOver(f, B) = f[z] + SumOver(f, C)
      BY <1>5, <3>2, <3>3
    <3>5. SumOver(f, C) \in Int /\ f[y] \in Int /\ f[z] \in Int
      BY <1>3, <2>2, <3>2
    <3>6. SumOver(f, T) = f[z] + SumOver(f, A)
      BY <2>3, <3>1
    <3>7. SumOver(f, T) = f[y] + SumOver(f, B)
      BY <3>4, <3>5, <3>6
    <3> QED
      BY <3>1, <3>7
  <2> QED
    BY <2>4, <2>5
<1>6. Nat \subseteq N
  <2>1. 0 \in N /\ \A n \in Nat : n \in N => n + 1 \in N
    <3> HIDE DEF Upto
    <3> QED
      BY <1>4, <1>5
  <2> HIDE DEF N
  <2> QED
    BY <2>1, SetInduction
<1>7. Upto(Cardinality(S))
  <2> HIDE DEF Upto
  <2> QED
    BY <1>1, <1>6
<1> QED
  BY <1>1, <1>7

LEMMA SumOverWithout ==
  ASSUME NEW f, NEW S, IsFiniteSet(S), \A x \in S : f[x] \in Int, NEW x \in S
  PROVE  SumOver(f, S \ {x}) = SumOver(f, S) - f[x]
<1>1. SumOver(f, S) = f[x] + SumOver(f, S \ {x})
  BY SumOverTakesAny
<1>2. IsFiniteSet(S \ {x})
  BY FS_Subset
<1>3. SumOver(f, S \ {x}) \in Int
  BY <1>2, SumOverStep
<1> QED
  BY <1>1, <1>3

\* It depends on the values in S alone.
LEMMA SumOverSame ==
  ASSUME NEW S, IsFiniteSet(S), NEW f, NEW g, \A x \in S : f[x] \in Int /\ g[x] = f[x]
  PROVE  SumOver(g, S) = SumOver(f, S)
<1> DEFINE Upto(n) == \A T \in SUBSET S : Cardinality(T) <= n => SumOver(g, T) = SumOver(f, T)
           N == { n \in Nat : Upto(n) }
<1>1. \A T \in SUBSET S : /\ IsFiniteSet(T) /\ Cardinality(T) \in Nat
                          /\ Cardinality(T) = 0 <=> T = {}
  BY FS_Subset, FS_CardinalityType, FS_EmptySet
<1>2. ASSUME NEW T \in SUBSET S, T # {}
      PROVE  /\ T \ {AnyOf(T)} \in SUBSET S /\ Cardinality(T \ {AnyOf(T)}) = Cardinality(T) - 1
             /\ SumOver(f, T) = f[AnyOf(T)] + SumOver(f, T \ {AnyOf(T)})
             /\ SumOver(g, T) = f[AnyOf(T)] + SumOver(g, T \ {AnyOf(T)})
  <2>1. AnyOf(T) \in T
    BY <1>2 DEF AnyOf
  <2>2. Cardinality(T \ {AnyOf(T)}) = Cardinality(T) - 1
    BY <1>1, <2>1, FS_RemoveElement
  <2>3. SumOver(f, T) = f[AnyOf(T)] + SumOver(f, T \ {AnyOf(T)})
    BY <1>1, <1>2, SumOverStep
  <2>4. SumOver(g, T) = g[AnyOf(T)] + SumOver(g, T \ {AnyOf(T)})
    BY <1>1, <1>2, SumOverStep
  <2> QED
    BY <2>1, <2>2, <2>3, <2>4
<1>3. SumOver(f, {}) = 0 /\ SumOver(g, {}) = 0
  BY FS_EmptySet, SumOverStep
<1>4. Upto(0)
  BY <1>1, <1>3
<1>5. ASSUME NEW n \in Nat, Upto(n)
      PROVE  Upto(n + 1)
  <2> SUFFICES ASSUME NEW T \in SUBSET S, Cardinality(T) <= n + 1
               PROVE  SumOver(g, T) = SumOver(f, T)
    OBVIOUS
  <2>1. CASE T = {}
    BY <1>3, <2>1
  <2>2. CASE T # {}
    <3>1. Cardinality(T \ {AnyOf(T)}) <= n
      <4>1. Cardinality(T \ {AnyOf(T)}) = Cardinality(T) - 1
        BY <1>2, <2>2
      <4>2. Cardinality(T) \in Nat
        BY <1>1
      <4> QED
        BY <4>1, <4>2
    <3> QED
      BY <1>2, <1>5, <2>2, <3>1
  <2> QED
    BY <2>1, <2>2
<1>6. Nat \subseteq N
  <2>1. 0 \in N /\ \A n \in Nat : n \in N => n + 1 \in N
    <3> HIDE DEF Upto
    <3> QED
      BY <1>4, <1>5
  <2> HIDE DEF N
  <2> QED
    BY <2>1, SetInduction
<1>7. Upto(Cardinality(S))
  <2> HIDE DEF Upto
  <2> QED
    BY <1>1, <1>6
<1> QED
  BY <1>1, <1>7

\* Intervals that lie apart between lo and hi are together no longer than hi - lo.
LEMMA ApartFitIn ==
  ASSUME NEW S, IsFiniteSet(S), NEW f, NEW b, NEW lo \in Int, NEW hi \in Int, lo <= hi,
         \A x \in S : /\ f[x] \in Nat /\ f[x] > 0 /\ b[x] \in Int
                      /\ lo <= b[x] /\ b[x] + f[x] <= hi,
         \A x, y \in S : x # y => b[x] + f[x] <= b[y] \/ b[y] + f[y] <= b[x]
  PROVE  SumOver(f, S) <= hi - lo
<1> DEFINE Below(T, end) == lo <= end /\ \A x \in T : b[x] + f[x] <= end
           Upto(n) == \A T \in SUBSET S : Cardinality(T) <= n =>
                        \A end \in Int : Below(T, end) => SumOver(f, T) <= end - lo
           N == { n \in Nat : Upto(n) }
<1>1. \A T \in SUBSET S : /\ IsFiniteSet(T) /\ Cardinality(T) \in Nat
                          /\ Cardinality(T) = 0 <=> T = {}
  BY FS_Subset, FS_CardinalityType, FS_EmptySet
<1>2. SumOver(f, {}) = 0 /\ \A T \in SUBSET S : SumOver(f, T) \in Int
  <2>1. SumOver(f, {}) = 0
    BY FS_EmptySet, SumOverStep
  <2>2. ASSUME NEW T \in SUBSET S
        PROVE  SumOver(f, T) \in Int
    <3>1. IsFiniteSet(T) /\ \A x \in T : f[x] \in Int
      BY <1>1
    <3> QED
      BY <3>1, SumOverStep
  <2> QED
    BY <2>1, <2>2
\* one of them is the last
<1>3. ASSUME NEW T \in SUBSET S, T # {}
      PROVE  \E z \in T : \A y \in T : b[y] <= b[z]
  <2> DEFINE D == { hi - b[x] : x \in T }
  <2>1. D \in SUBSET Nat /\ D # {}
    BY <1>3
  <2>2. PICK d \in D : \A c \in D : d <= c
    <3> HIDE DEF D
    <3> QED
      BY <2>1, LeastElement
  <2>3. PICK z \in T : d = hi - b[z]
    BY <2>2
  <2>4. ASSUME NEW y \in T
        PROVE  b[y] <= b[z]
    <3>1. hi - b[z] <= hi - b[y]
      BY <2>2, <2>3
    <3> QED
      BY <3>1
  <2> QED
    BY <2>4
<1>4. Upto(0)
  <2> SUFFICES ASSUME NEW T \in SUBSET S, Cardinality(T) <= 0, NEW end \in Int, lo <= end
               PROVE  SumOver(f, T) <= end - lo
    OBVIOUS
  <2>1. T = {}
    <3>1. Cardinality(T) = 0
      BY <1>1
    <3> QED
      BY <1>1, <3>1
  <2> QED
    BY <1>2, <2>1
<1>5. ASSUME NEW n \in Nat, Upto(n)
      PROVE  Upto(n + 1)
  <2> SUFFICES ASSUME NEW T \in SUBSET S, Cardinality(T) <= n + 1,
                      NEW end \in Int, Below(T, end)
               PROVE  SumOver(f, T) <= end - lo
    OBVIOUS
  <2>1. CASE T = {}
    BY <1>2, <2>1
  <2>2. CASE T # {}
    <3>1. PICK z \in T : \A y \in T : b[y] <= b[z]
      BY <1>3, <2>2
    <3>2. PICK R : R = T \ {z}
      OBVIOUS
    <3>3. R \in SUBSET S /\ Cardinality(R) <= n
      <4>1. Cardinality(T \ {z}) = Cardinality(T) - 1
        BY <1>1, FS_RemoveElement
      <4> QED
        BY <1>1, <3>2, <4>1
    <3>4. Below(R, b[z])
      <4>1. lo <= b[z]
        OBVIOUS
      <4>2. ASSUME NEW y \in R
            PROVE  b[y] + f[y] <= b[z]
        <5>1. y \in S /\ z \in S /\ y # z /\ b[y] <= b[z]
          BY <3>1, <3>2
        <5>2. b[y] + f[y] <= b[z] \/ b[z] + f[z] <= b[y]
          BY <5>1
        <5>3. b[y] \in Int /\ b[z] \in Int /\ f[z] \in Nat /\ f[z] > 0
          BY <5>1
        <5> QED
          BY <5>1, <5>2, <5>3
      <4> QED
        BY <4>1, <4>2
    <3>5. z \in S /\ b[z] \in Int /\ f[z] \in Nat /\ b[z] + f[z] <= end
      OBVIOUS
    <3>6. SumOver(f, R) <= b[z] - lo
      BY <1>5, <3>3, <3>4, <3>5
    <3>7. SumOver(f, T) = f[z] + SumOver(f, R) /\ SumOver(f, R) \in Int
      BY <1>1, <1>2, <3>2, <3>3, SumOverTakesAny
    <3> QED
      BY <3>5, <3>6, <3>7
  <2> QED
    BY <2>1, <2>2
<1>6. Nat \subseteq N
  <2>1. 0 \in N /\ \A n \in Nat : n \in N => n + 1 \in N
    <3> HIDE DEF Upto
    <3> QED
      BY <1>4, <1>5
  <2> HIDE DEF N
  <2> QED
    BY <2>1, SetInduction
<1>7. Upto(Cardinality(S))
  <2> HIDE DEF Upto
  <2> QED
    BY <1>1, <1>6
<1>8. Below(S, hi)
  OBVIOUS
<1> QED
  BY <1>1, <1>7, <1>8

\* A sum of numbers that are not negative is not, and grows with the set at most
\* as fast as the largest of them.
LEMMA SumOverBounds ==
  ASSUME NEW S, IsFiniteSet(S), NEW f, NEW most \in Nat, \A x \in S : f[x] \in 0 .. most
  PROVE  SumOver(f, S) \in 0 .. most * Cardinality(S)
<1> DEFINE Upto(n) == \A T \in SUBSET S : Cardinality(T) <= n =>
                        SumOver(f, T) \in 0 .. most * Cardinality(T)
           N == { n \in Nat : Upto(n) }
<1>1. \A T \in SUBSET S : /\ IsFiniteSet(T) /\ Cardinality(T) \in Nat
                          /\ Cardinality(T) = 0 <=> T = {}
  BY FS_Subset, FS_CardinalityType, FS_EmptySet
<1>2. SumOver(f, {}) = 0 /\ Cardinality({}) = 0
  BY FS_EmptySet, SumOverStep
<1>3. Upto(0)
  BY <1>1, <1>2
<1>4. ASSUME NEW n \in Nat, Upto(n)
      PROVE  Upto(n + 1)
  <2> SUFFICES ASSUME NEW T \in SUBSET S, Cardinality(T) <= n + 1
               PROVE  SumOver(f, T) \in 0 .. most * Cardinality(T)
    OBVIOUS
  <2>1. CASE T = {}
    BY <1>2, <2>1
  <2>2. CASE T # {}
    <3>1. PICK x \in T : TRUE
      BY <2>2
    <3>2. PICK R : R = T \ {x} /\ R \in SUBSET S
      OBVIOUS
    <3>3. Cardinality(R) = Cardinality(T) - 1 /\ Cardinality(R) <= n
      <4>1. Cardinality(T \ {x}) = Cardinality(T) - 1
        BY <1>1, FS_RemoveElement
      <4> QED
        BY <1>1, <3>2, <4>1
    <3>4. SumOver(f, T) = f[x] + SumOver(f, R)
      <4>1. IsFiniteSet(T) /\ \A y \in T : f[y] \in Int
        BY <1>1
      <4> QED
        BY <3>2, <4>1, SumOverTakesAny
    <3>5. SumOver(f, R) \in 0 .. most * Cardinality(R)
      BY <1>4, <3>2, <3>3
    <3>6. PICK c, d : c = Cardinality(R) /\ d = Cardinality(T)
      OBVIOUS
    <3>7. c \in Nat /\ d \in Nat /\ d = c + 1
      BY <1>1, <3>2, <3>3, <3>6
    <3>8. most * d = most * c + most
      BY <3>7
    <3>9. f[x] \in 0 .. most
      OBVIOUS
    <3>10. most * c \in Nat
      BY <3>7
    <3> QED
      BY <3>4, <3>5, <3>6, <3>8, <3>9, <3>10
  <2> QED
    BY <2>1, <2>2
<1>5. Nat \subseteq N
  <2>1. 0 \in N /\ \A n \in Nat : n \in N => n + 1 \in N
    <3> HIDE DEF Upto
    <3> QED
      BY <1>3, <1>4
  <2> HIDE DEF N
  <2> QED
    BY <2>1, SetInduction
<1>6. Upto(Cardinality(S))
  <2> HIDE DEF Upto
  <2> QED
    BY <1>1, <1>5
<1> QED
  BY <1>1, <1>6

LEMMA SumOverNotNegative ==
  ASSUME NEW S, IsFiniteSet(S), NEW f, \A x \in S : f[x] \in Nat
  PROVE  SumOver(f, S) \in Nat
<1> DEFINE Upto(n) == \A T \in SUBSET S : Cardinality(T) <= n => SumOver(f, T) \in Nat
           N == { n \in Nat : Upto(n) }
<1>1. \A T \in SUBSET S : /\ IsFiniteSet(T) /\ Cardinality(T) \in Nat
                          /\ Cardinality(T) = 0 <=> T = {}
  BY FS_Subset, FS_CardinalityType, FS_EmptySet
<1>0. SumOver(f, {}) = 0
  BY FS_EmptySet, SumOverStep
<1>2. Upto(0)
  BY <1>0, <1>1
<1>3. ASSUME NEW n \in Nat, Upto(n)
      PROVE  Upto(n + 1)
  <2> SUFFICES ASSUME NEW T \in SUBSET S, Cardinality(T) <= n + 1
               PROVE  SumOver(f, T) \in Nat
    OBVIOUS
  <2>1. CASE T = {}
    BY <1>0, <2>1
  <2>2. CASE T # {}
    <3>1. PICK x \in T : TRUE
      BY <2>2
    <3>2. PICK R : R = T \ {x} /\ R \in SUBSET S
      OBVIOUS
    <3>3. Cardinality(R) <= n
      <4>1. Cardinality(T \ {x}) = Cardinality(T) - 1
        BY <1>1, FS_RemoveElement
      <4> QED
        BY <1>1, <3>2, <4>1
    <3>4. SumOver(f, T) = f[x] + SumOver(f, R)
      <4>1. IsFiniteSet(T) /\ \A y \in T : f[y] \in Int
        BY <1>1
      <4> QED
        BY <3>2, <4>1, SumOverTakesAny
    <3>5. SumOver(f, R) \in Nat
      BY <1>3, <3>2, <3>3
    <3>6. f[x] \in Nat
      OBVIOUS
    <3> QED
      BY <3>4, <3>5, <3>6
  <2> QED
    BY <2>1, <2>2
<1>4. Nat \subseteq N
  <2>1. 0 \in N /\ \A n \in Nat : n \in N => n + 1 \in N
    <3> HIDE DEF Upto
    <3> QED
      BY <1>2, <1>3
  <2> HIDE DEF N
  <2> QED
    BY <2>1, SetInduction
<1>5. Upto(Cardinality(S))
  <2> HIDE DEF Upto
  <2> QED
    BY <1>1, <1>4
<1> QED
  BY <1>1, <1>5

\* The sum of one field over the entries of a table.
FieldSum(table, field, S) == MapThenSumSet(LAMBDA x : table[x][field], S)

LEMMA FieldSumIs ==
  ASSUME NEW table, NEW field, NEW S, IsFiniteSet(S), \A x \in S : table[x][field] \in Int,
         NEW f, f = [x \in S |-> table[x][field]]
  PROVE  FieldSum(table, field, S) = SumOver(f, S)
<1> DEFINE AddsField(it) ==
      it = [s \in SUBSET S |-> IF s = {} THEN 0
                               ELSE table[AnyOf(s)][field] + it[s \ {AnyOf(s)}]]
<1>1. FieldSum(table, field, S) = (CHOOSE it : AddsField(it))[S]
  BY DEF FieldSum, MapThenSumSet, MapThenFoldSet, AnyOf
<1>2. \A s \in SUBSET S : s # {} => f[AnyOf(s)] = table[AnyOf(s)][field]
  BY DEF AnyOf
<1>3. \A it : Adds(it, f, S) <=> AddsField(it)
  <2> TAKE it
  <2>1. \A s \in SUBSET S :
          (IF s = {} THEN 0 ELSE f[AnyOf(s)] + it[s \ {AnyOf(s)}])
            = IF s = {} THEN 0 ELSE table[AnyOf(s)][field] + it[s \ {AnyOf(s)}]
    BY <1>2
  <2>2. [s \in SUBSET S |-> IF s = {} THEN 0 ELSE f[AnyOf(s)] + it[s \ {AnyOf(s)}]]
          = [s \in SUBSET S |-> IF s = {} THEN 0
                                ELSE table[AnyOf(s)][field] + it[s \ {AnyOf(s)}]]
    BY <2>1, Zenon
  <2> QED
    BY <2>2, Zenon DEF Adds
<1>4. PICK it : it = CHOOSE g : AddsField(g)
  OBVIOUS
<1>5. PICK jt : jt = CHOOSE g : Adds(g, f, S)
  OBVIOUS
<1>6. \E g : Adds(g, f, S)
  <2>1. \A x \in S : f[x] \in Int
    OBVIOUS
  <2> QED
    BY <2>1, SumExists
<1>7. Adds(it, f, S) /\ Adds(jt, f, S)
  <2> HIDE DEF AddsField
  <2> QED
    BY <1>3, <1>4, <1>5, <1>6
<1>8. it[S] = jt[S]
  BY <1>7, SumsAgree
<1> QED
  <2> HIDE DEF AddsField
  <2> QED
    BY <1>1, <1>4, <1>5, <1>8, SumOverIs

LEMMA FieldSumBounds ==
  ASSUME NEW table, NEW field, NEW S, IsFiniteSet(S), \A x \in S : table[x][field] \in Int
  PROVE  /\ FieldSum(table, field, S) \in Int
         /\ (\A x \in S : table[x][field] \in Nat) => FieldSum(table, field, S) \in Nat
         /\ \A most \in Nat : (\A x \in S : table[x][field] \in 0 .. most) =>
              FieldSum(table, field, S) \in 0 .. most * Cardinality(S)
<1>1. PICK f : f = [x \in S |-> table[x][field]]
  OBVIOUS
<1>2. FieldSum(table, field, S) = SumOver(f, S)
  BY <1>1, FieldSumIs
<1>3. \A x \in S : f[x] \in Int /\ f[x] = table[x][field]
  BY <1>1
<1>4. SumOver(f, S) \in Int
  BY <1>3, SumOverStep
<1>5. ASSUME \A x \in S : table[x][field] \in Nat
      PROVE  SumOver(f, S) \in Nat
  <2>1. \A x \in S : f[x] \in Nat
    BY <1>3, <1>5
  <2> QED
    BY <2>1, SumOverNotNegative
<1>6. ASSUME NEW most \in Nat, \A x \in S : table[x][field] \in 0 .. most
      PROVE  SumOver(f, S) \in 0 .. most * Cardinality(S)
  <2>1. \A x \in S : f[x] \in 0 .. most
    BY <1>3, <1>6
  <2> QED
    BY <2>1, SumOverBounds
<1> QED
  BY <1>2, <1>4, <1>5, <1>6

-----------------------------------------------------------------------------
(* A sequence of sequences, flattened: the k-th of them begins behind place *)
(* off[k - 1] of the result.                                               *)

Offsets(off, seqs) ==
  /\ off \in [0 .. Len(seqs) -> Nat]
  /\ off[0] = 0
  /\ \A k \in 1 .. Len(seqs) : off[k] = off[k - 1] + Len(seqs[k])

FlattensTo(t, seqs, off, R) ==
  /\ t \in Seq(R)
  /\ Len(t) = off[Len(seqs)]
  /\ \A k \in 1 .. Len(seqs) : \A i \in 1 .. Len(seqs[k]) :
       t[off[k - 1] + i] = seqs[k][i]

LEMMA FlattenIs ==
  ASSUME NEW R, NEW seqs \in Seq(Seq(R)), Len(seqs) > 0
  PROVE  \E u : /\ FlattenSeq(seqs) = u[Len(seqs)]
                /\ u[1] = seqs[1]
                /\ \A k \in 2 .. Len(seqs) : u[k] = u[k - 1] \o seqs[k]
<1> DEFINE Body(h) == [i \in 1 .. Len(seqs) |->
                         IF i = 1 THEN seqs[i] ELSE h[i - 1] \o seqs[i]]
<1>1. Len(seqs) \in Nat /\ \A k \in 1 .. Len(seqs) : seqs[k] \in Seq(R)
  BY LenProperties, ElementOfSeq
<1>2. FlattenSeq(seqs) = (CHOOSE h : h = Body(h))[Len(seqs)]
  BY DEF FlattenSeq
<1>3. \E h : h = Body(h)
  <2>1. PICK D, first : D = Seq(R) /\ first = << >>
    OBVIOUS
  <2> DEFINE g == [k \in 1 .. Len(seqs) |-> [s \in D |-> s \o seqs[k]]]
  <2>2. StepsIn(g, Len(seqs), D)
    BY <1>1, <2>1, ConcatProperties DEF StepsIn
  <2>3. PICK h : Recursion(h, first, g, Len(seqs), D)
    <3>1. first \in D
      BY <2>1
    <3> HIDE DEF g
    <3> QED
      BY <1>1, <2>2, <3>1, RecursionExists
  <2>4. h \in [0 .. Len(seqs) -> D] /\ h[0] = first
    BY <2>3 DEF Recursion
  <2>5. ASSUME NEW k \in 1 .. Len(seqs)
        PROVE  h[k] = h[k - 1] \o seqs[k]
    <3>1. h[k - 1] \in D
      <4>1. k - 1 \in 0 .. Len(seqs)
        BY <1>1
      <4> QED
        BY <2>4, <4>1
    <3>2. h[k] = g[k][h[k - 1]]
      <4> HIDE DEF g
      <4> QED
        BY <2>3 DEF Recursion
    <3> QED
      BY <3>1, <3>2
  <2>6. PICK it : it = [i \in 1 .. Len(seqs) |-> h[i]]
    OBVIOUS
  <2>7. ASSUME NEW i \in 1 .. Len(seqs)
        PROVE  it[i] = Body(it)[i]
    <3>1. CASE i = 1
      <4>1. it[1] = h[1 - 1] \o seqs[1]
        BY <1>1, <2>5, <2>6, <3>1
      <4>2. h[1 - 1] = << >>
        BY <2>1, <2>4
      <4>3. it[1] = seqs[1]
        BY <1>1, <3>1, <4>1, <4>2, ConcatEmptySeq
      <4> QED
        BY <3>1, <4>3
    <3>2. CASE i # 1
      <4>1. i - 1 \in 1 .. Len(seqs)
        BY <1>1, <3>2
      <4>2. it[i] = it[i - 1] \o seqs[i]
        BY <2>5, <2>6, <4>1
      <4>3. Body(it)[i] = it[i - 1] \o seqs[i]
        BY <3>2
      <4> QED
        BY <4>2, <4>3
    <3> QED
      BY <3>1, <3>2
  <2>8. it = Body(it)
    BY <2>6, <2>7
  <2> QED
    BY <2>8
<1>4. PICK u : u = CHOOSE h : h = Body(h)
  OBVIOUS
<1>5. u = Body(u)
  <2> HIDE DEF Body
  <2> QED
    BY <1>3, <1>4
<1>6. u[1] = seqs[1]
  BY <1>1, <1>5
<1>7. ASSUME NEW k \in 2 .. Len(seqs)
      PROVE  u[k] = u[k - 1] \o seqs[k]
  <2>1. k \in 1 .. Len(seqs) /\ k # 1
    BY <1>1
  <2> QED
    BY <1>5, <2>1
<1> HIDE DEF Body
<1> QED
  BY <1>2, <1>4, <1>6, <1>7

LEMMA FlattenParts ==
  ASSUME NEW R, NEW seqs \in Seq(Seq(R)), NEW off, Offsets(off, seqs)
  PROVE  FlattensTo(FlattenSeq(seqs), seqs, off, R)
<1> USE DEF FlattensTo
<1>1. PICK n : n = Len(seqs)
  OBVIOUS
<1>2. n \in Nat /\ \A k \in 1 .. n : seqs[k] \in Seq(R) /\ Len(seqs[k]) \in Nat
  BY <1>1, LenProperties, ElementOfSeq
<1>3. /\ \A k \in 0 .. n : off[k] \in Nat
      /\ off[0] = 0
      /\ \A k \in 1 .. n : off[k] = off[k - 1] + Len(seqs[k])
  BY <1>1 DEF Offsets
<1>4. CASE n = 0
  <2>1. FlattenSeq(seqs) = seqs
    BY <1>1, <1>4 DEF FlattenSeq
  <2>2. seqs = << >>
    BY <1>1, <1>4, EmptySeq
  <2>3. << >> \in Seq(R)
    OBVIOUS
  <2> QED
    BY <1>1, <1>3, <1>4, <2>1, <2>2, <2>3
<1>5. CASE n > 0
  <2>1. PICK u : /\ FlattenSeq(seqs) = u[n]
                 /\ u[1] = seqs[1]
                 /\ \A k \in 2 .. n : u[k] = u[k - 1] \o seqs[k]
    BY <1>1, <1>5, FlattenIs
  <2> DEFINE Good(m, t) ==
               /\ t \in Seq(R) /\ Len(t) = off[m]
               /\ \A k \in 1 .. m : \A i \in 1 .. Len(seqs[k]) :
                    t[off[k - 1] + i] = seqs[k][i]
             S == { m \in Nat : m + 1 <= n => Good(m + 1, u[m + 1]) }
  <2>2. 0 \in S
    <3>1. PICK t : t = seqs[1]
      OBVIOUS
    <3>2. /\ t \in Seq(R) /\ Len(t) \in Nat /\ off[1] = off[1 - 1] + Len(t)
          /\ off[1 - 1] = 0
      BY <1>2, <1>3, <1>5, <3>1
    <3>3. Good(1, t)
      BY <3>1, <3>2
    <3> HIDE DEF Good
    <3> QED
      BY <2>1, <3>1, <3>3
  <2>3. ASSUME NEW m \in Nat, m \in S
        PROVE  m + 1 \in S
    <3>1. PICK p, q : p = m + 1 /\ q = p + 1
      OBVIOUS
    <3> SUFFICES ASSUME q <= n PROVE Good(q, u[q])
      BY <3>1
    <3>2. p \in 1 .. n /\ q \in 2 .. n /\ q \in 1 .. n /\ q - 1 = p /\ p \in Nat
      BY <1>2, <3>1
    <3>3. PICK s, t, v : s = u[p] /\ t = seqs[q] /\ v = u[q]
      OBVIOUS
    <3>4. Good(p, s)
      BY <1>2, <2>3, <3>1, <3>2, <3>3
    <3>5. v = s \o t /\ t \in Seq(R) /\ s \in Seq(R) /\ Len(t) \in Nat
      BY <1>2, <2>1, <3>2, <3>3, <3>4
    <3>6. /\ v \in Seq(R) /\ Len(v) = Len(s) + Len(t)
          /\ \A i \in 1 .. Len(s) + Len(t) : v[i] = IF i <= Len(s) THEN s[i] ELSE t[i - Len(s)]
      BY <3>5, ConcatProperties
    <3>7. Len(s) = off[p] /\ off[p] \in Nat /\ off[q] = off[p] + Len(t)
      BY <1>3, <3>2, <3>3, <3>4
    <3>8. ASSUME NEW k \in 1 .. q, NEW i \in 1 .. Len(seqs[k])
          PROVE  v[off[k - 1] + i] = seqs[k][i]
      <4>1. CASE k = q
        <5>0. i \in 1 .. Len(t)
          BY <3>3, <4>1
        <5>1. /\ off[p] + i \in 1 .. Len(s) + Len(t) /\ ~ (off[p] + i <= Len(s))
              /\ (off[p] + i) - Len(s) = i
          BY <3>5, <3>7, <5>0
        <5>2. v[off[p] + i] = t[i]
          BY <3>6, <5>1
        <5> QED
          BY <3>2, <3>3, <4>1, <5>2
      <4>2. CASE k # q
        <5>1. k \in 1 .. p /\ k \in 1 .. n /\ k - 1 \in 0 .. n
          BY <1>2, <3>1, <3>2, <4>2
        <5>2. s[off[k - 1] + i] = seqs[k][i]
          BY <3>4, <5>1
        <5>3. off[k - 1] + i \in 1 .. off[p]
          <6>1. off[k - 1] \in Nat /\ off[k] = off[k - 1] + Len(seqs[k])
                /\ Len(seqs[k]) \in Nat
            BY <1>2, <1>3, <5>1
          <6>2. off[k] <= off[p]
            <7> DEFINE T == { d \in Nat : k + d <= p => off[k] <= off[k + d] }
            <7>1. 0 \in T
              <8>1. k + 0 = k /\ off[k] \in Nat
                BY <1>3, <5>1
              <8> QED
                BY <8>1
            <7>2. ASSUME NEW d \in Nat, d \in T
                  PROVE  d + 1 \in T
              <8> SUFFICES ASSUME k + (d + 1) <= p PROVE off[k] <= off[k + (d + 1)]
                OBVIOUS
              <8>1. PICK e : e = k + (d + 1)
                OBVIOUS
              <8>2. e \in 1 .. n /\ e - 1 = k + d /\ k + d <= p /\ e - 1 \in 0 .. n
                    /\ k \in 0 .. n
                BY <1>2, <3>2, <5>1, <8>1
              <8>3. off[e] = off[e - 1] + Len(seqs[e]) /\ off[e - 1] \in Nat
                    /\ Len(seqs[e]) \in Nat /\ off[k] \in Nat
                BY <1>2, <1>3, <8>2
              <8>4. off[k] <= off[e - 1]
                BY <7>2, <8>2
              <8> QED
                BY <8>1, <8>3, <8>4
            <7>3. Nat \subseteq T
              <8> HIDE DEF T
              <8> QED
                BY <7>1, <7>2, SetInduction
            <7>4. p - k \in Nat /\ k + (p - k) = p /\ p <= p
              BY <3>2, <5>1
            <7> QED
              BY <7>3, <7>4
          <6>3. off[p] \in Nat
            BY <3>7
          <6>4. off[k] \in Nat
            BY <1>3, <5>1
          <6> QED
            BY <6>1, <6>2, <6>3, <6>4
        <5>4. off[k - 1] + i \in 1 .. Len(s) + Len(t) /\ off[k - 1] + i <= Len(s)
          BY <3>5, <3>7, <5>3
        <5> QED
          BY <3>6, <5>2, <5>4
      <4> QED
        BY <4>1, <4>2
    <3>9. Good(q, v)
      BY <3>6, <3>7, <3>8
    <3> HIDE DEF Good
    <3> QED
      BY <3>3, <3>9
  <2>4. Nat \subseteq S
    <3> HIDE DEF S
    <3> QED
      BY <2>2, <2>3, SetInduction
  <2>5. n - 1 \in Nat /\ (n - 1) + 1 = n /\ n <= n
    BY <1>2, <1>5
  <2>6. Good(n, u[n])
    <3>1. \A m \in Nat : m + 1 <= n => Good(m + 1, u[m + 1])
      <4> HIDE DEF Good
      <4> QED
        BY <2>4
    <3> HIDE DEF Good
    <3> QED
      BY <2>5, <3>1
  <2> QED
    BY <1>1, <2>1, <2>6
<1> QED
  BY <1>2, <1>4, <1>5

\* Sequences that are all of one length.
BlocksOf(t, seqs, w, m, R) ==
  /\ t \in Seq(R)
  /\ Len(t) = w * m
  /\ \A k \in 1 .. m : \A i \in 1 .. w : t[w * (k - 1) + i] = seqs[k][i]

LEMMA FlattenBlocks ==
  ASSUME NEW R, NEW m \in Nat, NEW w \in Nat, NEW seqs \in [1 .. m -> Seq(R)],
         \A k \in 1 .. m : Len(seqs[k]) = w
  PROVE  BlocksOf(FlattenSeq(seqs), seqs, w, m, R)
<1> USE DEF BlocksOf
<1>1. seqs \in Seq(Seq(R)) /\ Len(seqs) = m
  OBVIOUS
<1>2. PICK off : off = [k \in 0 .. m |-> w * k]
  OBVIOUS
<1>3. Offsets(off, seqs)
  <2>1. \A k \in 0 .. m : w * k \in Nat
    OBVIOUS
  <2>2. off \in [0 .. m -> Nat] /\ off[0] = 0
    BY <1>2, <2>1
  <2>3. ASSUME NEW k \in 1 .. m
        PROVE  off[k] = off[k - 1] + w
    <3>1. k \in 0 .. m /\ k - 1 \in 0 .. m
      OBVIOUS
    <3>2. off[k] = w * k /\ off[k - 1] = w * (k - 1)
      BY <1>2, <3>1
    <3>3. w * k = w * (k - 1) + w
      OBVIOUS
    <3> QED
      BY <3>2, <3>3
  <2> QED
    BY <1>1, <2>2, <2>3 DEF Offsets
<1>4. PICK flat : flat = FlattenSeq(seqs)
  OBVIOUS
<1>5. /\ flat \in Seq(R) /\ Len(flat) = off[m]
      /\ \A k \in 1 .. m : \A i \in 1 .. w : flat[off[k - 1] + i] = seqs[k][i]
  <2>1. FlattensTo(flat, seqs, off, R)
    BY <1>1, <1>3, <1>4, FlattenParts
  <2> QED
    BY <1>1, <2>1 DEF FlattensTo
<1>6. ASSUME NEW k \in 1 .. m, NEW i \in 1 .. w
      PROVE  flat[w * (k - 1) + i] = seqs[k][i]
  <2>1. off[k - 1] = w * (k - 1)
    BY <1>2
  <2> QED
    BY <1>5, <2>1
<1>7. off[m] = w * m
  BY <1>2
<1> QED
  BY <1>4, <1>5, <1>6, <1>7

\* Where a place lies among blocks of w.
LEMMA PlaceInBlock ==
  ASSUME NEW w \in Nat \ {0}
  PROVE  \A j \in Nat : \E k \in Nat : \E i \in 0 .. w - 1 : j = w * k + i
<1> DEFINE S == { j \in Nat : \E k \in Nat : \E i \in 0 .. w - 1 : j = w * k + i }
<1>1. 0 \in S
  <2>1. 0 \in 0 .. w - 1 /\ 0 = w * 0 + 0
    OBVIOUS
  <2> QED
    BY <2>1
<1>2. ASSUME NEW j \in Nat, j \in S
      PROVE  j + 1 \in S
  <2>1. PICK k \in Nat, i \in 0 .. w - 1 : j = w * k + i
    BY <1>2
  <2>2. CASE i < w - 1
    <3>1. PICK c : c = i + 1
      OBVIOUS
    <3>2. c \in 0 .. w - 1 /\ j + 1 = w * k + c
      BY <2>1, <2>2, <3>1
    <3> QED
      BY <3>2
  <2>3. CASE i = w - 1
    <3>1. PICK c : c = k + 1
      OBVIOUS
    <3>2. c \in Nat /\ w * c = w * k + w
      BY <3>1
    <3>3. 0 \in 0 .. w - 1 /\ j + 1 = w * c + 0
      BY <2>1, <2>3, <3>2
    <3> QED
      BY <3>2, <3>3
  <2> QED
    BY <2>2, <2>3
<1>3. Nat \subseteq S
  <2> HIDE DEF S
  <2> QED
    BY <1>1, <1>2, SetInduction
<1> QED
  BY <1>3

\* One list behind another.
Joined(v, s, t, R) ==
  /\ v \in Seq(R) /\ Len(v) = Len(s) + Len(t)
  /\ \A j \in 1 .. Len(s) : v[j] = s[j]
  /\ \A j \in 1 .. Len(t) : v[Len(s) + j] = t[j]

LEMMA ConcatJoins ==
  ASSUME NEW R, NEW s \in Seq(R), NEW t \in Seq(R)
  PROVE  Joined(s \o t, s, t, R)
<1>1. PICK v : v = s \o t
  OBVIOUS
<1>2. Len(s) \in Nat /\ Len(t) \in Nat
  BY LenProperties
<1>3. /\ v \in Seq(R) /\ Len(v) = Len(s) + Len(t)
      /\ \A j \in 1 .. Len(s) + Len(t) : v[j] = IF j <= Len(s) THEN s[j] ELSE t[j - Len(s)]
  BY <1>1, ConcatProperties
<1>4. \A j \in 1 .. Len(s) : v[j] = s[j]
  BY <1>2, <1>3
<1>5. ASSUME NEW j \in 1 .. Len(t)
      PROVE  v[Len(s) + j] = t[j]
  <2>1. /\ Len(s) + j \in 1 .. Len(s) + Len(t) /\ ~ (Len(s) + j <= Len(s))
        /\ (Len(s) + j) - Len(s) = j
    BY <1>2
  <2> QED
    BY <1>3, <2>1
<1> QED
  BY <1>1, <1>3, <1>4, <1>5 DEF Joined

\* A list with x put in at place p.
Inserted(v, s, p, x, R) ==
  /\ v \in Seq(R) /\ Len(v) = Len(s) + 1
  /\ \A j \in 1 .. Len(s) + 1 :
       v[j] = IF j < p THEN s[j] ELSE IF j = p THEN x ELSE s[j - 1]

LEMMA InsertAtParts ==
  ASSUME NEW R, NEW s \in Seq(R), NEW p \in 1 .. Len(s) + 1, NEW x \in R
  PROVE  Inserted(InsertAt(s, p, x), s, p, x, R)
<1>1. PICK n, c : n = Len(s) /\ c = <<x>>
  OBVIOUS
<1>2. PICK b, e : b = SubSeq(s, 1, p - 1) /\ e = SubSeq(s, p, n)
  OBVIOUS
<1>3. /\ n \in Nat /\ p \in 1 .. n + 1 /\ \A j \in 1 .. n : s[j] \in R
      /\ c \in Seq(R) /\ Len(c) = 1 /\ c[1] = x
  BY <1>1, LenProperties, ElementOfSeq
<1>4. b \in Seq(R) /\ Len(b) = p - 1 /\ \A j \in 1 .. p - 1 : b[j] = s[j]
  <2>1. 1 \in Int /\ p - 1 \in Int /\ \A j \in 1 .. p - 1 : s[j] \in R
    BY <1>3
  <2>2. /\ b \in Seq(R)
        /\ Len(b) = IF 1 <= p - 1 THEN (p - 1) - 1 + 1 ELSE 0
        /\ \A j \in 1 .. (p - 1) - 1 + 1 : b[j] = s[1 + j - 1]
    BY <1>2, <2>1, SubSeqProperties
  <2>3. \A j \in 1 .. p - 1 : j \in 1 .. (p - 1) - 1 + 1 /\ 1 + j - 1 = j
    BY <1>3
  <2> QED
    BY <1>3, <2>2, <2>3
<1>5. e \in Seq(R) /\ Len(e) = n - p + 1 /\ \A j \in 1 .. n - p + 1 : e[j] = s[p + j - 1]
  <2>1. p \in Int /\ n \in Int /\ \A j \in p .. n : s[j] \in R
    BY <1>3
  <2>2. /\ e \in Seq(R)
        /\ Len(e) = IF p <= n THEN n - p + 1 ELSE 0
        /\ \A j \in 1 .. n - p + 1 : e[j] = s[p + j - 1]
    BY <1>2, <2>1, SubSeqProperties
  <2> QED
    BY <1>3, <2>2
<1>6. PICK d, v : d = b \o c /\ v = d \o e
  OBVIOUS
<1>7. Joined(d, b, c, R)
  BY <1>3, <1>4, <1>6, ConcatJoins
<1>8. /\ d \in Seq(R) /\ Len(d) = p
      /\ \A j \in 1 .. p - 1 : d[j] = s[j]
      /\ d[p] = x
  <2>1. /\ d \in Seq(R) /\ Len(d) = (p - 1) + 1
        /\ \A j \in 1 .. p - 1 : d[j] = b[j]
        /\ d[(p - 1) + 1] = c[1]
    BY <1>3, <1>4, <1>7 DEF Joined
  <2>2. (p - 1) + 1 = p
    BY <1>3
  <2> QED
    BY <1>3, <1>4, <2>1, <2>2
<1>9. Joined(v, d, e, R)
  BY <1>5, <1>6, <1>8, ConcatJoins
<1>10. /\ v \in Seq(R) /\ Len(v) = n + 1
       /\ \A j \in 1 .. p : v[j] = d[j]
       /\ \A j \in 1 .. n - p + 1 : v[p + j] = e[j]
  BY <1>3, <1>5, <1>8, <1>9 DEF Joined
<1>11. ASSUME NEW j \in 1 .. n + 1
       PROVE  v[j] = IF j < p THEN s[j] ELSE IF j = p THEN x ELSE s[j - 1]
  <2>1. CASE j <= p
    BY <1>3, <1>8, <1>10, <2>1
  <2>2. CASE j > p
    <3>1. PICK i : i = j - p
      OBVIOUS
    <3>2. i \in 1 .. n - p + 1 /\ p + i = j /\ p + i - 1 = j - 1
      <4>1. n \in Nat /\ p \in Nat /\ j \in Nat /\ j <= n + 1
        BY <1>3
      <4> QED
        BY <2>2, <3>1, <4>1
    <3>3. v[p + i] = e[i] /\ e[i] = s[p + i - 1]
      BY <1>5, <1>10, <3>2
    <3> QED
      BY <1>3, <2>2, <3>2, <3>3
  <2> QED
    BY <1>3, <2>1, <2>2
<1>12. InsertAt(s, p, x) = v
  BY <1>1, <1>2, <1>6 DEF InsertAt
<1> QED
  BY <1>1, <1>10, <1>11, <1>12 DEF Inserted

=============================================================================
