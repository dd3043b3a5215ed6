------------------------------ MODULE FoldFacts ------------------------------
(***************************************************************************)
(* What the proofs use of induction, of the least member of a set and of    *)
(* sums over finite sets.                                                   *)
(*                                                                         *)
(* Induction is stated with a set: one that contains 0 and the successor of *)
(* each of its members is Nat, because Nat is well-founded.                 *)
(***************************************************************************)
EXTENDS Integers, FiniteSetsExt, Functions, FiniteSetTheorems, WellFoundedInduction, TLAPS

-----------------------------------------------------------------------------
\* Induction

Less == {p \in Nat \X Nat : p[1] < p[2]}

LEMMA LessIsWellFounded == IsWellFoundedOn(Less, Nat)
BY NatLessThanWellFounded DEF OpToRel, Less

LEMMA SetInduction ==
    ASSUME NEW T \in SUBSET Nat, 0 \in T, \A n \in T : n + 1 \in T
    PROVE  T = Nat
<1> SUFFICES ASSUME Nat \ T # {} PROVE FALSE
  OBVIOUS
<1>1. PICK m \in Nat \ T : \A y \in Nat \ T : ~(<<y, m>> \in Less)
  BY LessIsWellFounded, WFMin
<1>2. m # 0 /\ m - 1 \in Nat
  OBVIOUS
<1>3. m - 1 \notin T
  <2>1. m = (m - 1) + 1
    OBVIOUS
  <2> QED
    BY <1>1, <1>2, <2>1
<1>4. <<m - 1, m>> \in Less
  BY <1>2 DEF Less
<1> QED
  BY <1>1, <1>2, <1>3, <1>4

-----------------------------------------------------------------------------
\* The least member of a set of naturals

LEMMA MinInSet ==
    ASSUME NEW S \in SUBSET Nat, S # {}
    PROVE  Min(S) \in S /\ \A y \in S : Min(S) <= y
<1>1. PICK m \in S : \A y \in S : ~(<<y, m>> \in Less)
  BY LessIsWellFounded, WFMin
<1>2. ASSUME NEW y \in S PROVE m <= y
  <2>1. y < m => <<y, m>> \in Less
    BY DEF Less
  <2> QED
    BY <1>1, <2>1
<1> QED
  BY <1>1, <1>2 DEF Min

-----------------------------------------------------------------------------
\* Sums over a finite set

Pick(s) == CHOOSE x \in s : TRUE

\* The subsets of up to n members, and their sums.
Small(S, n) == {s \in SUBSET S : Cardinality(s) <= n}
Summed(fun, S, n, g) ==
    g = [s \in Small(S, n) |-> IF s = {} THEN 0 ELSE fun[Pick(s)] + g[s \ {Pick(s)}]]

LEMMA SmallFacts ==
    ASSUME NEW S, IsFiniteSet(S), NEW n \in Nat
    PROVE  /\ {} \in Small(S, n)
           /\ Small(S, n) \subseteq Small(S, n + 1)
           /\ \A s \in Small(S, n + 1) : s # {} => Pick(s) \in s /\ s \ {Pick(s)} \in Small(S, n)
           /\ Small(S, 0) = {{}}
           /\ Small(S, Cardinality(S)) = SUBSET S
           /\ \A s \in SUBSET S : Cardinality(s) \in Nat
<1>1. ASSUME NEW s \in SUBSET S
      PROVE  IsFiniteSet(s) /\ Cardinality(s) \in Nat /\ Cardinality(s) <= Cardinality(S)
  BY FS_Subset, FS_CardinalityType
<1>2. Cardinality({}) = 0 /\ {} \in SUBSET S
  BY FS_EmptySet
<1>3. \A s \in SUBSET S : Cardinality(s) = 0 <=> s = {}
  BY <1>1, FS_EmptySet
<1>4. ASSUME NEW s \in Small(S, n + 1), s # {}
      PROVE  Pick(s) \in s /\ s \ {Pick(s)} \in Small(S, n)
  <2>1. Pick(s) \in s
    BY <1>4 DEF Pick
  <2>2. s \in SUBSET S /\ Cardinality(s) <= n + 1
    BY DEF Small
  <2>3. Cardinality(s \ {Pick(s)}) = Cardinality(s) - 1
    BY <1>1, <2>1, <2>2, FS_RemoveElement
  <2> QED
    BY <1>1, <2>1, <2>2, <2>3 DEF Small
<1>5. {} \in Small(S, n) /\ Small(S, n) \subseteq Small(S, n + 1)
  BY <1>1, <1>2 DEF Small
<1>6. Small(S, 0) = {{}}
  BY <1>1, <1>2, <1>3 DEF Small
<1>7. Small(S, Cardinality(S)) = SUBSET S
  BY <1>1 DEF Small
<1> QED
  BY <1>1, <1>4, <1>5, <1>6, <1>7

LEMMA SumExists ==
    ASSUME NEW fun, NEW S, IsFiniteSet(S), NEW n \in Nat
    PROVE  \E g : Summed(fun, S, n, g)
<1> DEFINE T == {k \in Nat : \E g : Summed(fun, S, k, g)}
<1>1. 0 \in T
  <2>1. Summed(fun, S, 0, [s \in Small(S, 0) |-> 0])
    <3>1. \A s \in Small(S, 0) : s = {}
      BY SmallFacts
    <3> QED
      BY <3>1 DEF Summed
  <2>2. 0 \in Nat
    OBVIOUS
  <2> QED
    BY <2>1, <2>2
<1>2. ASSUME NEW k \in T PROVE k + 1 \in T
  <2>1. k \in Nat /\ k + 1 \in Nat
    OBVIOUS
  <2>2. PICK g : Summed(fun, S, k, g)
    OBVIOUS
  <2> DEFINE h == [s \in Small(S, k + 1) |-> IF s = {} THEN 0 ELSE fun[Pick(s)] + g[s \ {Pick(s)}]]
             next(s) == IF s = {} THEN 0 ELSE fun[Pick(s)] + h[s \ {Pick(s)}]
  <2>3. ASSUME NEW s \in Small(S, k + 1) PROVE h[s] = next(s)
    <3>1. CASE s = {}
      BY <3>1
    <3>2. CASE s # {}
      <4> DEFINE r == s \ {Pick(s)}
      <4>1. r \in Small(S, k) /\ r \in Small(S, k + 1)
        BY <2>1, <3>2, SmallFacts
      <4> HIDE DEF r
      <4>2. g[r] = IF r = {} THEN 0 ELSE fun[Pick(r)] + g[r \ {Pick(r)}]
        BY <2>2, <4>1 DEF Summed
      <4>3. h[r] = g[r]
        BY <4>1, <4>2
      <4> QED
        BY <3>2, <4>3 DEF r
    <3> QED
      BY <3>1, <3>2
  <2>4. Summed(fun, S, k + 1, h)
    <3>1. h = [s \in Small(S, k + 1) |-> next(s)]
      BY <2>3
    <3> QED
      BY <3>1 DEF Summed
  <2> QED
    BY <2>1, <2>4
<1>3. T \in SUBSET Nat
  OBVIOUS
<1>4. T = Nat
  <2> HIDE DEF T
  <2> QED
    BY <1>1, <1>2, <1>3, SetInduction
<1> QED
  BY <1>4

\* A sum and the sums of the subsets it is made of.
LEMMA SumRun ==
    ASSUME NEW fun, NEW S, IsFiniteSet(S)
    PROVE  \E g : /\ g[{}] = 0
                  /\ \A s \in SUBSET S : s # {} => g[s] = fun[Pick(s)] + g[s \ {Pick(s)}]
                  /\ SumFunctionOnSet(fun, S) = g[S]
<1> DEFINE G == CHOOSE g : g = [s \in SUBSET S |-> IF s = {} THEN 0 ELSE fun[Pick(s)] + g[s \ {Pick(s)}]]
           N == Cardinality(S)
<1>1. N \in Nat /\ Small(S, N) = SUBSET S
  BY FS_CardinalityType, SmallFacts
<1>2. \E g : Summed(fun, S, N, g)
  BY <1>1, SumExists
<1>3. Summed(fun, S, N, G)
  <2>1. G = CHOOSE g : Summed(fun, S, N, g)
    BY <1>1, Zenon DEF Summed
  <2> QED
    BY <1>2, <2>1, Zenon
<1>4. SumFunctionOnSet(fun, S) = G[S]
  BY Zenon DEF SumFunctionOnSet, FoldFunctionOnSet, MapThenFoldSet, Pick
<1> HIDE DEF G, N
<1>5. \A s \in SUBSET S : G[s] = IF s = {} THEN 0 ELSE fun[Pick(s)] + G[s \ {Pick(s)}]
  BY <1>1, <1>3 DEF Summed
<1>6. G[{}] = 0
  BY <1>5
<1> QED
  BY <1>4, <1>5, <1>6

LEMMA SumIsAnInteger ==
    ASSUME NEW fun, NEW S, IsFiniteSet(S), \A x \in S : fun[x] \in Int
    PROVE  SumFunctionOnSet(fun, S) \in Int
<1>1. PICK g : /\ g[{}] = 0
               /\ \A s \in SUBSET S : s # {} => g[s] = fun[Pick(s)] + g[s \ {Pick(s)}]
               /\ SumFunctionOnSet(fun, S) = g[S]
  BY SumRun
<1> DEFINE T == {n \in Nat : \A s \in Small(S, n) : g[s] \in Int}
<1>2. T = Nat
  <2>1. 0 \in T
    <3>1. \A s \in Small(S, 0) : g[s] = 0
      BY <1>1, SmallFacts
    <3> QED
      BY <3>1
  <2>2. ASSUME NEW n \in T PROVE n + 1 \in T
    <3> SUFFICES ASSUME NEW s \in Small(S, n + 1) PROVE g[s] \in Int
      OBVIOUS
    <3>1. CASE s = {}
      BY <1>1, <3>1
    <3>2. CASE s # {}
      <4>1. n \in Nat /\ s \in SUBSET S
        BY DEF Small
      <4>2. Pick(s) \in s /\ s \ {Pick(s)} \in Small(S, n)
        BY <3>2, <4>1, SmallFacts
      <4>3. fun[Pick(s)] \in Int /\ g[s \ {Pick(s)}] \in Int
        BY <4>1, <4>2
      <4> QED
        BY <1>1, <3>2, <4>1, <4>3
    <3> QED
      BY <3>1, <3>2
  <2>3. T \in SUBSET Nat
    OBVIOUS
  <2> HIDE DEF T
  <2> QED
    BY <2>1, <2>2, <2>3, SetInduction
<1>3. Cardinality(S) \in T /\ S \in Small(S, Cardinality(S))
  BY <1>2, FS_CardinalityType, SmallFacts
<1> QED
  BY <1>1, <1>3

LEMMA SumOfOne ==
    ASSUME NEW fun, NEW x, fun[x] \in Int
    PROVE  SumFunctionOnSet(fun, {x}) = fun[x]
<1>1. IsFiniteSet({x})
  BY FS_Singleton
<1>2. PICK g : /\ g[{}] = 0
               /\ \A s \in SUBSET {x} : s # {} => g[s] = fun[Pick(s)] + g[s \ {Pick(s)}]
               /\ SumFunctionOnSet(fun, {x}) = g[{x}]
  BY <1>1, SumRun
<1>3. Pick({x}) = x /\ {x} \ {x} = {}
  BY DEF Pick
<1>4. g[{x}] = fun[x] + 0
  BY <1>2, <1>3
<1> QED
  BY <1>2, <1>4

\* Only the values at the members of the set matter.
LEMMA SumSame ==
    ASSUME NEW fun, NEW hun, NEW S, IsFiniteSet(S), \A x \in S : fun[x] = hun[x]
    PROVE  SumFunctionOnSet(fun, S) = SumFunctionOnSet(hun, S)
<1>1. PICK g : /\ g[{}] = 0
               /\ \A s \in SUBSET S : s # {} => g[s] = fun[Pick(s)] + g[s \ {Pick(s)}]
               /\ SumFunctionOnSet(fun, S) = g[S]
  BY SumRun
<1>2. PICK h : /\ h[{}] = 0
               /\ \A s \in SUBSET S : s # {} => h[s] = hun[Pick(s)] + h[s \ {Pick(s)}]
               /\ SumFunctionOnSet(hun, S) = h[S]
  BY SumRun
<1> DEFINE T == {n \in Nat : \A s \in Small(S, n) : g[s] = h[s]}
<1>3. T = Nat
  <2>1. 0 \in T
    <3>1. \A s \in Small(S, 0) : g[s] = h[s]
      BY <1>1, <1>2, SmallFacts
    <3> QED
      BY <3>1
  <2>2. ASSUME NEW n \in T PROVE n + 1 \in T
    <3> SUFFICES ASSUME NEW s \in Small(S, n + 1) PROVE g[s] = h[s]
      OBVIOUS
    <3>1. CASE s = {}
      BY <1>1, <1>2, <3>1
    <3>2. CASE s # {}
      <4>1. n \in Nat /\ s \in SUBSET S
        BY DEF Small
      <4>2. Pick(s) \in s /\ s \ {Pick(s)} \in Small(S, n)
        BY <3>2, <4>1, SmallFacts
      <4>3. fun[Pick(s)] = hun[Pick(s)] /\ g[s \ {Pick(s)}] = h[s \ {Pick(s)}]
        BY <4>1, <4>2
      <4> QED
        BY <1>1, <1>2, <3>2, <4>1, <4>3
    <3> QED
      BY <3>1, <3>2
  <2>3. T \in SUBSET Nat
    OBVIOUS
  <2> HIDE DEF T
  <2> QED
    BY <2>1, <2>2, <2>3, SetInduction
<1>4. Cardinality(S) \in T /\ S \in Small(S, Cardinality(S))
  BY <1>3, FS_CardinalityType, SmallFacts
<1> QED
  BY <1>1, <1>2, <1>4

\* One less at one member is one less in the sum.
LEMMA SumOneLess ==
    ASSUME NEW fun, NEW hun, NEW S, IsFiniteSet(S), NEW x \in S,
           \A y \in S : fun[y] \in Int,
           \A y \in S : hun[y] = IF y = x THEN fun[y] - 1 ELSE fun[y]
    PROVE  SumFunctionOnSet(hun, S) = SumFunctionOnSet(fun, S) - 1
<1>1. PICK g : /\ g[{}] = 0
               /\ \A s \in SUBSET S : s # {} => g[s] = fun[Pick(s)] + g[s \ {Pick(s)}]
               /\ SumFunctionOnSet(fun, S) = g[S]
  BY SumRun
<1>2. PICK h : /\ h[{}] = 0
               /\ \A s \in SUBSET S : s # {} => h[s] = hun[Pick(s)] + h[s \ {Pick(s)}]
               /\ SumFunctionOnSet(hun, S) = h[S]
  BY SumRun
<1> DEFINE OneLess(s) == g[s] \in Int /\ h[s] = IF x \in s THEN g[s] - 1 ELSE g[s]
           T == {n \in Nat : \A s \in Small(S, n) : OneLess(s)}
<1>3. T = Nat
  <2>1. 0 \in T
    <3>1. \A s \in Small(S, 0) : s = {}
      BY SmallFacts
    <3>2. OneLess({})
      BY <1>1, <1>2
    <3> QED
      BY <3>1, <3>2
  <2>2. ASSUME NEW n \in T PROVE n + 1 \in T
    <3> SUFFICES ASSUME NEW s \in Small(S, n + 1) PROVE OneLess(s)
      OBVIOUS
    <3>1. CASE s = {}
      BY <1>1, <1>2, <3>1
    <3>2. CASE s # {}
      <4> DEFINE y == Pick(s)
      <4>1. n \in Nat /\ s \in SUBSET S
        BY DEF Small
      <4>2. y \in s /\ s \ {y} \in Small(S, n)
        BY <3>2, <4>1, SmallFacts
      <4>3. OneLess(s \ {y})
        BY <4>2
      <4>4. g[s] = fun[y] + g[s \ {y}] /\ h[s] = hun[y] + h[s \ {y}]
        BY <1>1, <1>2, <3>2, <4>1
      <4>5. fun[y] \in Int /\ hun[y] = IF y = x THEN fun[y] - 1 ELSE fun[y]
        BY <4>1, <4>2
      <4> HIDE DEF y
      <4>6. x \in s <=> x = y \/ x \in s \ {y}
        BY <4>2
      <4> QED
        BY <4>3, <4>4, <4>5, <4>6
    <3> QED
      BY <3>1, <3>2
  <2>3. T \in SUBSET Nat
    OBVIOUS
  <2> HIDE DEF T
  <2> QED
    BY <2>1, <2>2, <2>3, SetInduction
<1>4. Cardinality(S) \in T /\ S \in Small(S, Cardinality(S))
  BY <1>3, FS_CardinalityType, SmallFacts
<1>5. OneLess(S)
  BY <1>4
<1> QED
  BY <1>1, <1>2, <1>5

\* A sum of n numbers of at most c is at most n times c, and at least any one of them.
LEMMA SumIsBounded ==
    ASSUME NEW fun, NEW S, IsFiniteSet(S), NEW c \in Nat, \A y \in S : fun[y] \in 0 .. c
    PROVE  /\ SumFunctionOnSet(fun, S) \in Nat
           /\ SumFunctionOnSet(fun, S) <= Cardinality(S) * c
           /\ \A y \in S : fun[y] <= SumFunctionOnSet(fun, S)
<1>1. PICK g : /\ g[{}] = 0
               /\ \A s \in SUBSET S : s # {} => g[s] = fun[Pick(s)] + g[s \ {Pick(s)}]
               /\ SumFunctionOnSet(fun, S) = g[S]
  BY SumRun
<1> DEFINE Bounded(s, n) == g[s] \in Nat /\ g[s] <= n * c /\ \A y \in s : fun[y] <= g[s]
           T == {n \in Nat : \A s \in Small(S, n) : Bounded(s, n)}
<1>2. T = Nat
  <2>1. 0 \in T
    <3>1. \A s \in Small(S, 0) : s = {}
      BY SmallFacts
    <3>2. Bounded({}, 0)
      BY <1>1
    <3> QED
      BY <3>1, <3>2
  <2>2. ASSUME NEW n \in T PROVE n + 1 \in T
    <3>1. n \in Nat /\ (n + 1) * c = n * c + c /\ n * c \in Nat
      OBVIOUS
    <3> SUFFICES ASSUME NEW s \in Small(S, n + 1) PROVE Bounded(s, n + 1)
      BY <3>1
    <3>2. CASE s = {}
      BY <1>1, <3>1, <3>2
    <3>3. CASE s # {}
      <4> DEFINE x == Pick(s)
      <4>1. s \in SUBSET S
        BY DEF Small
      <4>2. x \in s /\ s \ {x} \in Small(S, n)
        BY <3>1, <3>3, <4>1, SmallFacts
      <4>3. Bounded(s \ {x}, n)
        BY <4>2
      <4>4. g[s] = fun[x] + g[s \ {x}]
        BY <1>1, <3>3, <4>1
      <4>5. \A y \in s : fun[y] \in 0 .. c
        BY <4>1
      <4> HIDE DEF x
      <4>6. g[s] \in Nat /\ g[s] <= (n + 1) * c
        BY <3>1, <4>2, <4>3, <4>4, <4>5
      <4>7. ASSUME NEW y \in s PROVE fun[y] <= g[s]
        <5>1. y = x \/ fun[y] <= g[s \ {x}]
          BY <4>3
        <5> QED
          BY <4>2, <4>3, <4>4, <4>5, <5>1
      <4> QED
        BY <4>6, <4>7
    <3> QED
      BY <3>2, <3>3
  <2>3. T \in SUBSET Nat
    OBVIOUS
  <2> HIDE DEF T
  <2> QED
    BY <2>1, <2>2, <2>3, SetInduction
<1>3. Cardinality(S) \in T /\ S \in Small(S, Cardinality(S))
  BY <1>2, FS_CardinalityType, SmallFacts
<1>4. Bounded(S, Cardinality(S))
  BY <1>3
<1> QED
  BY <1>1, <1>4

-----------------------------------------------------------------------------
\* Recursive functions that iterate a step: that there is one, and its values

Iterated(S, start, step, n, f) ==
    /\ f \in [0 .. n -> S]
    /\ f[0] = start
    /\ \A k \in 1 .. n : f[k] = step[k][f[k - 1]]

LEMMA IterationStarts ==
    ASSUME NEW S, NEW start \in S, NEW step \in [Nat -> [S -> S]], NEW n \in Nat
    PROVE  \E f : Iterated(S, start, step, n, f)
<1> DEFINE T == {m \in Nat : \E f : Iterated(S, start, step, m, f)}
<1>1. 0 \in T
  <2>1. Iterated(S, start, step, 0, [k \in 0 .. 0 |-> start])
    BY DEF Iterated
  <2> QED
    BY <2>1
<1>2. ASSUME NEW m \in T PROVE m + 1 \in T
  <2>1. m \in Nat /\ m + 1 \in Nat
    OBVIOUS
  <2>2. PICK f : Iterated(S, start, step, m, f)
    OBVIOUS
  <2> DEFINE g == [k \in 0 .. m + 1 |-> IF k = m + 1 THEN step[m + 1][f[m]] ELSE f[k]]
  <2>3. step[m + 1][f[m]] \in S
    BY <2>1, <2>2 DEF Iterated
  <2>4. \A k \in 0 .. m : g[k] = f[k] /\ f[k] \in S
    BY <2>1, <2>2 DEF Iterated
  <2>5. g[m + 1] = step[m + 1][g[m]]
    BY <2>1, <2>4
  <2>6. \A k \in 0 .. m + 1 : k = m + 1 \/ k \in 0 .. m
    BY <2>1
  <2>7. g \in [0 .. m + 1 -> S]
    BY <2>3, <2>4, <2>6
  <2>8. g[0] = start
    BY <2>1, <2>2, <2>4 DEF Iterated
  <2>9. \A k \in 1 .. m + 1 : g[k] = step[k][g[k - 1]]
    <3> HIDE DEF g
    <3>1. \A k \in 1 .. m : k \in 0 .. m /\ k - 1 \in 0 .. m
      BY <2>1
    <3>2. \A k \in 1 .. m : g[k] = step[k][g[k - 1]]
      BY <2>2, <2>4, <3>1 DEF Iterated
    <3>3. \A k \in 1 .. m + 1 : k = m + 1 \/ k \in 1 .. m
      BY <2>1
    <3>4. (m + 1) - 1 = m
      BY <2>1
    <3> QED
      BY <2>5, <3>2, <3>3, <3>4
  <2>10. Iterated(S, start, step, m + 1, g)
    <3> HIDE DEF g
    <3> QED
      BY <2>7, <2>8, <2>9 DEF Iterated
  <2> QED
    BY <2>1, <2>10
<1>3. T \in SUBSET Nat
  OBVIOUS
<1>4. T = Nat
  <2> HIDE DEF T
  <2> QED
    BY <1>1, <1>2, <1>3, SetInduction
<1> QED
  BY <1>4

LEMMA IterationsAgree ==
    ASSUME NEW S, NEW start, NEW step, NEW m \in Nat, NEW n \in Nat, NEW f, NEW g,
           Iterated(S, start, step, m, f), Iterated(S, start, step, n, g),
           NEW k \in 0 .. m, k <= n
    PROVE  f[k] = g[k]
<1> DEFINE T == {j \in Nat : j <= m /\ j <= n => f[j] = g[j]}
<1>1. 0 \in T
  BY DEF Iterated
<1>2. ASSUME NEW j \in T PROVE j + 1 \in T
  <2>1. j \in Nat /\ j + 1 \in Nat
    OBVIOUS
  <2>2. ASSUME j + 1 <= m, j + 1 <= n PROVE f[j + 1] = g[j + 1]
    <3>1. f[j] = g[j] /\ j + 1 \in 1 .. m /\ j + 1 \in 1 .. n /\ (j + 1) - 1 = j
      BY <2>1, <2>2
    <3>2. f[j + 1] = step[j + 1][f[j]] /\ g[j + 1] = step[j + 1][g[j]]
      BY <3>1 DEF Iterated
    <3> QED
      BY <3>1, <3>2
  <2> QED
    BY <2>1, <2>2
<1>3. T \in SUBSET Nat
  OBVIOUS
<1>4. T = Nat
  <2> HIDE DEF T
  <2> QED
    BY <1>1, <1>2, <1>3, SetInduction
<1>5. k \in T /\ k <= m
  BY <1>4
<1> QED
  BY <1>5

StepsOf(S) == [Nat -> [S -> S]]

LEMMA IterationExists ==
    ASSUME NEW S, NEW start \in S, NEW step \in StepsOf(S)
    PROVE  \E f \in [Nat -> S] :
              f[0] = start /\ \A n \in Nat : n # 0 => f[n] = step[n][f[n - 1]]
<1> DEFINE G(n) == CHOOSE g : Iterated(S, start, step, n, g)
           f == [n \in Nat |-> G(n)[n]]
<1> USE DEF StepsOf
<1>1. ASSUME NEW n \in Nat PROVE Iterated(S, start, step, n, G(n))
  BY IterationStarts
<1> HIDE DEF G
<1>2. ASSUME NEW n \in Nat PROVE f[n] \in S
  BY <1>1 DEF Iterated
<1>3. f[0] = start
  BY <1>1 DEF Iterated
<1>4. ASSUME NEW n \in Nat, n # 0 PROVE f[n] = step[n][f[n - 1]]
  <2>1. n - 1 \in Nat /\ n \in 1 .. n /\ n - 1 \in 0 .. n - 1 /\ n - 1 <= n
    BY <1>4
  <2>2. G(n)[n] = step[n][G(n)[n - 1]]
    BY <1>1, <2>1 DEF Iterated
  <2>3. G(n - 1)[n - 1] = G(n)[n - 1]
    BY <1>1, <2>1, IterationsAgree
  <2> QED
    BY <2>1, <2>2, <2>3
<1>5. f \in [Nat -> S]
  BY <1>2
<1> HIDE DEF f
<1> QED
  BY <1>3, <1>4, <1>5

StepsUpTo(last, S) == [1 .. last -> [S -> S]]

LEMMA BoundedIterationExists ==
    ASSUME NEW S, NEW start \in S, NEW last \in Nat, NEW step \in StepsUpTo(last, S)
    PROVE  \E f : Iterated(S, start, step, last, f)
<1> USE DEF StepsOf, StepsUpTo
<1>1. PICK longer \in [Nat -> [S -> S]] : \A n \in 1 .. last : longer[n] = step[n]
  <2> DEFINE e == [n \in Nat |-> IF n \in 1 .. last THEN step[n] ELSE [s \in S |-> s]]
  <2>1. e \in [Nat -> [S -> S]] /\ \A n \in 1 .. last : e[n] = step[n]
    OBVIOUS
  <2> QED
    BY <2>1
<1>2. PICK f : Iterated(S, start, longer, last, f)
  BY IterationStarts
<1> QED
  BY <1>1, <1>2 DEF Iterated

LEMMA BoundedIterationType ==
    ASSUME NEW S, NEW start \in S, NEW last \in Nat, NEW step \in StepsUpTo(last, S), NEW f,
           f[0] = start, \A n \in 1 .. last : f[n - 1] \in S => f[n] = step[n][f[n - 1]]
    PROVE  \A n \in 0 .. last : f[n] \in S
<1> DEFINE T == {n \in Nat : n <= last => f[n] \in S}
<1>1. 0 \in T
  OBVIOUS
<1>2. ASSUME NEW n \in T PROVE n + 1 \in T
  <2>1. n \in Nat /\ n + 1 \in Nat /\ (n + 1) - 1 = n
    OBVIOUS
  <2>2. ASSUME n + 1 <= last PROVE f[n + 1] \in S
    <3>1. n + 1 \in 1 .. last /\ f[n] \in S
      BY <2>1, <2>2
    <3>2. f[n + 1] = step[n + 1][f[n]]
      BY <2>1, <3>1
    <3>3. step[n + 1] \in [S -> S]
      BY <3>1 DEF StepsUpTo
    <3> QED
      BY <3>1, <3>2, <3>3
  <2> QED
    BY <2>1, <2>2
<1>3. T \in SUBSET Nat
  OBVIOUS
<1>4. T = Nat
  <2> HIDE DEF T
  <2> QED
    BY <1>1, <1>2, <1>3, SetInduction
<1> QED
  BY <1>4

\* The same with one step for every number, and what such a function does.
StepsOn(S) == [S -> S]
IsRepetition(S, start, step, f) ==
    f = [t \in Nat |-> IF t = 0 THEN start ELSE step[f[t - 1]]]

LEMMA RepetitionExists ==
    ASSUME NEW S, NEW start \in S, NEW step \in StepsOn(S)
    PROVE  \E f : IsRepetition(S, start, step, f)
<1> DEFINE e(f, t) == IF t = 0 THEN start ELSE step[f[t - 1]]
           steps == [t \in Nat |-> step]
<1>1. steps \in StepsOf(S) /\ \A t \in Nat : steps[t] = step
  BY DEF StepsOf, StepsOn
<1> HIDE DEF steps
<1>2. PICK f \in [Nat -> S] : f[0] = start /\ \A t \in Nat : t # 0 => f[t] = steps[t][f[t - 1]]
  BY <1>1, IterationExists
<1>3. \A t \in Nat : f[t] = e(f, t)
  BY <1>1, <1>2
<1>4. f = [t \in Nat |-> f[t]]
  OBVIOUS
<1> HIDE DEF e
<1>5. f = [t \in Nat |-> e(f, t)]
  BY <1>3, <1>4
<1> QED
  BY <1>5 DEF IsRepetition, e

LEMMA RepetitionRuns ==
    ASSUME NEW S, NEW start \in S, NEW step \in StepsOn(S), NEW f, IsRepetition(S, start, step, f)
    PROVE  f[0] = start /\ \A t \in Nat : f[t] \in S /\ f[t + 1] = step[f[t]]
<1>1. f[0] = start
  BY DEF IsRepetition
<1>2. ASSUME NEW t \in Nat PROVE f[t + 1] = step[f[t]]
  <2>1. t + 1 \in Nat /\ t + 1 # 0 /\ (t + 1) - 1 = t
    OBVIOUS
  <2>2. f[t + 1] = IF t + 1 = 0 THEN start ELSE step[f[(t + 1) - 1]]
    BY <2>1 DEF IsRepetition
  <2> QED
    BY <2>1, <2>2
<1> DEFINE T == {t \in Nat : f[t] \in S}
<1>3. 0 \in T
  BY <1>1
<1>4. ASSUME NEW t \in T PROVE t + 1 \in T
  <2>1. t \in Nat /\ t + 1 \in Nat /\ f[t] \in S
    OBVIOUS
  <2> QED
    BY <1>2, <2>1 DEF StepsOn
<1>5. T \in SUBSET Nat
  OBVIOUS
<1>6. T = Nat
  <2> HIDE DEF T
  <2> QED
    BY <1>3, <1>4, <1>5, SetInduction
<1> QED
  BY <1>1, <1>2, <1>6
=============================================================================
