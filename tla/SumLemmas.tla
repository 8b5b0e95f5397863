------------------------------- MODULE SumLemmas -------------------------------
(***************************************************************************)
(* Sums over finite sets, as the community modules compute them by a fold. *)
(* Induction is over the subsets of a finite set, whose inclusion is well  *)
(* founded: no theorem is used that takes a predicate as its parameter.    *)
(***************************************************************************)
EXTENDS Integers, FiniteSets, Functions, FiniteSetTheorems, WellFoundedInduction, TLAPS

\* Of some subsets of a finite set, one holds no other.
LEMMA SmallestSubset ==
  ASSUME NEW S, IsFiniteSet(S), NEW U \in SUBSET (SUBSET S), U # {}
  PROVE  \E s \in U : \A r \in U : r \subseteq s => r = s
<1>1. U \subseteq FiniteSubsetsOf(S)
  BY FS_Subset DEF FiniteSubsetsOf
<1>2. PICK s \in U : \A r \in U : <<r, s>> \notin StrictSubsetOrdering(S)
  BY <1>1, FS_StrictSubsetOrderingWellFounded, WFMin
<1>3. QED
  BY <1>2 DEF StrictSubsetOrdering

\* What holds of a set when it holds of that set without any one of its members
\* holds of every subset of a finite set.
LEMMA SubsetInduction ==
  ASSUME NEW S, IsFiniteSet(S), NEW U \in SUBSET (SUBSET S),
         \A s \in SUBSET S : (\A x \in s : s \ {x} \in U) => s \in U
  PROVE  U = SUBSET S
<1> DEFINE V == (SUBSET S) \ U
<1> SUFFICES ASSUME V # {} PROVE FALSE
  OBVIOUS
<1>1. V \in SUBSET (SUBSET S)
  OBVIOUS
<1>2. PICK s \in V : \A r \in V : r \subseteq s => r = s
  <2> HIDE DEF V
  <2> QED
    BY <1>1, SmallestSubset
<1>3. \A x \in s : s \ {x} \in U
  BY <1>2
<1>4. QED
  BY <1>2, <1>3

\* Induction over the numbers up to a bound.
LEMMA UpToInduction ==
  ASSUME NEW N \in Nat, NEW T, 0 \in T, \A n \in 0 .. (N - 1) : n \in T => n + 1 \in T
  PROVE  0 .. N \subseteq T
<1> SUFFICES ASSUME NEW k \in 0 .. N, k \notin T PROVE FALSE
  OBVIOUS
<1> DEFINE Missing == {m \in 0 .. N : m \notin T}
           U == {0 .. n : n \in Missing}
<1> DEFINE S == 0 .. N
<1>1. IsFiniteSet(S) /\ U \in SUBSET (SUBSET S) /\ U # {}
  <2>1. IsFiniteSet(0 .. N)
    BY FS_Interval
  <2>2. \A n \in Missing : 0 .. n \in SUBSET (0 .. N)
    OBVIOUS
  <2>3. 0 .. k \in U
    OBVIOUS
  <2>4. QED
    BY <2>1, <2>2, <2>3
<1>2. PICK s \in U : \A r \in U : r \subseteq s => r = s
  <2> HIDE DEF U, S
  <2> QED
    BY <1>1, SmallestSubset
<1>3. PICK n \in 0 .. N : n \notin T /\ s = 0 .. n
  BY <1>2
<1>4. n # 0 /\ n - 1 \in 0 .. (N - 1)
  BY <1>3
<1>5. n - 1 \notin T
  BY <1>3, <1>4
<1>6. 0 .. (n - 1) \in U /\ 0 .. (n - 1) \subseteq s /\ n \notin 0 .. (n - 1) /\ n \in s
  BY <1>3, <1>4, <1>5
<1>7. QED
  BY <1>2, <1>6
-------------------------------------------------------------------------------
(* The sums the fold computes on the way, and that there are such sums. *)

Chosen(s) == CHOOSE x \in s : TRUE

\* The sum of f over the part s of a set, as the fold goes on from sum.
SumStep(f, sum, s) == IF s = {} THEN 0 ELSE f[Chosen(s)] + sum[s \ {Chosen(s)}]

IsSum(f, S, sum) == sum = [s \in SUBSET S |-> SumStep(f, sum, s)]

LEMMA SumIsFold ==
  ASSUME NEW f, NEW S
  PROVE  SumFunctionOnSet(f, S) = (CHOOSE sum : IsSum(f, S, sum))[S]
  BY DEF SumFunctionOnSet, FoldFunctionOnSet, MapThenFoldSet, IsSum, SumStep, Chosen

\* The sums of the parts with at most n members.
Parts(S, n) == {s \in SUBSET S : Cardinality(s) <= n}

LEMMA SumExists ==
  ASSUME NEW f, NEW S, IsFiniteSet(S)
  PROVE  \E sum : IsSum(f, S, sum)
<1> DEFINE N == Cardinality(S)
           T == {n \in 0 .. N : \E sum : \A s \in Parts(S, n) : sum[s] = SumStep(f, sum, s)}
<1>1. N \in Nat /\ \A s \in SUBSET S : IsFiniteSet(s) /\ Cardinality(s) \in Nat /\ Cardinality(s) <= N
  BY FS_CardinalityType, FS_Subset
<1>2. 0 \in T
  <2> DEFINE sum == [s \in SUBSET S |-> 0]
  <2>1. \A s \in Parts(S, 0) : s = {}
    BY <1>1, FS_EmptySet DEF Parts
  <2>2. \A s \in Parts(S, 0) : sum[s] = SumStep(f, sum, s)
    BY <2>1 DEF SumStep, Parts
  <2>3. QED
    BY <1>1, <2>2
<1>3. ASSUME NEW n \in 0 .. (N - 1), n \in T PROVE n + 1 \in T
  <2>1. PICK sum : \A s \in Parts(S, n) : sum[s] = SumStep(f, sum, s)
    BY <1>3
  <2> DEFINE more == [s \in SUBSET S |-> SumStep(f, sum, s)]
  <2>2. ASSUME NEW s \in Parts(S, n + 1) PROVE more[s] = SumStep(f, more, s)
    <3>1. CASE s = {}
      BY <3>1 DEF SumStep
    <3>2. CASE s # {}
      <4> DEFINE r == s \ {Chosen(s)}
      <4>1. Chosen(s) \in s /\ s \in SUBSET S /\ Cardinality(s) <= n + 1
        BY <3>2 DEF Chosen, Parts
      <4>2. Cardinality(r) = Cardinality(s) - 1
        BY <1>1, <4>1, FS_RemoveElement
      <4>3. r \in Parts(S, n)
        BY <1>1, <4>1, <4>2 DEF Parts
      <4>4. more[r] = sum[r]
        BY <2>1, <4>3 DEF Parts
      <4>5. QED
        BY <3>2, <4>1, <4>4 DEF SumStep
    <3>3. QED
      BY <3>1, <3>2
  <2>3. \E next : \A s \in Parts(S, n + 1) : next[s] = SumStep(f, next, s)
    <3> HIDE DEF more
    <3> QED
      BY <2>2
  <2>4. QED
    BY <1>1, <2>3
<1>4. N \in T
  <2> HIDE DEF N, T
  <2>1. 0 .. N \subseteq T
    BY <1>1, <1>2, <1>3, UpToInduction
  <2>2. QED
    BY <1>1, <2>1
<1>5. PICK sum : \A s \in Parts(S, N) : sum[s] = SumStep(f, sum, s)
  BY <1>4
<1> DEFINE total == [s \in SUBSET S |-> sum[s]]
<1>6. Parts(S, N) = SUBSET S
  BY <1>1 DEF Parts
<1>7. \A s \in SUBSET S : SumStep(f, total, s) = SumStep(f, sum, s)
  BY DEF SumStep
<1>8. IsSum(f, S, total)
  BY <1>5, <1>6, <1>7 DEF IsSum
<1>9. QED
  BY <1>8

LEMMA SumEquation ==
  ASSUME NEW f, NEW S, IsFiniteSet(S)
  PROVE  \E sum : IsSum(f, S, sum) /\ SumFunctionOnSet(f, S) = sum[S]
<1>1. IsSum(f, S, CHOOSE sum : IsSum(f, S, sum))
  BY SumExists
<1>2. QED
  BY <1>1, SumIsFold

\* A sum of natural numbers is one.
LEMMA SumNat ==
  ASSUME NEW f, NEW S, IsFiniteSet(S), \A x \in S : f[x] \in Nat
  PROVE  SumFunctionOnSet(f, S) \in Nat
<1>1. PICK sum : IsSum(f, S, sum) /\ SumFunctionOnSet(f, S) = sum[S]
  BY SumEquation
<1> DEFINE U == {s \in SUBSET S : sum[s] \in Nat}
<1>2. ASSUME NEW s \in SUBSET S, \A x \in s : s \ {x} \in U PROVE sum[s] \in Nat
  <2>1. sum[s] = SumStep(f, sum, s)
    BY <1>1 DEF IsSum
  <2>2. CASE s = {}
    BY <2>1, <2>2 DEF SumStep
  <2>3. CASE s # {}
    <3>1. Chosen(s) \in s
      BY <2>3 DEF Chosen
    <3>2. QED
      BY <1>2, <2>1, <2>3, <3>1 DEF SumStep
  <2>4. QED
    BY <2>2, <2>3
<1>3. U = SUBSET S
  <2>1. U \in SUBSET (SUBSET S) /\ \A s \in SUBSET S : (\A x \in s : s \ {x} \in U) => s \in U
    BY <1>2
  <2> HIDE DEF U
  <2>2. QED
    BY <2>1, SubsetInduction
<1>4. QED
  BY <1>1, <1>3

\* A sum of zeroes is zero.
LEMMA SumOfZeroes ==
  ASSUME NEW f, NEW S, IsFiniteSet(S), \A x \in S : f[x] = 0
  PROVE  SumFunctionOnSet(f, S) = 0
<1>1. PICK sum : IsSum(f, S, sum) /\ SumFunctionOnSet(f, S) = sum[S]
  BY SumEquation
<1> DEFINE U == {s \in SUBSET S : sum[s] = 0}
<1>2. ASSUME NEW s \in SUBSET S, \A x \in s : s \ {x} \in U PROVE sum[s] = 0
  <2>1. sum[s] = SumStep(f, sum, s)
    BY <1>1 DEF IsSum
  <2>2. s # {} => Chosen(s) \in s
    BY DEF Chosen
  <2>3. QED
    BY <1>2, <2>1, <2>2 DEF SumStep
<1>3. U = SUBSET S
  <2>1. U \in SUBSET (SUBSET S) /\ \A s \in SUBSET S : (\A x \in s : s \ {x} \in U) => s \in U
    BY <1>2
  <2> HIDE DEF U
  <2>2. QED
    BY <2>1, SubsetInduction
<1>4. QED
  BY <1>1, <1>3

\* A sum grows by one when one of its terms does, and stays when none changes.
LEMMA SumIncrement ==
  ASSUME NEW f, NEW g, NEW S, IsFiniteSet(S), NEW t,
         \A x \in S : f[x] \in Nat /\ g[x] = IF x = t THEN f[x] + 1 ELSE f[x]
  PROVE  SumFunctionOnSet(g, S) = SumFunctionOnSet(f, S) + (IF t \in S THEN 1 ELSE 0)
<1>1. PICK old : IsSum(f, S, old) /\ SumFunctionOnSet(f, S) = old[S]
  BY SumEquation
<1>2. PICK new : IsSum(g, S, new) /\ SumFunctionOnSet(g, S) = new[S]
  BY SumEquation
<1> DEFINE Grows(s) == old[s] \in Nat /\ new[s] = old[s] + (IF t \in s THEN 1 ELSE 0)
           U == {s \in SUBSET S : Grows(s)}
<1>3. ASSUME NEW s \in SUBSET S, \A x \in s : s \ {x} \in U PROVE Grows(s)
  <2>1. old[s] = SumStep(f, old, s) /\ new[s] = SumStep(g, new, s)
    BY <1>1, <1>2 DEF IsSum
  <2>2. CASE s = {}
    BY <2>1, <2>2 DEF SumStep
  <2>3. CASE s # {}
    <3> DEFINE c == Chosen(s)
    <3>1. c \in s /\ c \in S
      BY <2>3 DEF Chosen
    <3>2. Grows(s \ {c})
      BY <1>3, <3>1
    <3>3. old[s] = f[c] + old[s \ {c}] /\ new[s] = g[c] + new[s \ {c}]
      BY <2>1, <2>3 DEF SumStep
    <3>4. f[c] \in Nat /\ g[c] = IF c = t THEN f[c] + 1 ELSE f[c]
      BY <3>1
    <3>5. t \in s \ {c} <=> t \in s /\ c # t
      OBVIOUS
    <3> HIDE DEF c
    <3>6. QED
      BY <3>1, <3>2, <3>3, <3>4, <3>5
  <2>4. QED
    BY <2>2, <2>3
<1>4. U = SUBSET S
  <2>1. U \in SUBSET (SUBSET S) /\ \A s \in SUBSET S : (\A x \in s : s \ {x} \in U) => s \in U
    BY <1>3
  <2> HIDE DEF U
  <2>2. QED
    BY <2>1, SubsetInduction
<1>5. QED
  BY <1>1, <1>2, <1>4
===============================================================================
