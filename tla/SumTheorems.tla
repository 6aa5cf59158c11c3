----------------------------- MODULE SumTheorems -----------------------------
(***************************************************************************)
(* What SumFunction of the community modules computes, for every function  *)
(* with a finite domain and natural values: the sums in the invariants     *)
(* about storage_used are proved from these facts.  The sum is a recursive *)
(* function over the subsets of the domain; induction over them is stated  *)
(* with sets of good cases, from the well-foundedness of the subset order. *)
(***************************************************************************)
EXTENDS FiniteSetsExt, FiniteSetTheorems, WellFoundedInduction, TLAPS

(* Induction: a set of subsets of S that has T whenever it has all smaller *)
(* subsets of T has all of them.                                           *)
LEMMA SubsetsBySmaller ==
  ASSUME NEW S, IsFiniteSet(S), NEW Good,
         \A T \in SUBSET S : (\A U \in SUBSET T : U # T => U \in Good) => T \in Good
  PROVE  SUBSET S \subseteq Good
  <1> DEFINE Bad == (SUBSET S) \ Good
  <1> SUFFICES ASSUME Bad # {} PROVE FALSE
    OBVIOUS
  <1>1. IsWellFoundedOn(StrictSubsetOrdering(S), SUBSET S)
    <2>1. IsWellFoundedOn(StrictSubsetOrdering(S), FiniteSubsetsOf(S))
      BY FS_StrictSubsetOrderingWellFounded
    <2>2. FiniteSubsetsOf(S) = SUBSET S
      BY FS_FiniteSubsetsOfFinite
    <2>3. QED
      BY <2>1, <2>2
  <1>2. PICK T \in Bad : \A U \in Bad : ~(<<U, T>> \in StrictSubsetOrdering(S))
    <2>1. Bad \subseteq (SUBSET S)
      OBVIOUS
    <2> HIDE DEF Bad
    <2>2. QED
      BY <1>1, <2>1, WFMin
  <1>3. \A U \in SUBSET T : U # T => U \in Good
    BY <1>2 DEF StrictSubsetOrdering
  <1>4. QED
    BY <1>2, <1>3

(* Induction over numbers, likewise.                                       *)
LEMMA NumbersByPrevious ==
  ASSUME NEW Good, 0 \in Good, \A n \in Nat : n \in Good => n + 1 \in Good
  PROVE  Nat \subseteq Good
  <1> DEFINE Bad == Nat \ Good
  <1> SUFFICES ASSUME Bad # {} PROVE FALSE
    OBVIOUS
  <1>1. PICK n \in Bad : \A m \in Bad : ~(<<m, n>> \in OpToRel(<, Nat))
    <2>1. Bad \subseteq Nat
      OBVIOUS
    <2>2. QED
      BY <2>1, NatLessThanWellFounded, WFMin
  <1>2. n - 1 \in Nat /\ n - 1 < n /\ n = (n - 1) + 1
    OBVIOUS
  <1>3. <<n - 1, n>> \in OpToRel(<, Nat)
    BY <1>2 DEF OpToRel
  <1>4. n - 1 \in Good
    BY <1>1, <1>2, <1>3
  <1>5. QED
    BY <1>2, <1>4

-----------------------------------------------------------------------------
Pick(s) == CHOOSE x \in s : TRUE

(* One step of the iteration that SumFunctionOnSet is defined by.          *)
SumStep(g, h, s) == IF s = {} THEN 0 ELSE g[Pick(s)] + h[s \ {Pick(s)}]
Iterates(g, h, S) == h = [s \in SUBSET S |-> SumStep(g, h, s)]
Iteration(g, S) == CHOOSE h : h = [s \in SUBSET S |-> SumStep(g, h, s)]

LEMMA PickIn == ASSUME NEW s, s # {} PROVE Pick(s) \in s
  BY DEF Pick

LEMMA SumIsIteration ==
  ASSUME NEW g, NEW S PROVE SumFunctionOnSet(g, S) = Iteration(g, S)[S]
  BY Zenon DEF SumFunctionOnSet, FoldFunctionOnSet, MapThenFoldSet, Iteration, SumStep, Pick

(* There is such a function: for the sets of at most n elements by         *)
(* induction over n.                                                       *)
LEMMA IterationExists ==
  ASSUME NEW g, NEW S, IsFiniteSet(S)
  PROVE  Iterates(g, Iteration(g, S), S)
  <1> DEFINE Upto(n) == {s \in SUBSET S : Cardinality(s) <= n}
             Good == {n \in Nat : \E h : h = [s \in Upto(n) |-> SumStep(g, h, s)]}
  <1>0. \A s \in SUBSET S : IsFiniteSet(s) /\ Cardinality(s) \in Nat
    BY FS_Subset, FS_CardinalityType
  <1>1. 0 \in Good
    <2> DEFINE z == [s \in Upto(0) |-> 0]
    <2>1. \A s \in Upto(0) : s = {}
      BY <1>0, FS_EmptySet
    <2>2. z = [s \in Upto(0) |-> SumStep(g, z, s)]
      BY <2>1 DEF SumStep
    <2>3. QED
      BY <2>2
  <1>2. ASSUME NEW n \in Nat, n \in Good PROVE n + 1 \in Good
    <2>1. PICK h : h = [s \in Upto(n) |-> SumStep(g, h, s)]
      BY <1>2
    <2> DEFINE k == [s \in Upto(n + 1) |-> SumStep(g, h, s)]
    <2>2. \A s \in Upto(n) : s \in Upto(n + 1) /\ k[s] = h[s]
      <3>1. \A s \in Upto(n) : s \in Upto(n + 1)
        BY <1>0
      <3>2. \A s \in Upto(n) : h[s] = SumStep(g, h, s)
        BY <2>1
      <3>3. QED
        BY <3>1, <3>2
    <2>3. \A s \in Upto(n + 1) : s # {} => s \ {Pick(s)} \in Upto(n)
      BY <1>0, PickIn, FS_RemoveElement
    <2>4. \A s \in Upto(n + 1) : SumStep(g, h, s) = SumStep(g, k, s)
      BY <2>2, <2>3 DEF SumStep
    <2>5. k = [s \in Upto(n + 1) |-> SumStep(g, k, s)]
      BY <2>4
    <2>6. \E f : f = [s \in Upto(n + 1) |-> SumStep(g, f, s)]
      BY <2>5, Zenon
    <2>7. QED
      BY <2>6
  <1>3. Cardinality(S) \in Good
    <2>1. Nat \subseteq Good
      <3> HIDE DEF Good
      <3> QED BY <1>1, <1>2, NumbersByPrevious
    <2>2. QED
      BY <1>0, <2>1
  <1>4. Upto(Cardinality(S)) = SUBSET S
    BY FS_Subset
  <1>5. QED
    BY <1>3, <1>4 DEF Iterates, Iteration

LEMMA IterationAt ==
  ASSUME NEW g, NEW S, IsFiniteSet(S), NEW s \in SUBSET S
  PROVE  Iteration(g, S)[s] = SumStep(g, Iteration(g, S), s)
  <1> DEFINE h == Iteration(g, S)
  <1>0. Iterates(g, h, S)
    BY IterationExists
  <1> HIDE DEF h
  <1>1. h = [r \in SUBSET S |-> SumStep(g, h, r)]
    BY <1>0 DEF Iterates
  <1>2. h[s] = SumStep(g, h, s)
    BY <1>1
  <1>3. QED
    BY <1>2 DEF h

(* The value of an iteration at a subset is the sum over that subset.      *)
LEMMA IterationValue ==
  ASSUME NEW g, NEW S, IsFiniteSet(S), NEW T \in SUBSET S
  PROVE  SumFunctionOnSet(g, T) = Iteration(g, S)[T]
  <1> DEFINE h == Iteration(g, S)
             k == Iteration(g, T)
             Good == {U \in SUBSET T : h[U] = k[U]}
  <1>1. /\ \A U \in SUBSET S : h[U] = SumStep(g, h, U)
        /\ \A U \in SUBSET T : k[U] = SumStep(g, k, U)
    <2>1. IsFiniteSet(T)
      BY FS_Subset
    <2>2. QED
      BY <2>1, IterationAt
  <1>2. ASSUME NEW U \in SUBSET T, \A V \in SUBSET U : V # U => V \in Good
        PROVE  U \in Good
    <2>1. CASE U = {}
      BY <1>1, <2>1 DEF SumStep
    <2>2. CASE U # {}
      <3>1. U \ {Pick(U)} \in Good
        BY <1>2, <2>2, PickIn
      <3>2. QED
        BY <1>1, <2>2, <3>1 DEF SumStep
    <2>3. QED
      BY <2>1, <2>2
  <1>3. T \in Good
    <2>1. IsFiniteSet(T)
      BY FS_Subset
    <2> HIDE DEF Good
    <2>2. SUBSET T \subseteq Good
      BY <1>2, <2>1, SubsetsBySmaller
    <2>3. QED
      BY <2>2
  <1>4. QED
    BY <1>3, SumIsIteration

(* A sum over a set that is not empty, by the element that is picked.      *)
LEMMA SumPicked ==
  ASSUME NEW g, NEW S, IsFiniteSet(S), S # {}
  PROVE  SumFunctionOnSet(g, S) = g[Pick(S)] + SumFunctionOnSet(g, S \ {Pick(S)})
  <1>1. Iteration(g, S)[S] = SumStep(g, Iteration(g, S), S)
    BY IterationAt
  <1>2. SumFunctionOnSet(g, S) = Iteration(g, S)[S]
    BY SumIsIteration
  <1>3. SumFunctionOnSet(g, S \ {Pick(S)}) = Iteration(g, S)[S \ {Pick(S)}]
    BY IterationValue
  <1>4. QED
    BY <1>1, <1>2, <1>3 DEF SumStep

LEMMA SumOfNothing == \A g : SumFunctionOnSet(g, {}) = 0
  <1> TAKE g
  <1>1. Iteration(g, {})[{}] = SumStep(g, Iteration(g, {}), {})
    BY IterationAt, FS_EmptySet
  <1>2. QED
    BY <1>1, SumIsIteration DEF SumStep

LEMMA SumOnSetNat ==
  ASSUME NEW g, NEW S, IsFiniteSet(S), \A x \in S : g[x] \in Nat
  PROVE  SumFunctionOnSet(g, S) \in Nat
  <1> DEFINE Good == {T \in SUBSET S : SumFunctionOnSet(g, T) \in Nat}
  <1>1. ASSUME NEW T \in SUBSET S, \A U \in SUBSET T : U # T => U \in Good
        PROVE  T \in Good
    <2>1. CASE T = {}
      BY <2>1, SumOfNothing
    <2>2. CASE T # {}
      <3>1. Pick(T) \in T /\ T \ {Pick(T)} \in Good
        BY <1>1, <2>2, PickIn
      <3>2. SumFunctionOnSet(g, T) = g[Pick(T)] + SumFunctionOnSet(g, T \ {Pick(T)})
        BY <2>2, SumPicked, FS_Subset
      <3>3. QED
        BY <3>1, <3>2
    <2>3. QED
      BY <2>1, <2>2
  <1> HIDE DEF Good
  <1>2. SUBSET S \subseteq Good
    BY <1>1, SubsetsBySmaller
  <1>3. S \in Good
    BY <1>2
  <1>4. QED
    BY <1>3 DEF Good

(* Any element may be taken first: by induction over the set, since two    *)
(* elements may be taken in either order.                                  *)
LEMMA SumAnyFirst ==
  ASSUME NEW g, NEW S, IsFiniteSet(S), \A x \in S : g[x] \in Nat
  PROVE  \A x \in S :
           SumFunctionOnSet(g, S) = g[x] + SumFunctionOnSet(g, S \ {x})
  <1> DEFINE Sum(T) == SumFunctionOnSet(g, T)
             Good == {T \in SUBSET S : \A x \in T : Sum(T) = g[x] + Sum(T \ {x})}
  <1>0. \A T \in SUBSET S : IsFiniteSet(T) /\ Sum(T) \in Nat
    BY FS_Subset, SumOnSetNat
  <1>1. ASSUME NEW T \in SUBSET S, \A U \in SUBSET T : U # T => U \in Good
        PROVE  T \in Good
    <2> SUFFICES ASSUME NEW x \in T PROVE Sum(T) = g[x] + Sum(T \ {x})
      OBVIOUS
    <2> DEFINE c == Pick(T)
    <2>1. c \in T /\ Sum(T) = g[c] + Sum(T \ {c})
      BY <1>0, PickIn, SumPicked
    <2>2. CASE x = c
      BY <2>1, <2>2
    <2>3. CASE x # c
      <3> DEFINE R == T \ {c, x}
      <3>1. T \ {c} \in Good /\ x \in T \ {c} /\ (T \ {c}) \ {x} = R
        BY <1>1, <2>1, <2>3
      <3>2. T \ {x} \in Good /\ c \in T \ {x} /\ (T \ {x}) \ {c} = R
        BY <1>1, <2>1, <2>3
      <3>3. Sum(T \ {c}) = g[x] + Sum(R) /\ Sum(T \ {x}) = g[c] + Sum(R)
        BY <3>1, <3>2
      <3>4. Sum(R) \in Nat /\ g[x] \in Nat /\ g[c] \in Nat
        BY <1>0, <2>1
      <3> HIDE DEF c, R, Sum
      <3>5. QED
        BY <2>1, <3>3, <3>4
    <2>4. QED
      BY <2>2, <2>3
  <1> HIDE DEF Good
  <1>2. SUBSET S \subseteq Good
    BY <1>1, SubsetsBySmaller
  <1>3. S \in Good
    BY <1>2
  <1>4. QED
    BY <1>3 DEF Good

(* The sum depends on the values on the set alone.                         *)
LEMMA SumSame ==
  ASSUME NEW g, NEW h, NEW S, IsFiniteSet(S), \A x \in S : g[x] = h[x]
  PROVE  SumFunctionOnSet(g, S) = SumFunctionOnSet(h, S)
  <1> DEFINE Good == {T \in SUBSET S : SumFunctionOnSet(g, T) = SumFunctionOnSet(h, T)}
  <1>1. ASSUME NEW T \in SUBSET S, \A U \in SUBSET T : U # T => U \in Good
        PROVE  T \in Good
    <2>1. CASE T = {}
      BY <2>1, SumOfNothing
    <2>2. CASE T # {}
      <3>1. Pick(T) \in T /\ T \ {Pick(T)} \in Good
        BY <1>1, <2>2, PickIn
      <3>2. \A f : SumFunctionOnSet(f, T) = f[Pick(T)] + SumFunctionOnSet(f, T \ {Pick(T)})
        BY <2>2, SumPicked, FS_Subset
      <3>3. QED
        BY <3>1, <3>2
    <2>3. QED
      BY <2>1, <2>2
  <1> HIDE DEF Good
  <1>2. SUBSET S \subseteq Good
    BY <1>1, SubsetsBySmaller
  <1>3. S \in Good
    BY <1>2
  <1>4. QED
    BY <1>3 DEF Good

-----------------------------------------------------------------------------
(* The facts that the invariants need, about SumFunction.                  *)
LEMMA SumEmpty ==
  ASSUME NEW f, DOMAIN f = {} PROVE SumFunction(f) = 0
  BY SumOfNothing DEF SumFunction

LEMMA SumNat ==
  ASSUME NEW f, IsFiniteSet(DOMAIN f), \A x \in DOMAIN f : f[x] \in Nat
  PROVE  SumFunction(f) \in Nat
  BY SumOnSetNat DEF SumFunction

(* A function with one more argument.                                      *)
LEMMA SumAdd ==
  ASSUME NEW f, NEW h, NEW x,
         IsFiniteSet(DOMAIN f), x \notin DOMAIN f, DOMAIN h = DOMAIN f \cup {x},
         \A y \in DOMAIN f : f[y] \in Nat /\ h[y] = f[y],
         h[x] \in Nat
  PROVE  /\ SumFunction(h) = h[x] + SumFunction(f)
         /\ SumFunction(f) \in Nat
  <1>1. IsFiniteSet(DOMAIN h) /\ \A y \in DOMAIN h : h[y] \in Nat
    BY FS_AddElement
  <1>2. SumFunctionOnSet(h, DOMAIN h) = h[x] + SumFunctionOnSet(h, DOMAIN h \ {x})
    BY <1>1, SumAnyFirst
  <1>3. DOMAIN h \ {x} = DOMAIN f
    OBVIOUS
  <1>4. SumFunctionOnSet(h, DOMAIN f) = SumFunctionOnSet(f, DOMAIN f)
    BY SumSame
  <1>5. QED
    BY <1>2, <1>3, <1>4, SumNat DEF SumFunction

(* No sum exceeds the number of its terms times their greatest.            *)
LEMMA SumBounded ==
  ASSUME NEW f, NEW m \in Nat, IsFiniteSet(DOMAIN f),
         \A x \in DOMAIN f : f[x] \in 0 .. m
  PROVE  SumFunction(f) <= Cardinality(DOMAIN f) * m
  <1> DEFINE S == DOMAIN f
             Sum(T) == SumFunctionOnSet(f, T)
             Good == {T \in SUBSET S : Sum(T) <= Cardinality(T) * m}
  <1>0. \A T \in SUBSET S : IsFiniteSet(T) /\ Cardinality(T) \in Nat /\ Sum(T) \in Nat
    BY FS_Subset, FS_CardinalityType, SumOnSetNat
  <1>1. ASSUME NEW T \in SUBSET S, \A U \in SUBSET T : U # T => U \in Good
        PROVE  T \in Good
    <2>1. CASE T = {}
      BY <2>1, SumOfNothing, FS_EmptySet
    <2>2. CASE T # {}
      <3> DEFINE c == Pick(T)
                 n == Cardinality(T \ {c})
      <3>1. c \in T /\ T \ {c} \in Good
        BY <1>1, <2>2, PickIn
      <3>2. Sum(T) = f[c] + Sum(T \ {c})
        BY <1>0, <2>2, SumPicked
      <3>3. Cardinality(T) = n + 1 /\ n \in Nat
        BY <1>0, <3>1, FS_RemoveElement
      <3>4. Sum(T \ {c}) <= n * m /\ f[c] <= m /\ f[c] \in Nat /\ Sum(T \ {c}) \in Nat
        BY <1>0, <3>1
      <3>5. (n + 1) * m = n * m + m /\ n * m \in Nat
        BY <3>3
      <3>6. Sum(T) <= Cardinality(T) * m
        <4> HIDE DEF n, c, Sum
        <4> QED BY <3>2, <3>3, <3>4, <3>5
      <3>7. QED
        BY <3>6
    <2>3. QED
      BY <2>1, <2>2
  <1> HIDE DEF Good
  <1>2. SUBSET S \subseteq Good
    BY <1>1, SubsetsBySmaller
  <1>3. S \in Good
    BY <1>2
  <1>4. QED
    BY <1>3 DEF Good, SumFunction
=============================================================================
