---------------------------------- MODULE Sums ----------------------------------
(***************************************************************************)
(* The sum of a function over a finite set, SumFunction, is defined by     *)
(* recursion over its domain.  The lemmas say how it changes with one      *)
(* value and what bounds it, each by a smallest counterexample.            *)
(***************************************************************************)
EXTENDS Integers, FiniteSets, Functions, FiniteSetTheorems, WellFoundedInduction, TLAPS

(* Every non-empty set of naturals has a least element.                      *)
NatLess == OpToRel(<, Nat)

LEMMA NatLessOrders == \A m, n \in Nat : m < n => <<m, n>> \in NatLess
BY DEF NatLess, OpToRel

LEMMA NatLessWF == IsWellFoundedOn(NatLess, Nat)
BY NatLessThanWellFounded DEF NatLess

LEMMA LeastNat ==
  ASSUME NEW T \in SUBSET Nat, T # {}
  PROVE  \E n \in T : \A m \in T : n <= m
<1>1. T \subseteq Nat
  OBVIOUS
<1>3. \E n \in T : \A m \in T : ~ (<<m, n>> \in NatLess)
  BY <1>1, NatLessWF, WFMin
<1>4. PICK n \in T : \A m \in T : ~ (<<m, n>> \in NatLess)
  BY <1>3
<1>5. \A m \in T : ~ (m < n)
  BY <1>4, NatLessOrders
<1> QED  BY <1>5

(* SumFunction picks the elements of the domain one by one: g sums f up over *)
(* the sets of D as it does.                                                  *)
Pick(s) == CHOOSE x \in s : TRUE
SumStep(f, g, s) == IF s = {} THEN 0 ELSE f[Pick(s)] + g[s \ {Pick(s)}]
SumsUp(f, D, g) == g = [s \in D |-> SumStep(f, g, s)]

UpTo(S, n) == {s \in SUBSET S : Cardinality(s) <= n}

LEMMA PickIn == ASSUME NEW s, s # {} PROVE Pick(s) \in s
BY DEF Pick

LEMMA SumExists ==
  ASSUME NEW S, IsFiniteSet(S), NEW f
  PROVE  \E g : SumsUp(f, SUBSET S, g)
<1> DEFINE Missing == {n \in Nat : ~ \E g : SumsUp(f, UpTo(S, n), g)}
<1>1. \A s \in SUBSET S : IsFiniteSet(s) /\ Cardinality(s) \in Nat
  BY FS_Subset, FS_CardinalityType
<1>2. Missing = {}
  <2> SUFFICES ASSUME Missing # {} PROVE FALSE
    OBVIOUS
  <2>1. PICK n \in Missing : \A m \in Missing : n <= m
    <3>1. Missing \in SUBSET Nat
      OBVIOUS
    <3> QED  BY <3>1, LeastNat
  <2>2. CASE n = 0
    <3>1. \A s \in UpTo(S, 0) : s = {}
      BY <1>1, FS_EmptySet DEF UpTo
    <3>2. SumsUp(f, UpTo(S, 0), [s \in UpTo(S, 0) |-> 0])
      BY <3>1 DEF SumsUp, SumStep
    <3> QED  BY <3>2, <2>2
  <2>3. CASE n # 0
    <3>1. n - 1 \in Nat /\ n - 1 \notin Missing
      BY <2>3, <2>1
    <3>2. PICK g : SumsUp(f, UpTo(S, n - 1), g)
      BY <3>1
    <3> DEFINE h == [s \in UpTo(S, n) |-> SumStep(f, g, s)]
    <3>3. ASSUME NEW s \in UpTo(S, n), s # {}
          PROVE  /\ s \ {Pick(s)} \in UpTo(S, n - 1)
                 /\ s \ {Pick(s)} \in UpTo(S, n)
      BY <1>1, <3>3, PickIn, FS_RemoveElement, n \in Nat DEF UpTo
    <3>4. ASSUME NEW s \in UpTo(S, n - 1)
          PROVE  s \in UpTo(S, n) /\ h[s] = g[s]
      <4>1. s \in UpTo(S, n)
        BY <1>1, <3>1, n \in Nat DEF UpTo
      <4>2. g[s] = SumStep(f, g, s)
        BY <3>2 DEF SumsUp
      <4> QED  BY <4>1, <4>2
    <3>5. ASSUME NEW s \in UpTo(S, n)
          PROVE  SumStep(f, g, s) = SumStep(f, h, s)
      BY <3>3, <3>4 DEF SumStep
    <3>6. SumsUp(f, UpTo(S, n), h)
      BY <3>5, Zenon DEF SumsUp
    <3> QED  BY <3>6, <2>1
  <2> QED  BY <2>2, <2>3
<1>3. UpTo(S, Cardinality(S)) = SUBSET S
  BY FS_Subset DEF UpTo
<1>4. Cardinality(S) \in Nat
  BY FS_CardinalityType
<1>5. \E g : SumsUp(f, UpTo(S, Cardinality(S)), g)
  BY <1>2, <1>4
<1> QED  BY <1>3, <1>5

SumOf(f, S) == CHOOSE g : SumsUp(f, SUBSET S, g)

LEMMA SumIs == \A f : SumFunction(f) = SumOf(f, DOMAIN f)[DOMAIN f]
  BY DEF SumFunction, SumFunctionOnSet, FoldFunctionOnSet, MapThenFoldSet, SumOf, SumsUp,
         SumStep, Pick

(* A set of subsets of a finite set has a minimal element.                   *)
LEMMA LeastSubset ==
  ASSUME NEW S, IsFiniteSet(S), NEW T \in SUBSET (SUBSET S), T # {}
  PROVE  \E s \in T : \A r \in T : ~ (r \subseteq s /\ r # s)
<1>1. FiniteSubsetsOf(S) = SUBSET S
  BY FS_FiniteSubsetsOfFinite
<1>2. IsWellFoundedOn(StrictSubsetOrdering(S), SUBSET S)
  BY <1>1, FS_StrictSubsetOrderingWellFounded
<1>3. \E s \in T : \A r \in T : ~ (<<r, s>> \in StrictSubsetOrdering(S))
  BY <1>2, WFMin
<1> QED  BY <1>3 DEF StrictSubsetOrdering

LEMMA SumStepFact ==
  ASSUME NEW S, IsFiniteSet(S), NEW f, NEW s \in SUBSET S
  PROVE  SumOf(f, S)[s] = SumStep(f, SumOf(f, S), s)
<1>1. SumsUp(f, SUBSET S, SumOf(f, S))
  BY SumExists DEF SumOf
<1> QED  BY <1>1 DEF SumsUp

LEMMA SumType ==
  ASSUME NEW S, IsFiniteSet(S), NEW f \in [S -> Int]
  PROVE  \A s \in SUBSET S : SumOf(f, S)[s] \in Int
<1> DEFINE Bad == {s \in SUBSET S : SumOf(f, S)[s] \notin Int}
<1> SUFFICES ASSUME Bad # {} PROVE FALSE
  OBVIOUS
<1>1. PICK s \in Bad : \A r \in Bad : ~ (r \subseteq s /\ r # s)
  <2> HIDE DEF Bad
  <2>1. Bad \in SUBSET (SUBSET S)
    BY DEF Bad
  <2> QED  BY <2>1, LeastSubset
<1>2. SumOf(f, S)[s] = SumStep(f, SumOf(f, S), s)
  BY SumStepFact
<1>3. CASE s = {}
  BY <1>2, <1>3 DEF SumStep
<1>4. CASE s # {}
  <2>1. Pick(s) \in s
    BY <1>4, PickIn
  <2>2. SumOf(f, S)[s \ {Pick(s)}] \in Int
    BY <2>1, <1>1
  <2> QED  BY <1>2, <1>4, <2>1, <2>2 DEF SumStep
<1> QED  BY <1>3, <1>4

(* Adding v to one value of a function adds v to its sum.                    *)
LEMMA SumAdd ==
  ASSUME NEW S, IsFiniteSet(S), NEW f \in [S -> Int], NEW a \in S, NEW v \in Int
  PROVE  SumFunction([f EXCEPT ![a] = @ + v]) = SumFunction(f) + v
<1> DEFINE h == [f EXCEPT ![a] = @ + v]
           More(s) == IF a \in s THEN v ELSE 0
           Bad == {s \in SUBSET S : SumOf(h, S)[s] # SumOf(f, S)[s] + More(s)}
<1>0. h \in [S -> Int] /\ \A x \in S : h[x] = IF x = a THEN f[x] + v ELSE f[x]
  OBVIOUS
<1> HIDE DEF h
<1>1. ASSUME Bad # {} PROVE FALSE
  <2>1. PICK s \in Bad : \A r \in Bad : ~ (r \subseteq s /\ r # s)
    <3> HIDE DEF Bad
    <3>1. Bad \in SUBSET (SUBSET S)
      BY DEF Bad
    <3> QED  BY <3>1, <1>1, LeastSubset
  <2>2. /\ SumOf(f, S)[s] = SumStep(f, SumOf(f, S), s)
        /\ SumOf(h, S)[s] = SumStep(h, SumOf(h, S), s)
    BY SumStepFact
  <2>3. CASE s = {}
    BY <2>2, <2>3 DEF SumStep
  <2>4. CASE s # {}
    <3> DEFINE x == Pick(s)
               r == s \ {x}
    <3>1. x \in s /\ x \in S
      BY <2>4, PickIn
    <3> HIDE DEF x
    <3>2. SumOf(h, S)[r] = SumOf(f, S)[r] + More(r)
      BY <3>1, <2>1
    <3>3. SumOf(f, S)[r] \in Int /\ SumOf(f, S)[s] \in Int
      BY SumType
    <3>4. SumOf(f, S)[s] = f[x] + SumOf(f, S)[r] /\ SumOf(h, S)[s] = h[x] + SumOf(h, S)[r]
      BY <2>2, <2>4 DEF SumStep, x
    <3>5. f[x] \in Int /\ h[x] \in Int
      BY <3>1, <1>0
    <3>6. SumOf(h, S)[s] = SumOf(f, S)[s] + More(s)
      <4>1. CASE x = a
        BY <4>1, <3>1, <3>2, <3>3, <3>4, <3>5, <1>0
      <4>2. CASE x # a
        BY <4>2, <3>1, <3>2, <3>3, <3>4, <3>5, <1>0
      <4> QED  BY <4>1, <4>2
    <3> QED  BY <3>6
  <2> QED  BY <2>3, <2>4
<1>2. SumOf(h, S)[S] = SumOf(f, S)[S] + v
  BY <1>1
<1>3. DOMAIN h = S /\ DOMAIN f = S
  BY <1>0
<1> QED  BY <1>2, <1>3, SumIs DEF h

LEMMA SumInt ==
  ASSUME NEW S, IsFiniteSet(S), NEW f \in [S -> Int]
  PROVE  SumFunction(f) \in Int
BY SumIs, SumType

LEMMA SumNat ==
  ASSUME NEW S, IsFiniteSet(S), NEW f \in [S -> Nat]
  PROVE  SumFunction(f) \in Nat
<1> DEFINE Bad == {s \in SUBSET S : SumOf(f, S)[s] \notin Nat}
<1>1. ASSUME Bad # {} PROVE FALSE
  <2>1. PICK s \in Bad : \A r \in Bad : ~ (r \subseteq s /\ r # s)
    <3> HIDE DEF Bad
    <3>1. Bad \in SUBSET (SUBSET S)
      BY DEF Bad
    <3> QED  BY <3>1, <1>1, LeastSubset
  <2>2. SumOf(f, S)[s] = SumStep(f, SumOf(f, S), s)
    BY SumStepFact
  <2>3. CASE s = {}
    BY <2>2, <2>3 DEF SumStep
  <2>4. CASE s # {}
    <3>1. Pick(s) \in s
      BY <2>4, PickIn
    <3>2. SumOf(f, S)[s \ {Pick(s)}] \in Nat
      BY <3>1, <2>1
    <3> QED  BY <2>2, <2>4, <3>1, <3>2 DEF SumStep
  <2> QED  BY <2>3, <2>4
<1>2. SumOf(f, S)[S] \in Nat
  BY <1>1
<1> QED  BY <1>2, SumIs

(* A value is at most the sum of them all, when none is negative.            *)
LEMMA SumBound ==
  ASSUME NEW S, IsFiniteSet(S), NEW f \in [S -> Nat], NEW a \in S
  PROVE  f[a] <= SumFunction(f)
<1>1. PICK v \in Int : v = 0 - f[a]
  OBVIOUS
<1> DEFINE h == [f EXCEPT ![a] = @ + v]
<1>2. h \in [S -> Nat]
  BY <1>1
<1>3. f \in [S -> Int]
  OBVIOUS
<1>4. SumFunction(h) = SumFunction(f) + v
  BY <1>3, SumAdd
<1>5. SumFunction(h) \in Nat /\ SumFunction(f) \in Nat
  <2> HIDE DEF h
  <2> QED  BY <1>2, SumNat
<1> QED  BY <1>1, <1>4, <1>5

LEMMA SumZero ==
  ASSUME NEW S, IsFiniteSet(S), NEW f, f = [a \in S |-> 0]
  PROVE  SumFunction(f) = 0
<1> DEFINE Bad == {s \in SUBSET S : SumOf(f, S)[s] # 0}
<1>1. ASSUME Bad # {} PROVE FALSE
  <2>1. PICK s \in Bad : \A r \in Bad : ~ (r \subseteq s /\ r # s)
    <3> HIDE DEF Bad
    <3>1. Bad \in SUBSET (SUBSET S)
      BY DEF Bad
    <3> QED  BY <3>1, <1>1, LeastSubset
  <2>2. SumOf(f, S)[s] = SumStep(f, SumOf(f, S), s)
    BY SumStepFact
  <2>3. CASE s = {}
    BY <2>2, <2>3 DEF SumStep
  <2>4. CASE s # {}
    <3>1. Pick(s) \in s
      BY <2>4, PickIn
    <3>2. SumOf(f, S)[s \ {Pick(s)}] = 0 /\ f[Pick(s)] = 0
      BY <3>1, <2>1
    <3> QED  BY <2>2, <2>4, <3>2 DEF SumStep
  <2> QED  BY <2>3, <2>4
<1>2. SumOf(f, S)[S] = 0 /\ DOMAIN f = S
  BY <1>1
<1> QED  BY <1>2, SumIs

(* The sum does not depend on the element that is taken first.               *)
LEMMA SumTake ==
  ASSUME NEW S, IsFiniteSet(S), NEW f \in [S -> Int], NEW t \in SUBSET S, NEW y \in t
  PROVE  SumOf(f, S)[t] = f[y] + SumOf(f, S)[t \ {y}]
<1> DEFINE g == SumOf(f, S)
           Bad == {s \in SUBSET S : \E x \in s : g[s] # f[x] + g[s \ {x}]}
<1>1. \A s \in SUBSET S : g[s] \in Int /\ g[s] = SumStep(f, g, s)
  BY SumType, SumStepFact
<1> HIDE DEF g
<1>2. ASSUME Bad # {} PROVE FALSE
  <2>1. PICK s \in Bad : \A r \in Bad : ~ (r \subseteq s /\ r # s)
    <3> HIDE DEF Bad
    <3>1. Bad \in SUBSET (SUBSET S)
      BY DEF Bad
    <3> QED  BY <3>1, <1>2, LeastSubset
  <2>2. PICK x \in s : g[s] # f[x] + g[s \ {x}]
    BY <2>1
  <2>3. PICK p : p = Pick(s)
    OBVIOUS
  <2>4. p \in s /\ g[s] = f[p] + g[s \ {p}]
    BY <1>1, <2>1, <2>2, <2>3, PickIn DEF SumStep
  <2>5. p # x
    BY <2>2, <2>4
  <2>6. g[s \ {p}] = f[x] + g[(s \ {p}) \ {x}]
    <3>1. s \ {p} \notin Bad
      BY <2>1, <2>4
    <3>2. s \ {p} \in SUBSET S /\ x \in s \ {p}
      BY <2>1, <2>2, <2>5
    <3> QED  BY <3>1, <3>2
  <2>7. g[s \ {x}] = f[p] + g[(s \ {x}) \ {p}]
    <3>1. s \ {x} \notin Bad
      BY <2>1, <2>2
    <3>2. s \ {x} \in SUBSET S /\ p \in s \ {x}
      BY <2>1, <2>4, <2>5
    <3> QED  BY <3>1, <3>2
  <2>8. (s \ {p}) \ {x} = (s \ {x}) \ {p} /\ (s \ {x}) \ {p} \in SUBSET S
    BY <2>1
  <2>9. PICK i \in Int : i = g[(s \ {x}) \ {p}]
    BY <1>1, <2>8
  <2>10. PICK u \in Int, v \in Int : u = f[p] /\ v = f[x]
    BY <2>1, <2>2, <2>4
  <2>11. g[s \ {p}] = v + i /\ g[s \ {x}] = u + i
    <3>1. g[s \ {p}] = v + g[(s \ {x}) \ {p}]
      BY <2>6, <2>8, <2>10
    <3> QED  BY <2>7, <2>9, <2>10, <3>1
  <2>12. g[s] = u + (v + i) /\ g[s] # v + (u + i)
    BY <2>2, <2>4, <2>10, <2>11
  <2> HIDE DEF Bad
  <2> QED  BY <2>9, <2>10, <2>12
<1>3. t \notin Bad
  BY <1>2
<1>4. g[t] = f[y] + g[t \ {y}]
  BY <1>3
<1> QED  BY <1>4 DEF g

LEMMA SumTakeAll ==
  ASSUME NEW S, IsFiniteSet(S), NEW f \in [S -> Int], NEW y \in S
  PROVE  SumOf(f, S)[S] = f[y] + SumOf(f, S)[S \ {y}]
<1>1. PICK t : t = S
  OBVIOUS
<1>2. t \in SUBSET S /\ y \in t
  BY <1>1
<1>3. SumOf(f, S)[t] = f[y] + SumOf(f, S)[t \ {y}]
  BY <1>2, SumTake
<1> QED  BY <1>1, <1>3

(* A new element adds its value to the sum.                                  *)
LEMMA SumExtend ==
  ASSUME NEW S, IsFiniteSet(S), NEW f \in [S -> Int], NEW a, a \notin S, NEW v \in Int,
         NEW h, h = [x \in S \cup {a} |-> IF x = a THEN v ELSE f[x]]
  PROVE  SumFunction(h) = SumFunction(f) + v
<1> DEFINE T == S \cup {a}
           Bad == {s \in SUBSET S : SumOf(h, T)[s] # SumOf(f, S)[s]}
<1>1. h \in [T -> Int] /\ h[a] = v /\ \A x \in S : h[x] = f[x]
  OBVIOUS
<1>2. IsFiniteSet(T)
  BY FS_AddElement
<1> HIDE DEF T
<1>3. S \subseteq T /\ a \in T /\ T \ {a} = S
  BY DEF T
<1>4. ASSUME Bad # {} PROVE FALSE
  <2>1. PICK s \in Bad : \A r \in Bad : ~ (r \subseteq s /\ r # s)
    <3> HIDE DEF Bad
    <3>1. Bad \in SUBSET (SUBSET S)
      BY DEF Bad
    <3> QED  BY <3>1, <1>4, LeastSubset
  <2>2. /\ SumOf(f, S)[s] = SumStep(f, SumOf(f, S), s)
        /\ SumOf(h, T)[s] = SumStep(h, SumOf(h, T), s)
    BY <1>2, <1>3, <2>1, SumStepFact
  <2>3. CASE s = {}
    BY <2>1, <2>2, <2>3 DEF SumStep
  <2>4. CASE s # {}
    <3>1. Pick(s) \in s
      BY <2>4, PickIn
    <3>2. PICK r : r = s \ {Pick(s)}
      OBVIOUS
    <3>3. r \in SUBSET S /\ r \notin Bad
      BY <3>1, <3>2, <2>1
    <3>4. SumOf(h, T)[r] = SumOf(f, S)[r]
      BY <3>3
    <3>5. h[Pick(s)] = f[Pick(s)]
      BY <1>1, <2>1, <3>1
    <3> HIDE DEF Bad
    <3>6. SumOf(h, T)[s] = SumOf(f, S)[s]
      BY <2>2, <2>4, <3>2, <3>4, <3>5 DEF SumStep
    <3> QED  BY <2>1, <3>6 DEF Bad
  <2> QED  BY <2>3, <2>4
<1>5. SumOf(h, T)[S] = SumOf(f, S)[S]
  BY <1>4
<1> HIDE DEF Bad
<1>6. SumOf(h, T)[T] = h[a] + SumOf(h, T)[T \ {a}]
  <2>1. h \in [T -> Int] /\ a \in T /\ IsFiniteSet(T)
    BY <1>1, <1>2, <1>3
  <2> QED  BY <2>1, SumTakeAll
<1>7. SumOf(f, S)[S] \in Int
  BY SumType
<1>8. SumOf(h, T)[T] = SumOf(f, S)[S] + v
  <2>1. SumOf(h, T)[T] = v + SumOf(f, S)[S]
    BY <1>1, <1>3, <1>5, <1>6
  <2> QED  BY <1>7, <2>1
<1>9. DOMAIN h = T /\ DOMAIN f = S
  BY <1>1
<1> QED  BY <1>8, <1>9, SumIs
===============================================================================
