---------------------------- MODULE ScenarioProofs ----------------------------
(***************************************************************************)
(* Proofs of what a run of scenario files promises.  The translator joins  *)
(* lists of steps, so that what a list must be like is shown to be kept by *)
(* concatenation, and found in every list it starts from.  At the end, the *)
(* steps of a setState are followed through the configurations they make,  *)
(* and those of a checkState with the same description after them.         *)
(***************************************************************************)
EXTENDS ScenarioProperties, Sums, SequenceTheorems

(* --------------------------------- Lists --------------------------------- *)

Values(s) == {s[i] : i \in DOMAIN s}

LEMMA ListIsSeq == ASSUME NEW s, IsList(s) PROVE s \in Seq(Values(s)) /\ DOMAIN s = 1..Len(s)
<1>1. Len(s) \in Nat /\ DOMAIN s = 1..Len(s)
  BY DEF IsList
<1>2. s \in [1..Len(s) -> Values(s)]
  BY <1>1 DEF IsList, Values
<1> QED  BY <1>1, <1>2, SeqDef

LEMMA SeqIsList == ASSUME NEW S, NEW s \in Seq(S) PROVE IsList(s) /\ DOMAIN s = 1..Len(s)
BY LenProperties DEF IsList

LEMMA FunctionIsList ==
  ASSUME NEW n \in Nat, NEW s, DOMAIN s = 1..n, s = [i \in 1..n |-> s[i]]
  PROVE  IsList(s) /\ Len(s) = n
<1>1. s \in [1..n -> Values(s)]
  BY DEF Values
<1>2. s \in Seq(Values(s))
  BY <1>1, SeqDef
<1> QED  BY <1>2, LenProperties, SeqIsList

LEMMA ConcatList ==
  ASSUME NEW s, NEW t, IsList(s), IsList(t)
  PROVE  /\ IsList(s \o t) /\ Len(s \o t) = Len(s) + Len(t)
         /\ DOMAIN (s \o t) = 1..(Len(s) + Len(t))
         /\ \A i \in 1..(Len(s) + Len(t)) :
              (s \o t)[i] = IF i <= Len(s) THEN s[i] ELSE t[i - Len(s)]
<1> DEFINE S == Values(s) \cup Values(t)
<1>1. s \in Seq(S) /\ t \in Seq(S)
  BY ListIsSeq, SeqMonotonic
<1>2. s \o t \in Seq(S)
  BY <1>1, ConcatProperties
<1>3. IsList(s \o t) /\ DOMAIN (s \o t) = 1..Len(s \o t)
  BY <1>2, SeqIsList
<1> HIDE DEF S
<1> QED  BY <1>1, <1>3, ConcatProperties

LEMMA TailList ==
  ASSUME NEW s, IsList(s), s # <<>>
  PROVE  /\ IsList(Tail(s)) /\ Len(Tail(s)) = Len(s) - 1 /\ Len(s) >= 1
         /\ Head(s) = s[1] /\ \A i \in 1..(Len(s) - 1) : Tail(s)[i] = s[i + 1]
<1>1. s \in Seq(Values(s))
  BY ListIsSeq
<1>2. Tail(s) \in Seq(Values(s))
  BY <1>1, HeadTailProperties
<1>3. IsList(Tail(s))
  BY <1>2, SeqIsList
<1>4. Len(s) \in Nat /\ Len(s) # 0
  BY <1>1, EmptySeq, LenProperties
<1>5. /\ Len(Tail(s)) = Len(s) - 1 /\ Head(s) = s[1]
      /\ \A i \in 1..Len(Tail(s)) : Tail(s)[i] = s[i + 1]
  BY <1>1, HeadTailProperties
<1> QED  BY <1>3, <1>4, <1>5

(* ---------------------------- Joining results ---------------------------- *)

Pairs(A, B) == {a \o b : a \in A, b \in B}
JoinStep(r, g, s) == IF s = {} THEN {<<>>} ELSE Pairs(g[s \ {Max(s)}], r[Max(s)])
JoinsUp(r, D, g) == g = [s \in D |-> JoinStep(r, g, s)]
JoinOf(r, S) == CHOOSE g : JoinsUp(r, SUBSET S, g)

LEMMA JoinIs == \A r : Joined(r) = JoinOf(r, DOMAIN r)[DOMAIN r]
BY DEF Joined, FoldLeft, MapThenFoldSet, JoinOf, JoinsUp, JoinStep, Pairs

LEMMA MaxIn ==
  ASSUME NEW n \in Nat, NEW s \in SUBSET (1..n), s # {}
  PROVE  Max(s) \in s /\ \A y \in s : Max(s) >= y
<1> DEFINE T == {m \in Nat : \E x \in s : m = n - x}
<1>0. \A x \in s : n - x \in Nat
  OBVIOUS
<1>1. T \in SUBSET Nat /\ T # {}
  <2>1. PICK x : x \in s
    OBVIOUS
  <2>2. n - x \in T
    BY <1>0, <2>1
  <2> QED  BY <2>2
<1>2. PICK m \in T : \A y \in T : m <= y
  <2> HIDE DEF T
  <2> QED  BY <1>1, LeastNat
<1>3. PICK x \in s : m = n - x
  OBVIOUS
<1>4. \A y \in s : x >= y
  <2> SUFFICES ASSUME NEW y \in s PROVE x >= y
    OBVIOUS
  <2>1. n - y \in T
    BY <1>0
  <2>2. n - x <= n - y
    BY <1>2, <1>3, <2>1
  <2> QED  BY <2>2
<1> QED  BY <1>3, <1>4 DEF Max

LEMMA JoinExists ==
  ASSUME NEW n \in Nat, NEW r
  PROVE  \E g : JoinsUp(r, SUBSET (1..n), g)
<1> DEFINE S == 1..n
           Missing == {m \in Nat : ~ \E g : JoinsUp(r, UpTo(S, m), g)}
<1>0. IsFiniteSet(S) /\ Cardinality(S) = n
  BY FS_Interval
<1>1. \A s \in SUBSET S : IsFiniteSet(s) /\ Cardinality(s) \in Nat
  BY <1>0, FS_Subset, FS_CardinalityType
<1>11. \A s \in SUBSET S : s # {} => Max(s) \in s
  BY MaxIn
<1> HIDE DEF S
<1>2. Missing = {}
  <2> SUFFICES ASSUME Missing # {} PROVE FALSE
    OBVIOUS
  <2>1. PICK m \in Missing : \A k1 \in Missing : m <= k1
    <3>1. Missing \in SUBSET Nat
      OBVIOUS
    <3> HIDE DEF Missing
    <3> QED  BY <3>1, LeastNat
  <2>2. CASE m = 0
    <3>1. \A s \in UpTo(S, 0) : s = {}
      BY <1>1, FS_EmptySet DEF UpTo
    <3>2. JoinsUp(r, UpTo(S, 0), [s \in UpTo(S, 0) |-> {<<>>}])
      BY <3>1 DEF JoinsUp, JoinStep
    <3> QED  BY <3>2, <2>2
  <2>3. CASE m # 0
    <3>1. m - 1 \in Nat /\ m - 1 \notin Missing
      BY <2>3, <2>1
    <3>2. PICK g : JoinsUp(r, UpTo(S, m - 1), g)
      BY <3>1
    <3> DEFINE h == [s \in UpTo(S, m) |-> JoinStep(r, g, s)]
    <3>3. ASSUME NEW s \in UpTo(S, m), s # {}
          PROVE  /\ s \ {Max(s)} \in UpTo(S, m - 1)
                 /\ s \ {Max(s)} \in UpTo(S, m)
      BY <1>1, <1>11, <3>3, FS_RemoveElement, m \in Nat DEF UpTo
    <3>4. ASSUME NEW s \in UpTo(S, m - 1)
          PROVE  s \in UpTo(S, m) /\ h[s] = g[s]
      <4>1. s \in UpTo(S, m)
        BY <1>1, <3>1, m \in Nat DEF UpTo
      <4>2. g[s] = JoinStep(r, g, s)
        BY <3>2, Zenon DEF JoinsUp
      <4> QED  BY <4>1, <4>2, Zenon
    <3>5. ASSUME NEW s \in UpTo(S, m)
          PROVE  JoinStep(r, g, s) = JoinStep(r, h, s)
      <4>1. CASE s = {}
        BY <4>1 DEF JoinStep
      <4>2. CASE s # {}
        <5>1. g[s \ {Max(s)}] = h[s \ {Max(s)}]
          BY <3>3, <3>4, <4>2, Zenon
        <5> HIDE DEF h
        <5> QED  BY <4>2, <5>1 DEF JoinStep
      <4> QED  BY <4>1, <4>2
    <3>6. JoinsUp(r, UpTo(S, m), h)
      BY <3>5, Zenon DEF JoinsUp
    <3> QED  BY <3>6, <2>1
  <2> QED  BY <2>2, <2>3
<1>3. UpTo(S, Cardinality(S)) = SUBSET S
  BY <1>0, FS_Subset DEF UpTo
<1>4. \E g : JoinsUp(r, UpTo(S, Cardinality(S)), g)
  BY <1>0, <1>2
<1> QED  BY <1>3, <1>4 DEF S

(* A list of results is joined from its first one on.                        *)
JoinedTo(r, n) == JoinOf(r, 1..Len(r))[1..n]

LEMMA JoinedSteps ==
  ASSUME NEW r, IsList(r)
  PROVE  /\ Joined(r) = JoinedTo(r, Len(r))
         /\ JoinedTo(r, 0) = {<<>>}
         /\ \A n \in 1..Len(r) :
              JoinedTo(r, n) = Pairs(JoinedTo(r, n - 1), r[n])
<1>1. DOMAIN r = 1..Len(r) /\ Len(r) \in Nat
  BY DEF IsList
<1> DEFINE g == JoinOf(r, 1..Len(r))
<1>2. JoinsUp(r, SUBSET (1..Len(r)), g)
  BY <1>1, JoinExists DEF JoinOf
<1>3. Joined(r) = g[1..Len(r)]
  BY <1>1, JoinIs
<1> HIDE DEF g
<1>4. \A s \in SUBSET (1..Len(r)) : g[s] = JoinStep(r, g, s)
  BY <1>2, Zenon DEF JoinsUp
<1>5. g[1..0] = {<<>>}
  <2>1. 1..0 \in SUBSET (1..Len(r)) /\ 1..0 = {}
    OBVIOUS
  <2> QED  BY <1>4, <2>1 DEF JoinStep
<1>6. ASSUME NEW n \in 1..Len(r)
      PROVE  g[1..n] = Pairs(g[1..(n - 1)], r[n])
  <2>0. n \in Nat /\ n <= Len(r) /\ 1 <= n
    BY <1>1
  <2>1. 1..n \in SUBSET (1..Len(r)) /\ 1..n # {} /\ n \in Nat
    <3>1. n \in 1..n /\ \A i \in 1..n : i \in 1..Len(r)
      BY <1>1, <2>0
    <3> QED  BY <2>0, <3>1
  <2>2. Max(1..n) = n
    <3>1. Max(1..n) \in 1..n /\ \A y \in 1..n : Max(1..n) >= y
      BY <2>1, MaxIn
    <3> QED  BY <2>1, <3>1
  <2>3. (1..n) \ {n} = 1..(n - 1)
    BY <2>1
  <2> QED  BY <1>4, <2>1, <2>2, <2>3 DEF JoinStep
<1> QED  BY <1>3, <1>5, <1>6 DEF JoinedTo, g

LEMMA PairsAre == \A A, B, x : x \in Pairs(A, B) <=> \E a \in A, b \in B : x = a \o b
BY DEF Pairs

LEMMA InPairs ==
  ASSUME NEW A, NEW B, NEW x \in Pairs(A, B)
  PROVE  \E a \in A : \E b \in B : x = a \o b
BY PairsAre

LEMMA InPairsOne ==
  ASSUME NEW A, NEW b, NEW x \in Pairs(A, {b})
  PROVE  \E a \in A : x = a \o b
BY DEF Pairs

LEMMA InPairsFirst ==
  ASSUME NEW a, NEW B, NEW x \in Pairs({a}, B)
  PROVE  \E b \in B : x = a \o b
BY DEF Pairs

(* What concatenation keeps holds of all that is joined if it holds of every *)
(* part.                                                                     *)
LEMMA JoinedKeeps ==
  ASSUME NEW X, <<>> \in X, \A a, b \in X : a \o b \in X,
         NEW r, IsList(r), \A i \in DOMAIN r : r[i] \subseteq X
  PROVE  Joined(r) \subseteq X
<1> DEFINE Bad == {n \in 0..Len(r) : ~ (JoinedTo(r, n) \subseteq X)}
<1>1. Len(r) \in Nat /\ DOMAIN r = 1..Len(r)
  BY DEF IsList
<1>2. Bad = {}
  <2> SUFFICES ASSUME Bad # {} PROVE FALSE
    OBVIOUS
  <2>1. PICK n \in Bad : \A m \in Bad : n <= m
    <3>1. Bad \in SUBSET Nat
      BY <1>1
    <3> HIDE DEF Bad
    <3> QED  BY <3>1, LeastNat
  <2>2. n # 0
    BY JoinedSteps
  <2>3. n \in 1..Len(r) /\ n - 1 \in 0..Len(r) /\ n - 1 \notin Bad
    BY <1>1, <2>1, <2>2
  <2>4. JoinedTo(r, n - 1) \subseteq X /\ r[n] \subseteq X
    BY <1>1, <2>3
  <2>5. JoinedTo(r, n) = Pairs(JoinedTo(r, n - 1), r[n])
    BY <2>3, JoinedSteps
  <2>6. Pairs(JoinedTo(r, n - 1), r[n]) \subseteq X
    <3> SUFFICES ASSUME NEW x \in Pairs(JoinedTo(r, n - 1), r[n]) PROVE x \in X
      OBVIOUS
    <3>1. PICK a \in JoinedTo(r, n - 1), b \in r[n] : x = a \o b
      BY PairsAre
    <3>2. a \in X /\ b \in X
      BY <2>4
    <3> QED  BY <3>1, <3>2
  <2> QED  BY <2>1, <2>5, <2>6
<1>3. Len(r) \in 0..Len(r)
  BY <1>1
<1> QED  BY <1>2, <1>3, JoinedSteps

(* The keys of an object come in some order, each of them once.              *)
LEMMA KeysList ==
  ASSUME NEW S, IsFiniteSet(S)
  PROVE  /\ IsList(SetToSeq(S)) /\ Len(SetToSeq(S)) = Cardinality(S)
         /\ Values(SetToSeq(S)) = S /\ SetToSeq(S) \in [1..Cardinality(S) -> S]
<1> DEFINE n == Cardinality(S)
           f == SetToSeq(S)
<1>1. n \in Nat /\ ExistsBijection(1..n, S)
  BY FS_CardinalityType
<1>2. \E g \in [1..n -> S] : IsInjective(g)
  BY <1>1 DEF ExistsBijection, Bijection, Injection
<1>3. f \in [1..n -> S] /\ IsInjective(f)
  BY <1>2 DEF SetToSeq
<1>4. f \in Injection(1..n, S)
  BY <1>3 DEF Injection
<1>5. Cardinality(1..n) = Cardinality(S)
  BY <1>1, FS_Interval
<1>6. f \in Surjection(1..n, S)
  BY <1>4, <1>5, FS_Injection
<1> HIDE DEF n, f
<1>7. IsList(f) /\ Len(f) = n
  BY <1>1, <1>3, FunctionIsList
<1>8. Values(f) = S
  BY <1>3, <1>6 DEF Values, Surjection
<1> QED  BY <1>3, <1>7, <1>8 DEF n, f

LEMMA JoinedOverIs ==
  ASSUME NEW r, IsFiniteSet(DOMAIN r)
  PROVE  \E u : /\ IsList(u) /\ JoinedOver(r) = Joined(u)
                /\ \A i \in DOMAIN u : \E x \in DOMAIN r : u[i] = r[x]
                /\ \A x \in DOMAIN r : \E i \in DOMAIN u : u[i] = r[x]
<1> DEFINE keys == SetToSeq(DOMAIN r)
           u == [i \in DOMAIN keys |-> r[keys[i]]]
<1>1. IsList(keys) /\ Values(keys) = DOMAIN r
  BY KeysList
<1>2. JoinedOver(r) = Joined(u)
  BY DEF JoinedOver
<1> HIDE DEF keys
<1>3. DOMAIN keys = 1..Len(keys) /\ Len(keys) \in Nat
  BY <1>1 DEF IsList
<1>4. DOMAIN u = 1..Len(keys) /\ u = [i \in 1..Len(keys) |-> u[i]]
  BY <1>3
<1>5. /\ \A i \in DOMAIN u : \E x \in DOMAIN r : u[i] = r[x]
      /\ \A x \in DOMAIN r : \E i \in DOMAIN u : u[i] = r[x]
  BY <1>1 DEF Values
<1> HIDE DEF u
<1>6. IsList(u)
  BY <1>3, <1>4, FunctionIsList
<1> QED  BY <1>2, <1>5, <1>6

(* ------------------------- Lists of Mandos steps ------------------------- *)

SetOps == {"setAccount", "setEsdtBalance", "setEsdtLastNonce", "setEsdtRoles",
           "newAddress", "setBlockInfo"}
ExpectOps == {"checkExpectOut", "checkExpectStatus", "checkExpectMessage"}
CallOps == {"callTx", "queryTx", "deployTx"}
Ops == SetOps \cup CheckingOps \cup ExpectOps \cup CallOps \cup {"transfer", "validatorReward"}

LegalStep(s) ==
  /\ s.op \in Ops
  /\ s.op = "setAccount" => s.nonce \in Nat /\ s.balance \in Int
  /\ s.op \in {"callTx", "deployTx"} => s.fee \in Int /\ s.value \in Int
  /\ s.op = "callTx" => IsList(s.esdt)
  /\ s.op \in {"transfer", "validatorReward"} => s.value \in Int

OnlyOps(s, O) == IsList(s) /\ \A i \in 1..Len(s) : LegalStep(s[i]) /\ s[i].op \in O

LEMMA EmptyList == IsList(<<>>) /\ Len(<<>>) = 0 /\ \A O : OnlyOps(<<>>, O)
<1>1. <<>> \in Seq({})
  BY EmptySeq
<1>2. IsList(<<>>)
  BY <1>1, SeqIsList
<1>3. Len(<<>>) = 0
  OBVIOUS
<1>4. 1..Len(<<>>) = {}
  BY <1>3
<1> QED  BY <1>2, <1>3, <1>4 DEF OnlyOps

LEMMA OnlyConcat ==
  ASSUME NEW O, NEW s, NEW t, OnlyOps(s, O), OnlyOps(t, O)
  PROVE  OnlyOps(s \o t, O)
<1>1. IsList(s) /\ IsList(t) /\ Len(s) \in Nat /\ Len(t) \in Nat
  BY DEF OnlyOps, IsList
<1>2. IsList(s \o t) /\ Len(s \o t) = Len(s) + Len(t)
  BY <1>1, ConcatList
<1>3. ASSUME NEW i \in 1..(Len(s) + Len(t))
      PROVE  LegalStep((s \o t)[i]) /\ (s \o t)[i].op \in O
  <2>1. (s \o t)[i] = IF i <= Len(s) THEN s[i] ELSE t[i - Len(s)]
    BY <1>1, ConcatList
  <2>2. CASE i <= Len(s)
    BY <1>1, <2>1, <2>2 DEF OnlyOps
  <2>3. CASE ~ (i <= Len(s))
    <3>1. i - Len(s) \in 1..Len(t)
      BY <1>1, <2>3
    <3> QED  BY <2>1, <2>3, <3>1 DEF OnlyOps
  <2> QED  BY <2>2, <2>3
<1> QED  BY <1>2, <1>3 DEF OnlyOps

LEMMA JoinedOnly ==
  ASSUME NEW O, NEW r, IsList(r), \A i \in DOMAIN r : \A s \in r[i] : OnlyOps(s, O)
  PROVE  \A s \in Joined(r) : OnlyOps(s, O)
<1> DEFINE U == UNION {UNION {Values(s) : s \in r[i]} : i \in DOMAIN r}
           X == {s \in Seq(U) : OnlyOps(s, O)}
<1>1. <<>> \in X
  BY EmptyList, EmptySeq
<1>2. \A a, b \in X : a \o b \in X
  BY OnlyConcat, ConcatProperties
<1>3. ASSUME NEW i \in DOMAIN r, NEW s \in r[i] PROVE s \in X
  <2>1. IsList(s)
    BY DEF OnlyOps
  <2>2. s \in Seq(Values(s))
    BY <2>1, ListIsSeq
  <2>3. Values(s) \subseteq U
    OBVIOUS
  <2>4. s \in Seq(U)
    <3> HIDE DEF U
    <3> QED  BY <2>2, <2>3, SeqMonotonic
  <2> QED  BY <2>4
<1> HIDE DEF X
<1>4. Joined(r) \subseteq X
  BY <1>1, <1>2, <1>3, JoinedKeeps
<1> QED  BY <1>4 DEF X

LEMMA JoinedOverOnly ==
  ASSUME NEW O, NEW r, IsFiniteSet(DOMAIN r), \A x \in DOMAIN r : \A s \in r[x] : OnlyOps(s, O)
  PROVE  \A s \in JoinedOver(r) : OnlyOps(s, O)
<1>1. PICK u : /\ IsList(u) /\ JoinedOver(r) = Joined(u)
               /\ \A i \in DOMAIN u : \E x \in DOMAIN r : u[i] = r[x]
  BY JoinedOverIs
<1> QED  BY <1>1, JoinedOnly

LEMMA ListOne ==
  ASSUME NEW a
  PROVE  IsList(<<a>>) /\ Len(<<a>>) = 1 /\ DOMAIN <<a>> = {1}
<1>1. <<a>> \in Seq({a})
  OBVIOUS
<1>2. IsList(<<a>>)
  BY <1>1, SeqIsList
<1> QED  BY <1>2

LEMMA ListTwo ==
  ASSUME NEW a, NEW b
  PROVE  IsList(<<a, b>>) /\ Len(<<a, b>>) = 2 /\ DOMAIN <<a, b>> = {1, 2}
<1>1. <<a, b>> \in Seq({a, b})
  OBVIOUS
<1>2. IsList(<<a, b>>)
  BY <1>1, SeqIsList
<1> QED  BY <1>2

LEMMA ListThree ==
  ASSUME NEW a, NEW b, NEW c
  PROVE  IsList(<<a, b, c>>) /\ Len(<<a, b, c>>) = 3 /\ DOMAIN <<a, b, c>> = {1, 2, 3}
<1>1. <<a, b, c>> \in Seq({a, b, c})
  OBVIOUS
<1>2. IsList(<<a, b, c>>)
  BY <1>1, SeqIsList
<1> QED  BY <1>2

LEMMA ListFour ==
  ASSUME NEW a, NEW b, NEW c, NEW d
  PROVE  IsList(<<a, b, c, d>>) /\ Len(<<a, b, c, d>>) = 4 /\ DOMAIN <<a, b, c, d>> = {1, 2, 3, 4}
<1>1. <<a, b, c, d>> \in Seq({a, b, c, d})
  OBVIOUS
<1>2. IsList(<<a, b, c, d>>)
  BY <1>1, SeqIsList
<1> QED  BY <1>2

LEMMA ListSix ==
  ASSUME NEW a, NEW b, NEW c, NEW d, NEW e, NEW f
  PROVE  IsList(<<a, b, c, d, e, f>>) /\ Len(<<a, b, c, d, e, f>>) = 6 /\ DOMAIN <<a, b, c, d, e, f>> = {1, 2, 3, 4, 5, 6}
<1>1. <<a, b, c, d, e, f>> \in Seq({a, b, c, d, e, f})
  OBVIOUS
<1>2. IsList(<<a, b, c, d, e, f>>)
  BY <1>1, SeqIsList
<1> QED  BY <1>2

LEMMA SingleStep ==
  ASSUME NEW O, NEW s, LegalStep(s), s.op \in O
  PROVE  OnlyOps(<<s>>, O)
<1>1. IsList(<<s>>) /\ Len(<<s>>) = 1 /\ <<s>>[1] = s
  BY ListOne
<1> QED  BY <1>1 DEF OnlyOps

LEMMA JoinedTwo ==
  ASSUME NEW O, NEW a, NEW b, \A s \in a \cup b : OnlyOps(s, O)
  PROVE  \A s \in Joined(<<a, b>>) : OnlyOps(s, O)
<1>1. IsList(<<a, b>>) /\ DOMAIN <<a, b>> = {1, 2}
  BY ListTwo
<1> QED  BY <1>1, JoinedOnly

LEMMA JoinedThree ==
  ASSUME NEW O, NEW a, NEW b, NEW c, \A s \in a \cup b \cup c : OnlyOps(s, O)
  PROVE  \A s \in Joined(<<a, b, c>>) : OnlyOps(s, O)
<1>1. IsList(<<a, b, c>>) /\ DOMAIN <<a, b, c>> = {1, 2, 3}
  BY ListThree
<1> QED  BY <1>1, JoinedOnly

LEMMA OptionalOnly ==
  ASSUME NEW O, NEW object, NEW key, NEW r,
         key \in DOMAIN object => \A s \in r : OnlyOps(s, O)
  PROVE  \A s \in Optional(object, key, r) : OnlyOps(s, O)
BY EmptyList DEF Optional

LEMMA IfGivenOnly ==
  ASSUME NEW O, NEW object, NEW key, NEW r,
         Compared(object, key) => \A s \in r : OnlyOps(s, O)
  PROVE  \A s \in CheckIfGiven(object, key, r) : OnlyOps(s, O)
BY EmptyList DEF CheckIfGiven

(* ------------------------------ Translation ------------------------------ *)

(* An operation that carries no number of its own.                           *)
PlainOps == (SetOps \ {"setAccount"}) \cup CheckingOps \cup ExpectOps

LEMMA PlainLegal == ASSUME NEW s, s.op \in PlainOps PROVE LegalStep(s)
BY DEF PlainOps, Ops, SetOps, CheckingOps, ExpectOps, LegalStep

LEMMA MappedOnly ==
  ASSUME NEW O, NEW list, IsList(list), NEW s, DOMAIN s = DOMAIN list,
         s = [i \in DOMAIN list |-> s[i]],
         \A i \in DOMAIN list : LegalStep(s[i]) /\ s[i].op \in O
  PROVE  OnlyOps(s, O)
<1>1. DOMAIN list = 1..Len(list) /\ Len(list) \in Nat
  BY DEF IsList
<1>2. IsList(s) /\ Len(s) = Len(list)
  BY <1>1, FunctionIsList
<1> QED  BY <1>1, <1>2 DEF OnlyOps

LEMMA InstancesList ==
  ASSUME NEW v, IsList(Get(v, "instances", <<>>))
  PROVE  IsList(MandosToEsdtInstances(v))
<1>1. CASE "plain" \in DOMAIN v
  BY <1>1, ListOne DEF MandosToEsdtInstances
<1>2. CASE "plain" \notin DOMAIN v
  <2> DEFINE list == Get(v, "instances", <<>>)
  <2>1. DOMAIN list = 1..Len(list) /\ Len(list) \in Nat
    BY DEF IsList
  <2>2. /\ DOMAIN MandosToEsdtInstances(v) = 1..Len(list)
        /\ MandosToEsdtInstances(v) = [i \in 1..Len(list) |-> MandosToEsdtInstances(v)[i]]
    BY <1>2, <2>1 DEF MandosToEsdtInstances
  <2> HIDE DEF list
  <2> QED  BY <2>1, <2>2, FunctionIsList
<1> QED  BY <1>1, <1>2

LEMMA RolesOnly ==
  ASSUME NEW op \in {"setEsdtRoles", "checkEsdtRoles"}, NEW O, op \in O,
         NEW a, NEW token, NEW v
  PROVE  \A s \in MandosToEsdtRoles(op, a, token, v) : OnlyOps(s, O)
<1> SUFFICES ASSUME NEW s \in MandosToEsdtRoles(op, a, token, v) PROVE OnlyOps(s, O)
  OBVIOUS
<1>1. CASE s = <<>>
  BY <1>1, EmptyList
<1>2. CASE s # <<>>
  <2>1. s = <<[op |-> op, addr |-> a, token |-> TokenBytes(token), roles |-> v.roles]>>
    BY <1>2 DEF MandosToEsdtRoles
  <2>2. op \in PlainOps
    BY DEF PlainOps, SetOps, CheckingOps
  <2> QED  BY <2>1, <2>2, PlainLegal, SingleStep
<1> QED  BY <1>1, <1>2

LEMMA SetEsdtOnly ==
  ASSUME NEW a, NEW token, NEW v, IsList(Get(v, "instances", <<>>))
  PROVE  \A s \in SetEsdtSteps(a, token, v) : OnlyOps(s, SetOps)
<1> DEFINE balances == [i \in DOMAIN MandosToEsdtInstances(v) |->
                          [op |-> "setEsdtBalance", addr |-> a, token |-> TokenBytes(token),
                           instance |-> MandosToEsdtInstances(v)[i]]]
           last == [op |-> "setEsdtLastNonce", addr |-> a, token |-> TokenBytes(token),
                    nonce |-> v.lastNonce]
<1>1. OnlyOps(balances, SetOps)
  <2>1. IsList(MandosToEsdtInstances(v))
    BY InstancesList
  <2>2. \A i \in DOMAIN MandosToEsdtInstances(v) : balances[i].op = "setEsdtBalance"
    OBVIOUS
  <2>3. \A i \in DOMAIN MandosToEsdtInstances(v) :
          LegalStep(balances[i]) /\ balances[i].op \in SetOps
    BY <2>2, PlainLegal DEF PlainOps, SetOps
  <2>4. /\ DOMAIN balances = DOMAIN MandosToEsdtInstances(v)
        /\ balances = [i \in DOMAIN MandosToEsdtInstances(v) |-> balances[i]]
    OBVIOUS
  <2> HIDE DEF balances
  <2> QED  BY <2>1, <2>3, <2>4, MappedOnly
<1>2. \A s \in MandosToEsdtRoles("setEsdtRoles", a, token, v) : OnlyOps(s, SetOps)
  BY RolesOnly DEF SetOps
<1>3. \A s \in Optional(v, "lastNonce", {<<last>>}) : OnlyOps(s, SetOps)
  <2>1. last.op = "setEsdtLastNonce"
    OBVIOUS
  <2> HIDE DEF last
  <2>2. OnlyOps(<<last>>, SetOps)
    BY <2>1, PlainLegal, SingleStep DEF PlainOps, SetOps
  <2> QED  BY <2>2, OptionalOnly
<1>4. SetEsdtSteps(a, token, v) =
        Joined(<<{balances}, MandosToEsdtRoles("setEsdtRoles", a, token, v),
                 Optional(v, "lastNonce", {<<last>>})>>)
  BY DEF SetEsdtSteps
<1> HIDE DEF balances, last
<1> QED  BY <1>1, <1>2, <1>3, <1>4, JoinedThree

LEMMA JoinedFour ==
  ASSUME NEW O, NEW a, NEW b, NEW c, NEW d, \A s \in a \cup b \cup c \cup d : OnlyOps(s, O)
  PROVE  \A s \in Joined(<<a, b, c, d>>) : OnlyOps(s, O)
<1>1. IsList(<<a, b, c, d>>) /\ DOMAIN <<a, b, c, d>> = {1, 2, 3, 4}
  BY ListFour
<1> QED  BY <1>1, JoinedOnly

LEMMA JoinedSix ==
  ASSUME NEW O, NEW a, NEW b, NEW c, NEW d, NEW e, NEW f,
         \A s \in a \cup b \cup c \cup d \cup e \cup f : OnlyOps(s, O)
  PROVE  \A s \in Joined(<<a, b, c, d, e, f>>) : OnlyOps(s, O)
<1>1. IsList(<<a, b, c, d, e, f>>) /\ DOMAIN <<a, b, c, d, e, f>> = {1, 2, 3, 4, 5, 6}
  BY ListSix
<1> QED  BY <1>1, JoinedOnly

LEMMA SetAccountOnly ==
  ASSUME NEW l, NEW d, Get(d, "nonce", 0) \in Nat, Get(d, "balance", 0) \in Int,
         "esdt" \in DOMAIN d => IsTokens(d.esdt)
  PROVE  \A s \in MandosToSetAccount(l, d) : OnlyOps(s, SetOps)
<1> DEFINE a == AddressBytes[l]
           Command(code) == [op |-> "setAccount", addr |-> a, nonce |-> Get(d, "nonce", 0),
                             balance |-> Get(d, "balance", 0), code |-> code,
                             owner |-> GetAddress(d, "owner"),
                             storage |-> Get(d, "storage", EmptyMap)]
           set == {<<Command(code)>> : code \in CodeOf(d)}
           esdt == JoinedOver([token \in DOMAIN d.esdt |-> SetEsdtSteps(a, token, d.esdt[token])])
<1>1. \A s \in set : OnlyOps(s, SetOps)
  <2> SUFFICES ASSUME NEW code \in CodeOf(d) PROVE OnlyOps(<<Command(code)>>, SetOps)
    OBVIOUS
  <2>1. LegalStep(Command(code)) /\ Command(code).op \in SetOps
    BY DEF LegalStep, Ops, SetOps
  <2> HIDE DEF Command
  <2> QED  BY <2>1, SingleStep
<1>2. \A s \in Optional(d, "esdt", esdt) : OnlyOps(s, SetOps)
  <2>1. ASSUME "esdt" \in DOMAIN d PROVE \A s \in esdt : OnlyOps(s, SetOps)
    <3> DEFINE r == [token \in DOMAIN d.esdt |-> SetEsdtSteps(a, token, d.esdt[token])]
    <3>1. IsFiniteSet(DOMAIN r)
      BY <2>1 DEF IsTokens
    <3>2. \A token \in DOMAIN r : \A s \in r[token] : OnlyOps(s, SetOps)
      BY <2>1, SetEsdtOnly DEF IsTokens
    <3> HIDE DEF r
    <3>3. \A s \in JoinedOver(r) : OnlyOps(s, SetOps)
      BY <3>1, <3>2, JoinedOverOnly
    <3> QED  BY <3>3 DEF r
  <2> HIDE DEF esdt
  <2> QED  BY <2>1, OptionalOnly
<1>3. MandosToSetAccount(l, d) = Joined(<<set, Optional(d, "esdt", esdt)>>)
  BY DEF MandosToSetAccount
<1> HIDE DEF set, esdt
<1> QED  BY <1>1, <1>2, <1>3, JoinedTwo

LEMMA NewAddressesOnly ==
  ASSUME NEW list, IsList(list)
  PROVE  \A s \in GetStepsNewAddresses(list) : OnlyOps(s, SetOps)
<1> DEFINE s == [i \in DOMAIN list |->
                   [op |-> "newAddress", creator |-> AddressBytes[list[i].creatorAddress],
                    nonce |-> list[i].creatorNonce, new |-> AddressBytes[list[i].newAddress]]]
<1>1. GetStepsNewAddresses(list) = {s}
  BY DEF GetStepsNewAddresses
<1>2. \A i \in DOMAIN list : s[i].op = "newAddress"
  OBVIOUS
<1>3. \A i \in DOMAIN list : LegalStep(s[i]) /\ s[i].op \in SetOps
  BY <1>2, PlainLegal DEF PlainOps, SetOps
<1>4. DOMAIN s = DOMAIN list /\ s = [i \in DOMAIN list |-> s[i]]
  OBVIOUS
<1> HIDE DEF s
<1> QED  BY <1>1, <1>3, <1>4, MappedOnly

LEMMA BlockInfoOnly ==
  ASSUME NEW which, NEW info
  PROVE  \A s \in MandosToBlockInfo(which, info) : OnlyOps(s, SetOps)
<1> DEFINE Command(i) == [op |-> "setBlockInfo", block |-> which, field |-> BlockFields[i],
                          value |-> info[BlockFields[i]]]
           r == [i \in DOMAIN BlockFields |-> Optional(info, BlockFields[i], {<<Command(i)>>})]
<1>1. MandosToBlockInfo(which, info) = Joined(r)
  BY DEF MandosToBlockInfo
<1>2. ASSUME NEW i \in DOMAIN r PROVE \A s \in r[i] : OnlyOps(s, SetOps)
  <2>1. Command(i).op = "setBlockInfo"
    OBVIOUS
  <2>2. r[i] = Optional(info, BlockFields[i], {<<Command(i)>>})
    OBVIOUS
  <2> HIDE DEF Command, r
  <2>3. OnlyOps(<<Command(i)>>, SetOps)
    BY <2>1, PlainLegal, SingleStep DEF PlainOps, SetOps
  <2> QED  BY <2>2, <2>3, OptionalOnly
<1>3. IsList(r)
  <2>1. DOMAIN BlockFields = 1..5
    BY DEF BlockFields
  <2>2. DOMAIN r = 1..5 /\ r = [i \in 1..5 |-> r[i]]
    BY <2>1
  <2> HIDE DEF r
  <2> QED  BY <2>2, FunctionIsList
<1> HIDE DEF r
<1> QED  BY <1>1, <1>2, <1>3, JoinedOnly

LEMMA SetStateOnly ==
  ASSUME NEW step, step.step = "setState", IsJsonStep(step)
  PROVE  \A s \in GetStepsSetState(step) : OnlyOps(s, SetOps)
<1> DEFINE r == [l \in DOMAIN step.accounts |-> MandosToSetAccount(l, step.accounts[l])]
           accounts == Optional(step, "accounts", JoinedOver(r))
           new == Optional(step, "newAddresses", GetStepsNewAddresses(step.newAddresses))
           cur == Optional(step, "currentBlockInfo",
                           MandosToBlockInfo("cur", step.currentBlockInfo))
           prev == Optional(step, "previousBlockInfo",
                            MandosToBlockInfo("prev", step.previousBlockInfo))
<1>1. \A s \in accounts : OnlyOps(s, SetOps)
  <2>1. ASSUME "accounts" \in DOMAIN step PROVE \A s \in JoinedOver(r) : OnlyOps(s, SetOps)
    <3>1. IsFiniteSet(DOMAIN r) /\ Get(step, "accounts", EmptyMap) = step.accounts
      BY <2>1 DEF IsJsonStep, IsAccounts, Get
    <3>2. ASSUME NEW l \in DOMAIN r PROVE \A s \in r[l] : OnlyOps(s, SetOps)
      <4>1. /\ Get(step.accounts[l], "nonce", 0) \in Nat
            /\ Get(step.accounts[l], "balance", 0) \in Int
            /\ "esdt" \in DOMAIN step.accounts[l] => IsTokens(step.accounts[l].esdt)
        BY <3>1 DEF IsJsonStep
      <4> QED  BY <4>1, SetAccountOnly
    <3> HIDE DEF r
    <3> QED  BY <3>1, <3>2, JoinedOverOnly
  <2> HIDE DEF r
  <2> QED  BY <2>1, OptionalOnly
<1>2. \A s \in new : OnlyOps(s, SetOps)
  <2>1. "newAddresses" \in DOMAIN step => IsList(step.newAddresses)
    BY DEF IsJsonStep, Get
  <2> QED  BY <2>1, NewAddressesOnly, OptionalOnly
<1>3. \A s \in cur \cup prev : OnlyOps(s, SetOps)
  BY BlockInfoOnly, OptionalOnly
<1>4. GetStepsSetState(step) \subseteq Joined(<<accounts, new, cur, prev>>)
  BY DEF GetStepsSetState
<1> HIDE DEF accounts, new, cur, prev
<1>5. \A s \in Joined(<<accounts, new, cur, prev>>) : OnlyOps(s, SetOps)
  BY <1>1, <1>2, <1>3, JoinedFour
<1> QED  BY <1>4, <1>5

LEMMA CheckEsdtOnly ==
  ASSUME NEW a, NEW token, NEW v, IsList(Get(v, "instances", <<>>))
  PROVE  \A s \in CheckEsdtSteps(a, token, v) : OnlyOps(s, CheckingOps)
<1> DEFINE balances == [i \in DOMAIN MandosToEsdtInstances(v) |->
                          [op |-> "checkAccountESDTBalance", addr |-> a,
                           token |-> TokenBytes(token),
                           nonce |-> MandosToEsdtInstances(v)[i].nonce,
                           balance |-> MandosToEsdtInstances(v)[i].amount]]
<1>1. OnlyOps(balances, CheckingOps)
  <2>1. IsList(MandosToEsdtInstances(v))
    BY InstancesList
  <2>2. \A i \in DOMAIN MandosToEsdtInstances(v) : balances[i].op = "checkAccountESDTBalance"
    OBVIOUS
  <2>3. \A i \in DOMAIN MandosToEsdtInstances(v) :
          LegalStep(balances[i]) /\ balances[i].op \in CheckingOps
    BY <2>2, PlainLegal DEF PlainOps, CheckingOps
  <2>4. /\ DOMAIN balances = DOMAIN MandosToEsdtInstances(v)
        /\ balances = [i \in DOMAIN MandosToEsdtInstances(v) |-> balances[i]]
    OBVIOUS
  <2> HIDE DEF balances
  <2> QED  BY <2>1, <2>3, <2>4, MappedOnly
<1>2. \A s \in MandosToEsdtRoles("checkEsdtRoles", a, token, v) : OnlyOps(s, CheckingOps)
  BY RolesOnly DEF CheckingOps
<1>3. CheckEsdtSteps(a, token, v) =
        Joined(<<{balances}, MandosToEsdtRoles("checkEsdtRoles", a, token, v)>>)
  BY DEF CheckEsdtSteps
<1> HIDE DEF balances
<1> QED  BY <1>1, <1>2, <1>3, JoinedTwo

LEMMA FieldCheckOnly ==
  ASSUME NEW op \in {"checkAccountNonce", "checkAccountBalance", "checkAccountStorage",
                     "checkAccountCode"}, NEW a, NEW v
  PROVE  \A s \in FieldCheck(op, a, v) : OnlyOps(s, CheckingOps)
<1> DEFINE s == [op |-> op, addr |-> a, value |-> v]
<1>1. s.op = op
  OBVIOUS
<1>2. FieldCheck(op, a, v) = {<<s>>}
  BY DEF FieldCheck
<1> HIDE DEF s
<1>3. op \in PlainOps /\ op \in CheckingOps
  BY DEF PlainOps, CheckingOps
<1> QED  BY <1>1, <1>2, <1>3, PlainLegal, SingleStep

(* The lists of a checkState step's account, one for each field.             *)
EsdtChecks(a, d) ==
  JoinedOver([token \in DOMAIN d.esdt |-> CheckEsdtSteps(a, token, d.esdt[token])])
CodeChecks(a, d) ==
  UNION {FieldCheck("checkAccountCode", a, path) : path \in GetContractCode(d.code)}
CheckLists(a, d) ==
  << CheckIfGiven(d, "nonce", FieldCheck("checkAccountNonce", a, d.nonce)),
     CheckIfGiven(d, "balance", FieldCheck("checkAccountBalance", a, d.balance)),
     CheckIfGiven(d, "storage", FieldCheck("checkAccountStorage", a, d.storage)),
     CheckIfGiven(d, "code", CodeChecks(a, d)),
     CheckIfGiven(d, "esdt", EsdtChecks(a, d)),
     {<<[op |-> "checkedAccount", addr |-> a]>>} >>

LEMMA CheckAccountIs ==
  \A l, d : MandosToCheckAccount(l, d) = Joined(CheckLists(AddressBytes[l], d))
BY DEF MandosToCheckAccount, CheckLists, EsdtChecks, CodeChecks

LEMMA EsdtChecksOnly ==
  ASSUME NEW a, NEW d, IsTokens(d.esdt)
  PROVE  \A s \in EsdtChecks(a, d) : OnlyOps(s, CheckingOps)
<1> DEFINE r == [token \in DOMAIN d.esdt |-> CheckEsdtSteps(a, token, d.esdt[token])]
<1>1. IsFiniteSet(DOMAIN r)
  BY DEF IsTokens
<1>2. \A token \in DOMAIN r : \A s \in r[token] : OnlyOps(s, CheckingOps)
  BY CheckEsdtOnly DEF IsTokens
<1>3. EsdtChecks(a, d) = JoinedOver(r)
  BY DEF EsdtChecks
<1> HIDE DEF r
<1> QED  BY <1>1, <1>2, <1>3, JoinedOverOnly

LEMMA CheckAccountOnly ==
  ASSUME NEW l, NEW d, Compared(d, "esdt") => IsTokens(d.esdt)
  PROVE  \A s \in MandosToCheckAccount(l, d) : OnlyOps(s, CheckingOps)
<1> DEFINE a == AddressBytes[l]
           nonces == CheckIfGiven(d, "nonce", FieldCheck("checkAccountNonce", a, d.nonce))
           balances == CheckIfGiven(d, "balance", FieldCheck("checkAccountBalance", a, d.balance))
           storages == CheckIfGiven(d, "storage", FieldCheck("checkAccountStorage", a, d.storage))
           codes == CheckIfGiven(d, "code", CodeChecks(a, d))
           esdts == CheckIfGiven(d, "esdt", EsdtChecks(a, d))
           last == {<<[op |-> "checkedAccount", addr |-> a]>>}
<1>1. \A s \in nonces \cup balances \cup storages : OnlyOps(s, CheckingOps)
  BY FieldCheckOnly, IfGivenOnly
<1>2. \A s \in codes : OnlyOps(s, CheckingOps)
  <2>1. \A s \in CodeChecks(a, d) : OnlyOps(s, CheckingOps)
    BY FieldCheckOnly DEF CodeChecks
  <2> QED  BY <2>1, IfGivenOnly
<1>3. \A s \in esdts : OnlyOps(s, CheckingOps)
  BY EsdtChecksOnly, IfGivenOnly
<1>4. \A s \in last : OnlyOps(s, CheckingOps)
  BY PlainLegal, SingleStep DEF PlainOps, CheckingOps
<1>5. MandosToCheckAccount(l, d) = Joined(<<nonces, balances, storages, codes, esdts, last>>)
  BY CheckAccountIs DEF CheckLists
<1> HIDE DEF nonces, balances, storages, codes, esdts, last
<1> QED  BY <1>1, <1>2, <1>3, <1>4, <1>5, JoinedSix

(* ---------------------------- What a list is like ------------------------- *)

ClearsAt(s, i, j) ==
  s[j].op = "clearCheckedAccounts" /\ \A m \in i..j : s[m].op \in CheckingOps
Tidy(s) ==
  \A i \in 1..Len(s) : s[i].op = "checkedAccount" => \E j \in i..Len(s) : ClearsAt(s, i, j)
Expected(s) ==
  \A i \in 1..Len(s) :
    s[i].op \in ExpectOps => i > 1 /\ s[i - 1].op \in ExpectOps \cup CallOps
Legal(s) == IsList(s) /\ \A i \in 1..Len(s) : LegalStep(s[i])
Good(s) == Legal(s) /\ Tidy(s) /\ Expected(s)

LEMMA GoodConcat ==
  ASSUME NEW s, NEW t, Good(s), Good(t)
  PROVE  Good(s \o t)
<1>1. IsList(s) /\ IsList(t) /\ Len(s) \in Nat /\ Len(t) \in Nat
  BY DEF Good, Legal, IsList
<1> DEFINE u == s \o t
<1>2. IsList(u) /\ Len(u) = Len(s) + Len(t)
  BY <1>1, ConcatList
<1>3. \A i \in 1..Len(s) : u[i] = s[i] /\ i \in 1..Len(u)
  BY <1>1, <1>2, ConcatList
<1>4. \A i \in 1..Len(t) : u[i + Len(s)] = t[i] /\ i + Len(s) \in 1..Len(u)
  BY <1>1, <1>2, ConcatList
<1>5. \A i \in 1..Len(u) : i \in 1..Len(s) \/ \E m \in 1..Len(t) : i = m + Len(s)
  <2> SUFFICES ASSUME NEW i \in 1..Len(u), i \notin 1..Len(s)
               PROVE  \E m \in 1..Len(t) : i = m + Len(s)
    OBVIOUS
  <2>1. i - Len(s) \in 1..Len(t) /\ i = (i - Len(s)) + Len(s)
    BY <1>1, <1>2
  <2> QED  BY <2>1
<1> HIDE DEF u
<1>6. Legal(u)
  BY <1>2, <1>3, <1>4, <1>5 DEF Good, Legal
<1>7. Tidy(u)
  <2> SUFFICES ASSUME NEW i \in 1..Len(u), u[i].op = "checkedAccount"
               PROVE  \E j \in i..Len(u) : ClearsAt(u, i, j)
    BY DEF Tidy
  <2>1. CASE i \in 1..Len(s)
    <3>1. PICK j \in i..Len(s) : ClearsAt(s, i, j)
      BY <1>3, <2>1 DEF Good, Tidy
    <3>2. j \in i..Len(u) /\ \A m \in i..j : m \in 1..Len(s) /\ u[m] = s[m]
      BY <1>1, <1>2, <1>3, <2>1
    <3>3. u[j] = s[j]
      BY <1>1, <2>1, <3>2
    <3> QED  BY <3>1, <3>2, <3>3 DEF ClearsAt
  <2>2. CASE i \notin 1..Len(s)
    <3>1. PICK n \in 1..Len(t) : i = n + Len(s)
      BY <1>5, <2>2
    <3>2. PICK j \in n..Len(t) : ClearsAt(t, n, j)
      BY <1>4, <3>1 DEF Good, Tidy
    <3>3. j + Len(s) \in i..Len(u) /\ u[j + Len(s)] = t[j]
      BY <1>1, <1>2, <1>4, <3>1
    <3>4. ASSUME NEW m \in i..(j + Len(s)) PROVE u[m].op \in CheckingOps
      <4>1. m - Len(s) \in n..j /\ m - Len(s) \in 1..Len(t) /\ m = (m - Len(s)) + Len(s)
        BY <1>1, <3>1
      <4>2. u[m] = t[m - Len(s)]
        BY <1>4, <4>1
      <4> QED  BY <3>2, <4>1, <4>2 DEF ClearsAt
    <3> QED  BY <3>2, <3>3, <3>4 DEF ClearsAt
  <2> QED  BY <2>1, <2>2
<1>8. Expected(u)
  <2> SUFFICES ASSUME NEW i \in 1..Len(u), u[i].op \in ExpectOps
               PROVE  i > 1 /\ u[i - 1].op \in ExpectOps \cup CallOps
    BY DEF Expected
  <2>1. CASE i \in 1..Len(s)
    <3>1. i > 1 /\ s[i - 1].op \in ExpectOps \cup CallOps
      BY <1>3, <2>1 DEF Good, Expected
    <3>2. i - 1 \in 1..Len(s)
      BY <1>1, <2>1, <3>1
    <3> QED  BY <1>3, <3>1, <3>2
  <2>2. CASE i \notin 1..Len(s)
    <3>1. PICK n \in 1..Len(t) : i = n + Len(s)
      BY <1>5, <2>2
    <3>2. n > 1 /\ t[n - 1].op \in ExpectOps \cup CallOps
      BY <1>4, <3>1 DEF Good, Expected
    <3>3. n - 1 \in 1..Len(t) /\ i - 1 = (n - 1) + Len(s) /\ i > 1
      BY <1>1, <3>1, <3>2
    <3> QED  BY <1>4, <3>2, <3>3
  <2> QED  BY <2>1, <2>2
<1> QED  BY <1>6, <1>7, <1>8 DEF Good, u

LEMMA GoodEmpty == Good(<<>>)
BY EmptyList DEF Good, Legal, Tidy, Expected

(* What two or three results join to.                                        *)
LEMMA PairsEmpty ==
  ASSUME NEW a, \A x \in a : IsList(x)
  PROVE  Pairs({<<>>}, a) = a
<1>1. \A x \in a : <<>> \o x = x
  BY ListIsSeq, ConcatEmptySeq
<1>2. ASSUME NEW x \in Pairs({<<>>}, a) PROVE x \in a
  <2>1. PICK y \in a : x = <<>> \o y
    BY InPairsFirst
  <2> QED  BY <1>1, <2>1
<1>3. ASSUME NEW x \in a PROVE x \in Pairs({<<>>}, a)
  <2>1. x = <<>> \o x /\ <<>> \in {<<>>}
    BY <1>1
  <2> QED  BY <2>1 DEF Pairs
<1> QED  BY <1>2, <1>3

LEMMA JoinedTwoIs ==
  ASSUME NEW a, NEW b, \A x \in a : IsList(x)
  PROVE  Joined(<<a, b>>) = Pairs(a, b)
<1>1. IsList(<<a, b>>) /\ Len(<<a, b>>) = 2 /\ <<a, b>>[1] = a /\ <<a, b>>[2] = b
  BY ListTwo
<1> DEFINE r == <<a, b>>
<1> HIDE DEF r
<1>2. Joined(r) = JoinedTo(r, 2) /\ JoinedTo(r, 0) = {<<>>}
  BY <1>1, JoinedSteps DEF r
<1>3. JoinedTo(r, 1) = Pairs(JoinedTo(r, 0), a) /\ JoinedTo(r, 2) = Pairs(JoinedTo(r, 1), b)
  <2>1. 1 \in 1..Len(r) /\ 2 \in 1..Len(r) /\ IsList(r)
    BY <1>1 DEF r
  <2>2. /\ JoinedTo(r, 1) = Pairs(JoinedTo(r, 1 - 1), r[1])
        /\ JoinedTo(r, 2) = Pairs(JoinedTo(r, 2 - 1), r[2])
    BY <2>1, JoinedSteps
  <2> QED  BY <2>2, <1>1 DEF r
<1>4. Pairs({<<>>}, a) = a
  BY PairsEmpty
<1> QED  BY <1>2, <1>3, <1>4 DEF r

LEMMA JoinedThreeIs ==
  ASSUME NEW a, NEW b, NEW c, \A x \in a : IsList(x)
  PROVE  Joined(<<a, b, c>>) = Pairs(Pairs(a, b), c)
<1>1. /\ IsList(<<a, b, c>>) /\ Len(<<a, b, c>>) = 3
      /\ <<a, b, c>>[1] = a /\ <<a, b, c>>[2] = b /\ <<a, b, c>>[3] = c
  BY ListThree
<1> DEFINE r == <<a, b, c>>
<1> HIDE DEF r
<1>2. Joined(r) = JoinedTo(r, 3) /\ JoinedTo(r, 0) = {<<>>}
  BY <1>1, JoinedSteps DEF r
<1>3. /\ JoinedTo(r, 1) = Pairs(JoinedTo(r, 0), a) /\ JoinedTo(r, 2) = Pairs(JoinedTo(r, 1), b)
      /\ JoinedTo(r, 3) = Pairs(JoinedTo(r, 2), c)
  <2>1. 1 \in 1..Len(r) /\ 2 \in 1..Len(r) /\ 3 \in 1..Len(r) /\ IsList(r)
    BY <1>1 DEF r
  <2>2. /\ JoinedTo(r, 1) = Pairs(JoinedTo(r, 1 - 1), r[1])
        /\ JoinedTo(r, 2) = Pairs(JoinedTo(r, 2 - 1), r[2])
        /\ JoinedTo(r, 3) = Pairs(JoinedTo(r, 3 - 1), r[3])
    BY <2>1, JoinedSteps
  <2> QED  BY <2>2, <1>1 DEF r
<1>4. Pairs({<<>>}, a) = a
  BY PairsEmpty
<1> QED  BY <1>2, <1>3, <1>4 DEF r

LEMMA OthersAreGood ==
  ASSUME NEW s, OnlyOps(s, SetOps \cup {"transfer", "validatorReward"})
  PROVE  Good(s)
BY DEF OnlyOps, SetOps, CheckingOps, ExpectOps, CallOps, Good, Legal, Tidy, Expected

LEMMA ChecksAreGood ==
  ASSUME NEW s, OnlyOps(s, CheckingOps), Len(s) >= 1, s[Len(s)].op = "clearCheckedAccounts"
  PROVE  Good(s)
<1>1. Len(s) \in Nat
  BY DEF OnlyOps, IsList
<1>2. \A i \in 1..Len(s) : Len(s) \in i..Len(s) /\ \A m \in i..Len(s) : m \in 1..Len(s)
  BY <1>1
<1>3. Tidy(s)
  BY <1>1, <1>2 DEF OnlyOps, Tidy, ClearsAt
<1>4. Expected(s)
  BY DEF OnlyOps, Expected, CheckingOps, ExpectOps
<1> QED  BY <1>3, <1>4 DEF OnlyOps, Good, Legal

LEMMA CheckStateGood ==
  ASSUME NEW step, step.step = "checkState", IsJsonStep(step)
  PROVE  \A s \in GetStepsCheckState(step) : Good(s)
<1>1. CASE "accounts" \notin DOMAIN step
  BY <1>1, GoodEmpty DEF GetStepsCheckState
<1>2. CASE "accounts" \in DOMAIN step
  <2> DEFINE listed == DOMAIN step.accounts \ {"+"}
             none == [op |-> "checkNoAdditionalAccounts",
                      value |-> {AddressBytes[l] : l \in listed}]
             others == IF "+" \in DOMAIN step.accounts THEN <<>> ELSE <<none>>
             r == [l \in listed |-> MandosToCheckAccount(l, step.accounts[l])]
             clear == [op |-> "clearCheckedAccounts"]
  <2>1. \A s \in JoinedOver(r) : OnlyOps(s, CheckingOps)
    <3>1. IsFiniteSet(listed)
      BY <1>2, FS_Difference DEF IsJsonStep, IsAccounts
    <3>2. \A l \in listed : \A s \in MandosToCheckAccount(l, step.accounts[l]) :
            OnlyOps(s, CheckingOps)
      BY <1>2, CheckAccountOnly DEF IsJsonStep, IsAccounts
    <3>3. DOMAIN r = listed /\ \A l \in listed : r[l] = MandosToCheckAccount(l, step.accounts[l])
      OBVIOUS
    <3> HIDE DEF r, listed
    <3> QED  BY <3>1, <3>2, <3>3, JoinedOverOnly
  <2>2. OnlyOps(others, CheckingOps)
    <3>1. none.op = "checkNoAdditionalAccounts"
      OBVIOUS
    <3> HIDE DEF none
    <3>2. OnlyOps(<<none>>, CheckingOps)
      BY <3>1, PlainLegal, SingleStep DEF PlainOps, CheckingOps
    <3> QED  BY <3>2, EmptyList
  <2>3. OnlyOps(<<clear>>, CheckingOps) /\ clear.op = "clearCheckedAccounts"
    <3>1. clear.op = "clearCheckedAccounts"
      OBVIOUS
    <3> HIDE DEF clear
    <3> QED  BY <3>1, PlainLegal, SingleStep DEF PlainOps, CheckingOps
  <2>4. GetStepsCheckState(step) = Joined(<<JoinedOver(r), {others}, {<<clear>>}>>)
    BY <1>2 DEF GetStepsCheckState
  <2> HIDE DEF r, others, clear
  <2>5. Joined(<<JoinedOver(r), {others}, {<<clear>>}>>) =
          Pairs(Pairs(JoinedOver(r), {others}), {<<clear>>})
    <3>1. \A x \in JoinedOver(r) : IsList(x)
      BY <2>1 DEF OnlyOps
    <3> QED  BY <3>1, JoinedThreeIs
  <2> SUFFICES ASSUME NEW s \in GetStepsCheckState(step) PROVE Good(s)
    OBVIOUS
  <2>6. PICK u \in Pairs(JoinedOver(r), {others}) : s = u \o <<clear>>
    <3>1. s \in Pairs(Pairs(JoinedOver(r), {others}), {<<clear>>})
      BY <2>4, <2>5
    <3> QED  BY <3>1, InPairsOne
  <2>7. PICK t \in JoinedOver(r) : u = t \o others
    BY InPairsOne
  <2>8. OnlyOps(u, CheckingOps)
    BY <2>1, <2>2, <2>7, OnlyConcat
  <2>9. OnlyOps(s, CheckingOps)
    BY <2>3, <2>6, <2>8, OnlyConcat
  <2>10. /\ IsList(u) /\ Len(u) \in Nat /\ IsList(<<clear>>) /\ Len(<<clear>>) = 1
         /\ <<clear>>[1] = clear
    BY <2>8, ListOne DEF OnlyOps, IsList
  <2>11. Len(s) = Len(u) + 1
    BY <2>6, <2>10, ConcatList
  <2>12. s[Len(u) + 1] = clear
    <3>1. Len(u) + 1 \in 1..(Len(u) + Len(<<clear>>)) /\ ~ (Len(u) + 1 <= Len(u))
          /\ (Len(u) + 1) - Len(u) = 1
      BY <2>10
    <3> QED  BY <2>6, <2>10, <3>1, ConcatList
  <2> QED  BY <2>3, <2>9, <2>10, <2>11, <2>12, ChecksAreGood
<1> QED  BY <1>1, <1>2

LEMMA ExpectOnly ==
  ASSUME NEW expect
  PROVE  \A s \in MandosToExpect(expect) : OnlyOps(s, ExpectOps)
<1> DEFINE out == [op |-> "checkExpectOut", value |-> expect.out]
           message == [op |-> "checkExpectMessage", value |-> expect.message]
           Status(rc) == [op |-> "checkExpectStatus", value |-> rc]
           statuses == {<<Status(rc)>> : rc \in IntToKreturncode(expect.status)}
<1>1. OnlyOps(<<out>>, ExpectOps) /\ OnlyOps(<<message>>, ExpectOps)
  <2>1. out.op = "checkExpectOut" /\ message.op = "checkExpectMessage"
    OBVIOUS
  <2> HIDE DEF out, message
  <2> QED  BY <2>1, PlainLegal, SingleStep DEF PlainOps, ExpectOps
<1>2. \A s \in statuses : OnlyOps(s, ExpectOps)
  <2> SUFFICES ASSUME NEW rc PROVE OnlyOps(<<Status(rc)>>, ExpectOps)
    OBVIOUS
  <2>1. Status(rc).op = "checkExpectStatus"
    OBVIOUS
  <2> HIDE DEF Status
  <2> QED  BY <2>1, PlainLegal, SingleStep DEF PlainOps, ExpectOps
<1>3. MandosToExpect(expect) =
        Joined(<<CheckIfGiven(expect, "out", {<<out>>}),
                 CheckIfGiven(expect, "status", statuses),
                 CheckIfGiven(expect, "message", {<<message>>})>>)
  BY DEF MandosToExpect
<1> HIDE DEF out, message, statuses
<1>4. /\ \A s \in CheckIfGiven(expect, "out", {<<out>>}) : OnlyOps(s, ExpectOps)
      /\ \A s \in CheckIfGiven(expect, "status", statuses) : OnlyOps(s, ExpectOps)
      /\ \A s \in CheckIfGiven(expect, "message", {<<message>>}) : OnlyOps(s, ExpectOps)
  BY <1>1, <1>2, IfGivenOnly
<1> QED  BY <1>3, <1>4, JoinedThree

LEMMA WithExpectGood ==
  ASSUME NEW step, NEW txs, \A t \in txs : \E c : t = <<c>> /\ LegalStep(c) /\ c.op \in CallOps
  PROVE  \A s \in WithExpect(step, txs) : Good(s)
<1> DEFINE expects == Optional(step, "expect", MandosToExpect(step.expect))
<1>1. \A e \in expects : OnlyOps(e, ExpectOps)
  BY ExpectOnly, OptionalOnly
<1>2. WithExpect(step, txs) = Joined(<<txs, expects>>)
  BY DEF WithExpect
<1> HIDE DEF expects
<1>3. \A t \in txs : IsList(t)
  BY ListOne
<1>4. WithExpect(step, txs) = Pairs(txs, expects)
  BY <1>2, <1>3, JoinedTwoIs
<1> SUFFICES ASSUME NEW s \in WithExpect(step, txs) PROVE Good(s)
  OBVIOUS
<1>5. PICK t \in txs : \E e \in expects : s = t \o e
  BY <1>4, InPairs
<1>51. PICK e \in expects : s = t \o e
  BY <1>5
<1>6. PICK c : t = <<c>> /\ LegalStep(c) /\ c.op \in CallOps
  OBVIOUS
<1>7. IsList(t) /\ Len(t) = 1 /\ t[1] = c
  BY <1>6, ListOne
<1>8. OnlyOps(e, ExpectOps) /\ IsList(e) /\ Len(e) \in Nat
  BY <1>1 DEF OnlyOps, IsList
<1>9. IsList(s) /\ Len(s) = 1 + Len(e)
  BY <1>51, <1>7, <1>8, ConcatList
<1>10. s[1] = c
  <2>1. 1 \in 1..(Len(t) + Len(e)) /\ 1 <= Len(t)
    BY <1>7, <1>8
  <2> QED  BY <1>51, <1>7, <1>8, <2>1, ConcatList
<1>11. ASSUME NEW i \in 2..Len(s) PROVE LegalStep(s[i]) /\ s[i].op \in ExpectOps
  <2>1. i \in 1..(Len(t) + Len(e)) /\ ~ (i <= Len(t)) /\ i - Len(t) \in 1..Len(e)
    BY <1>7, <1>8, <1>9
  <2>2. s[i] = e[i - Len(t)]
    BY <1>51, <1>7, <1>8, <2>1, ConcatList
  <2> QED  BY <1>8, <2>1, <2>2 DEF OnlyOps
<1>12. \A i \in 1..Len(s) : i = 1 \/ (i \in 2..Len(s) /\ (i - 1 = 1 \/ i - 1 \in 2..Len(s)))
  BY <1>8, <1>9
<1>13. Legal(s)
  BY <1>6, <1>9, <1>10, <1>11, <1>12 DEF Legal
<1>14. \A i \in 1..Len(s) : s[i].op # "checkedAccount"
  BY <1>6, <1>10, <1>11, <1>12 DEF ExpectOps, CallOps
<1>15. Expected(s)
  <2> SUFFICES ASSUME NEW i \in 1..Len(s), s[i].op \in ExpectOps
               PROVE  i > 1 /\ s[i - 1].op \in ExpectOps \cup CallOps
    BY DEF Expected
  <2>1. i # 1
    BY <1>6, <1>10 DEF ExpectOps, CallOps
  <2>2. i \in 2..Len(s) /\ (i - 1 = 1 \/ i - 1 \in 2..Len(s))
    BY <1>12, <2>1
  <2> QED  BY <1>6, <1>10, <1>11, <2>2
<1> QED  BY <1>13, <1>14, <1>15 DEF Good, Tidy

LEMMA TransfersGood ==
  ASSUME NEW step, step.step \in {"transfer", "validatorReward"}, IsJsonStep(step)
  PROVE  \A s \in GetSteps(step) : Good(s)
<1> DEFINE tx == step.tx
           t == [op |-> "transfer", from |-> AddressBytes[tx.from], to |-> AddressBytes[tx.to],
                 value |-> GetEgldValue(tx)]
           v == [op |-> "validatorReward", to |-> AddressBytes[tx.to],
                 value |-> GetEgldValue(tx)]
           O == SetOps \cup {"transfer", "validatorReward"}
<1>1. GetEgldValue(tx) \in Int
  BY DEF IsJsonStep
<1>2. LegalStep(t) /\ t.op \in O /\ LegalStep(v) /\ v.op \in O
  BY <1>1 DEF LegalStep, Ops, SetOps
<1>3. GetSteps(step) \in {{<<t>>}, {<<v>>}}
  BY DEF GetSteps, MandosToTransferTx, MandosToValidatorRewardTx
<1> HIDE DEF t, v, O
<1>4. OnlyOps(<<t>>, O) /\ OnlyOps(<<v>>, O)
  BY <1>2, SingleStep
<1> QED  BY <1>3, <1>4, OthersAreGood DEF O

LEMMA CallsGood ==
  ASSUME NEW step, step.step \in {"scDeploy", "scCall", "scQuery"}, IsJsonStep(step)
  PROVE  \A s \in GetSteps(step) : Good(s)
<1>1. CASE step.step = "scDeploy"
  <2>1. ASSUME NEW t \in MandosToDeployTx(step.tx)
        PROVE  \E c : t = <<c>> /\ LegalStep(c) /\ c.op \in CallOps
    <3>1. PICK module :
            t = <<[op |-> "deployTx", from |-> AddressBytes[step.tx.from],
                   value |-> GetEgldValue(step.tx), module |-> module,
                   args |-> step.tx.arguments, fee |-> Fee(step.tx)]>>
      BY DEF MandosToDeployTx
    <3>2. GetEgldValue(step.tx) \in Int /\ Fee(step.tx) \in Int
      BY <1>1 DEF IsJsonStep
    <3> QED  BY <3>1, <3>2 DEF LegalStep, Ops, CallOps
  <2>2. GetSteps(step) = WithExpect(step, MandosToDeployTx(step.tx))
    BY <1>1 DEF GetSteps
  <2> QED  BY <2>1, <2>2, WithExpectGood
<1>2. CASE step.step = "scCall"
  <2>1. ASSUME NEW t \in MandosToCallTx(step.tx)
        PROVE  \E c : t = <<c>> /\ LegalStep(c) /\ c.op \in CallOps
    <3> DEFINE c == [op |-> "callTx", from |-> AddressBytes[step.tx.from],
                     to |-> AddressBytes[step.tx.to], value |-> GetEgldValue(step.tx),
                     esdt |-> MandosEsdtToKlist(Get(step.tx, "esdtValue", <<>>)),
                     func |-> step.tx.function, args |-> Get(step.tx, "arguments", <<>>),
                     fee |-> Fee(step.tx)]
    <3>1. t = <<c>>
      BY DEF MandosToCallTx
    <3>2. GetEgldValue(step.tx) \in Int /\ Fee(step.tx) \in Int
      BY <1>2 DEF IsJsonStep
    <3>3. IsList(MandosEsdtToKlist(Get(step.tx, "esdtValue", <<>>)))
      <4> DEFINE list == Get(step.tx, "esdtValue", <<>>)
                 ks == MandosEsdtToKlist(list)
      <4>1. IsList(list) /\ Len(list) \in Nat /\ DOMAIN list = 1..Len(list)
        BY <1>2 DEF IsJsonStep, IsList
      <4>2. ks = [i \in 1..Len(list) |-> ks[i]]
        BY <4>1 DEF MandosEsdtToKlist
      <4> HIDE DEF list, ks
      <4>3. IsList(ks)
        BY <4>1, <4>2, FunctionIsList
      <4> QED  BY <4>3 DEF list, ks
    <3>4. LegalStep(c) /\ c.op \in CallOps
      BY <3>2, <3>3 DEF LegalStep, Ops, CallOps
    <3> QED  BY <3>1, <3>4
  <2>2. GetSteps(step) = WithExpect(step, MandosToCallTx(step.tx))
    BY <1>2 DEF GetSteps
  <2> QED  BY <2>1, <2>2, WithExpectGood
<1>3. CASE step.step = "scQuery"
  <2>1. ASSUME NEW t \in MandosToQueryTx(step.tx)
        PROVE  \E c : t = <<c>> /\ LegalStep(c) /\ c.op \in CallOps
    <3> DEFINE c == [op |-> "queryTx", to |-> AddressBytes[step.tx.to],
                     func |-> step.tx.function, args |-> Get(step.tx, "arguments", <<>>)]
    <3>1. t = <<c>>
      BY DEF MandosToQueryTx
    <3>2. LegalStep(c) /\ c.op \in CallOps
      BY DEF LegalStep, Ops, CallOps
    <3> QED  BY <3>1, <3>2
  <2>2. GetSteps(step) = WithExpect(step, MandosToQueryTx(step.tx))
    BY <1>3 DEF GetSteps
  <2> QED  BY <2>1, <2>2, WithExpectGood
<1> QED  BY <1>1, <1>2, <1>3

LEMMA TranslationsAreGood ==
  ASSUME NEW step, IsJsonStep(step)
  PROVE  \A s \in GetSteps(step) : Good(s)
<1>1. CASE step.step = "setState"
  <2>1. GetSteps(step) = GetStepsSetState(step)
    BY <1>1 DEF GetSteps
  <2>2. ASSUME NEW s \in GetSteps(step) PROVE Good(s)
    <3>1. OnlyOps(s, SetOps)
      BY <1>1, <2>1, SetStateOnly
    <3>2. OnlyOps(s, SetOps \cup {"transfer", "validatorReward"})
      BY <3>1 DEF OnlyOps
    <3> QED  BY <3>2, OthersAreGood
  <2> QED  BY <2>2
<1>2. CASE step.step = "checkState"
  <2>1. GetSteps(step) = GetStepsCheckState(step)
    BY <1>2 DEF GetSteps
  <2> QED  BY <1>2, <2>1, CheckStateGood
<1>3. CASE step.step \in {"scDeploy", "scCall", "scQuery"}
  BY <1>3, CallsGood
<1>4. CASE step.step \in {"transfer", "validatorReward"}
  BY <1>4, TransfersGood
<1>5. CASE step.step \notin {"setState", "checkState", "scDeploy", "scCall", "scQuery",
                             "transfer", "validatorReward"}
  BY <1>5 DEF GetSteps
<1> QED  BY <1>1, <1>2, <1>3, <1>4, <1>5

(* --------------------------- One list of them all ------------------------- *)

Flattens(ks, n, g) == g = [i \in 1..n |-> IF i = 1 THEN ks[i] ELSE g[i - 1] \o ks[i]]
Flat(ks) == CHOOSE g : Flattens(ks, Len(ks), g)

LEMMA FlatExists ==
  ASSUME NEW ks
  PROVE  \A n \in Nat : \E g : Flattens(ks, n, g)
<1> DEFINE Missing == {n \in Nat : ~ \E g : Flattens(ks, n, g)}
<1> SUFFICES ASSUME Missing # {} PROVE FALSE
  OBVIOUS
<1>1. PICK n \in Missing : \A m \in Missing : n <= m
  <2>1. Missing \in SUBSET Nat
    OBVIOUS
  <2> HIDE DEF Missing
  <2> QED  BY <2>1, LeastNat
<1>2. CASE n = 0
  <2>1. Flattens(ks, 0, [i \in 1..0 |-> <<>>])
    BY DEF Flattens
  <2> QED  BY <1>2, <2>1
<1>3. CASE n # 0
  <2>1. n - 1 \in Nat /\ n - 1 \notin Missing
    BY <1>1, <1>3
  <2>2. PICK g : Flattens(ks, n - 1, g)
    BY <2>1
  <2> DEFINE Step(f, i) == IF i = 1 THEN ks[i] ELSE f[i - 1] \o ks[i]
             h == [i \in 1..n |-> Step(g, i)]
  <2>3. g = [i \in 1..(n - 1) |-> Step(g, i)]
    BY <2>2 DEF Flattens
  <2> HIDE DEF Step
  <2>4. \A i \in 1..(n - 1) : g[i] = Step(g, i)
    BY <2>3
  <2>5. \A i \in 1..(n - 1) : i \in 1..n /\ h[i] = g[i]
    BY <2>1, <2>4
  <2>6. \A i \in 1..n : i # 1 => i - 1 \in 1..(n - 1)
    BY <2>1
  <2> HIDE DEF h
  <2>7. \A i \in 1..n : Step(g, i) = Step(h, i)
    BY <2>5, <2>6 DEF Step
  <2>8. h = [i \in 1..n |-> Step(h, i)]
    BY <2>7 DEF h
  <2>9. Flattens(ks, n, h)
    BY <2>8 DEF Flattens, Step
  <2> QED  BY <2>9
<1> QED  BY <1>2, <1>3

LEMMA FlattenIs ==
  ASSUME NEW ks, IsList(ks)
  PROVE  /\ Len(ks) = 0 => FlattenSeq(ks) = <<>>
         /\ Len(ks) # 0 => FlattenSeq(ks) = Flat(ks)[Len(ks)]
         /\ \A i \in 1..Len(ks) :
              Flat(ks)[i] = IF i = 1 THEN ks[i] ELSE Flat(ks)[i - 1] \o ks[i]
<1>1. Len(ks) \in Nat /\ ks \in Seq(Values(ks))
  BY ListIsSeq DEF IsList
<1>2. Flattens(ks, Len(ks), Flat(ks))
  BY <1>1, FlatExists DEF Flat
<1>3. Len(ks) = 0 => ks = <<>>
  BY <1>1, EmptySeq
<1>4. Len(ks) = 0 => FlattenSeq(ks) = <<>>
  BY <1>3 DEF FlattenSeq
<1>5. Len(ks) # 0 => FlattenSeq(ks) = Flat(ks)[Len(ks)]
  BY DEF FlattenSeq, Flat, Flattens
<1>6. \A i \in 1..Len(ks) : Flat(ks)[i] = IF i = 1 THEN ks[i] ELSE Flat(ks)[i - 1] \o ks[i]
  BY <1>2 DEF Flattens
<1> QED  BY <1>4, <1>5, <1>6

LEMMA FlattenGood ==
  ASSUME NEW ks, IsList(ks), \A i \in 1..Len(ks) : Good(ks[i])
  PROVE  Good(FlattenSeq(ks))
<1>1. Len(ks) \in Nat
  BY DEF IsList
<1> DEFINE Bad == {n \in 1..Len(ks) : ~Good(Flat(ks)[n])}
<1>2. Bad = {}
  <2> SUFFICES ASSUME Bad # {} PROVE FALSE
    OBVIOUS
  <2>1. PICK n \in Bad : \A m \in Bad : n <= m
    <3>1. Bad \in SUBSET Nat
      BY <1>1
    <3> HIDE DEF Bad
    <3> QED  BY <3>1, LeastNat
  <2>2. CASE n = 1
    BY <2>1, <2>2, FlattenIs
  <2>3. CASE n # 1
    <3>1. n - 1 \in 1..Len(ks) /\ n - 1 \notin Bad
      BY <1>1, <2>1, <2>3
    <3>2. Flat(ks)[n] = Flat(ks)[n - 1] \o ks[n]
      BY <2>3, FlattenIs
    <3> QED  BY <3>1, <3>2, GoodConcat
  <2> QED  BY <2>2, <2>3
<1>3. CASE Len(ks) = 0
  BY <1>3, FlattenIs, GoodEmpty
<1>4. CASE Len(ks) # 0
  <2>1. Len(ks) \in 1..Len(ks)
    BY <1>1, <1>4
  <2> QED  BY <1>2, <1>4, <2>1, FlattenIs
<1> QED  BY <1>3, <1>4

(* ------------------------------ Configurations --------------------------- *)

ConfigFields == {"accounts", "newAddresses", "checked", "vmOutput", "txCount", "blocks"}
AccountFields == {"nonce", "balance", "owner", "code", "storage", "esdt"}

IsAccountRecord(acct) ==
  DOMAIN acct = AccountFields /\ acct.nonce \in Nat /\ acct.balance \in Int
AreAccounts(accounts) ==
  IsFiniteSet(DOMAIN accounts) /\ \A a \in DOMAIN accounts : IsAccountRecord(accounts[a])
IsConfig(c) == DOMAIN c = ConfigFields /\ c.txCount \in Nat /\ AreAccounts(c.accounts)

Balances(accounts) == [a \in DOMAIN accounts |-> accounts[a].balance]

LEMMA TotalIs == \A c : TotalEgld(c) = SumFunction(Balances(c.accounts))
BY DEF TotalEgld, SumFunction, SumFunctionOnSet, FoldFunction, Balances

(* Accounts that hold an amount more together than others.                   *)
Earn(accounts, after, v) ==
  /\ AreAccounts(after)
  /\ SumFunction(Balances(after)) = SumFunction(Balances(accounts)) + v

LEMMA BalancesType ==
  ASSUME NEW accounts, AreAccounts(accounts)
  PROVE  /\ Balances(accounts) \in [DOMAIN accounts -> Int] /\ IsFiniteSet(DOMAIN accounts)
         /\ SumFunction(Balances(accounts)) \in Int
<1>1. Balances(accounts) \in [DOMAIN accounts -> Int] /\ IsFiniteSet(DOMAIN accounts)
  BY DEF AreAccounts, IsAccountRecord, Balances
<1> QED  BY <1>1, SumInt

LEMMA SameBalances ==
  ASSUME NEW accounts, NEW after, AreAccounts(accounts), DOMAIN after = DOMAIN accounts,
         \A a \in DOMAIN after : /\ DOMAIN after[a] = AccountFields /\ after[a].nonce \in Nat
                                 /\ after[a].balance = accounts[a].balance
  PROVE  Earn(accounts, after, 0)
<1>1. AreAccounts(after)
  BY DEF AreAccounts, IsAccountRecord
<1>2. Balances(after) = Balances(accounts)
  BY DEF Balances
<1> QED  BY <1>1, <1>2, BalancesType DEF Earn

LEMMA OneBalance ==
  ASSUME NEW accounts, NEW after, AreAccounts(accounts), DOMAIN after = DOMAIN accounts,
         NEW a \in DOMAIN accounts, NEW v \in Int,
         after[a].balance = accounts[a].balance + v,
         \A x \in DOMAIN after : /\ DOMAIN after[x] = AccountFields /\ after[x].nonce \in Nat
                                 /\ x # a => after[x].balance = accounts[x].balance
  PROVE  Earn(accounts, after, v)
<1>1. \A x \in DOMAIN accounts : accounts[x].balance \in Int
  BY DEF AreAccounts, IsAccountRecord
<1>2. AreAccounts(after)
  BY <1>1 DEF AreAccounts, IsAccountRecord
<1>3. Balances(after) = [Balances(accounts) EXCEPT ![a] = @ + v]
  BY DEF Balances
<1>4. /\ Balances(accounts) \in [DOMAIN accounts -> Int] /\ IsFiniteSet(DOMAIN accounts)
  BY BalancesType
<1>5. SumFunction([Balances(accounts) EXCEPT ![a] = @ + v]) = SumFunction(Balances(accounts)) + v
  BY <1>4, SumAdd
<1> QED  BY <1>2, <1>3, <1>5 DEF Earn

LEMMA NewBalance ==
  ASSUME NEW accounts, NEW after, AreAccounts(accounts), NEW a, a \notin DOMAIN accounts,
         DOMAIN after = DOMAIN accounts \cup {a},
         IsAccountRecord(after[a]), \A x \in DOMAIN accounts : after[x] = accounts[x]
  PROVE  Earn(accounts, after, after[a].balance)
<1> DEFINE f == Balances(accounts)
           S == DOMAIN accounts
           v == after[a].balance
           h == Balances(after)
<1>1. AreAccounts(after)
  BY FS_AddElement DEF AreAccounts
<1>2. f \in [S -> Int] /\ IsFiniteSet(S) /\ v \in Int
  BY BalancesType DEF IsAccountRecord
<1>3. h = [x \in S \cup {a} |-> IF x = a THEN v ELSE f[x]]
  BY DEF Balances
<1>4. SumFunction(h) = SumFunction(f) + v
  <2> HIDE DEF h, f, S, v
  <2>1. a \notin S
    BY DEF S
  <2> QED  BY <1>2, <1>3, <2>1, SumExtend
<1> QED  BY <1>1, <1>4 DEF Earn

LEMMA EarnOn ==
  ASSUME NEW s, NEW t, NEW u, AreAccounts(s), NEW v \in Int, NEW w \in Int,
         Earn(s, t, v), Earn(t, u, w)
  PROVE  Earn(s, u, v + w)
<1>1. SumFunction(Balances(s)) \in Int
  BY BalancesType
<1> QED  BY <1>1 DEF Earn

(* Moving an amount between two accounts, or from one to itself.             *)
LEMMA MovesEgld ==
  ASSUME NEW accounts, AreAccounts(accounts), NEW from \in DOMAIN accounts,
         NEW to \in DOMAIN accounts, NEW v \in Int
  PROVE  /\ Earn(accounts, MoveEgld(accounts, from, to, v), 0)
         /\ DOMAIN MoveEgld(accounts, from, to, v) = DOMAIN accounts
<1>1. CASE from = to
  BY <1>1, SameBalances DEF MoveEgld, AreAccounts, IsAccountRecord
<1>2. CASE from # to
  <2> DEFINE mid == [accounts EXCEPT ![from] =
                       [accounts[from] EXCEPT !.balance = accounts[from].balance - v]]
             after == [mid EXCEPT ![to] = [mid[to] EXCEPT !.balance = mid[to].balance + v]]
  <2>1. MoveEgld(accounts, from, to, v) = after
    BY <1>2 DEF MoveEgld
  <2>2. \A a \in DOMAIN accounts :
          DOMAIN accounts[a] = AccountFields /\ accounts[a].nonce \in Nat
          /\ accounts[a].balance \in Int
    BY DEF AreAccounts, IsAccountRecord
  <2>3. /\ DOMAIN mid = DOMAIN accounts /\ mid[from].balance = accounts[from].balance + (0 - v)
        /\ \A x \in DOMAIN mid : /\ DOMAIN mid[x] = AccountFields /\ mid[x].nonce \in Nat
                                 /\ x # from => mid[x].balance = accounts[x].balance
    BY <2>2 DEF AccountFields
  <2>4. 0 - v \in Int
    OBVIOUS
  <2> HIDE DEF mid
  <2>5. Earn(accounts, mid, 0 - v)
    BY <2>3, <2>4, OneBalance
  <2>6. AreAccounts(mid)
    BY <2>5 DEF Earn
  <2>7. \A a \in DOMAIN mid : mid[a].balance \in Int
    BY <2>6 DEF AreAccounts, IsAccountRecord
  <2>8. /\ DOMAIN after = DOMAIN mid /\ after[to].balance = mid[to].balance + v
        /\ \A x \in DOMAIN after : /\ DOMAIN after[x] = AccountFields /\ after[x].nonce \in Nat
                                   /\ x # to => after[x].balance = mid[x].balance
    BY <2>3, <2>7 DEF AccountFields
  <2> HIDE DEF after
  <2>9. Earn(mid, after, v)
    BY <2>3, <2>6, <2>8, OneBalance
  <2>10. Earn(accounts, after, (0 - v) + v)
    BY <2>4, <2>5, <2>9, EarnOn
  <2> QED  BY <2>1, <2>3, <2>8, <2>10
<1> QED  BY <1>1, <1>2

(* ------------------------- What a step does to them ---------------------- *)

(* A step that leaves the checks alone: what it mints, v.                    *)
Keeps(c, d, v) ==
  /\ DOMAIN d = ConfigFields /\ d.checked = c.checked /\ d.txCount = c.txCount
  /\ Earn(c.accounts, d.accounts, v)

LEMMA PutAccount ==
  ASSUME NEW accounts, AreAccounts(accounts), NEW a, NEW acct, IsAccountRecord(acct)
  PROVE  Earn(accounts, Put(accounts, a, acct),
              acct.balance - (IF a \in DOMAIN accounts THEN accounts[a].balance ELSE 0))
<1> DEFINE after == Put(accounts, a, acct)
<1>1. /\ DOMAIN after = DOMAIN accounts \cup {a} /\ after[a] = acct
      /\ \A x \in DOMAIN accounts : x # a => after[x] = accounts[x]
  BY DEF Put
<1>2. \A x \in DOMAIN accounts : IsAccountRecord(accounts[x])
  BY DEF AreAccounts
<1> HIDE DEF after
<1>3. CASE a \in DOMAIN accounts
  <2>1. PICK v \in Int : v = acct.balance - accounts[a].balance
    BY <1>2, <1>3 DEF IsAccountRecord
  <2>2. after[a].balance = accounts[a].balance + v
    BY <1>1, <1>2, <1>3, <2>1 DEF IsAccountRecord
  <2>3. DOMAIN after = DOMAIN accounts
    BY <1>1, <1>3
  <2>4. \A x \in DOMAIN after : /\ DOMAIN after[x] = AccountFields /\ after[x].nonce \in Nat
                                /\ x # a => after[x].balance = accounts[x].balance
    BY <1>1, <1>2, <2>3 DEF IsAccountRecord
  <2>5. Earn(accounts, after, v)
    BY <1>3, <2>2, <2>3, <2>4, OneBalance
  <2> QED  BY <1>3, <2>1, <2>5 DEF after
<1>4. CASE a \notin DOMAIN accounts
  <2>1. Earn(accounts, after, after[a].balance)
    BY <1>1, <1>4, NewBalance
  <2>2. acct.balance - 0 = acct.balance
    BY DEF IsAccountRecord
  <2> QED  BY <1>1, <1>4, <2>1, <2>2 DEF after
<1> QED  BY <1>3, <1>4

LEMMA Created ==
  ASSUME NEW accounts, AreAccounts(accounts), NEW a
  PROVE  IsAccountRecord(CreateAccount(accounts, a)[a])
<1>1. IsAccountRecord(NewAccount)
  BY DEF IsAccountRecord, NewAccount, AccountFields
<1> QED  BY <1>1 DEF CreateAccount, AreAccounts, Put

LEMMA SetAccountKeeps ==
  ASSUME NEW c, IsConfig(c), NEW s, s.nonce \in Nat, s.balance \in Int, NEW d \in SetAccount(c, s)
  PROVE  Keeps(c, d, SetBalance(c, s))
<1> DEFINE old == CreateAccount(c.accounts, s.addr)[s.addr]
           acct == [old EXCEPT !.nonce = s.nonce, !.balance = s.balance, !.code = s.code,
                               !.owner = s.owner, !.storage = s.storage]
<1>1. IsAccountRecord(old) /\ AreAccounts(c.accounts)
  BY Created DEF IsConfig
<1>2. d = [c EXCEPT !.accounts = Put(c.accounts, s.addr, acct)]
  BY DEF SetAccount
<1> HIDE DEF old
<1>3. IsAccountRecord(acct) /\ acct.balance = s.balance
  BY <1>1 DEF IsAccountRecord, AccountFields
<1> HIDE DEF acct
<1>4. /\ DOMAIN d = ConfigFields /\ d.checked = c.checked /\ d.txCount = c.txCount
      /\ d.accounts = Put(c.accounts, s.addr, acct)
  BY <1>2 DEF IsConfig, ConfigFields
<1>5. Earn(c.accounts, Put(c.accounts, s.addr, acct),
           acct.balance - (IF s.addr \in DOMAIN c.accounts THEN c.accounts[s.addr].balance ELSE 0))
  BY <1>1, <1>3, PutAccount
<1> QED  BY <1>3, <1>4, <1>5 DEF Keeps, SetBalance, IsAccount

LEMMA WithEsdtKeeps ==
  ASSUME NEW c, IsConfig(c), NEW e
  PROVE  Keeps(c, WithEsdt(c, e), 0) /\ DOMAIN WithEsdt(c, e).accounts = DOMAIN c.accounts
<1> DEFINE d == WithEsdt(c, e)
           after == [a \in DOMAIN c.accounts |-> [c.accounts[a] EXCEPT !.esdt = e[a]]]
<1>1. d = [c EXCEPT !.accounts = after]
  BY DEF WithEsdt
<1>2. AreAccounts(c.accounts)
  BY DEF IsConfig
<1>3. \A a \in DOMAIN c.accounts :
        DOMAIN c.accounts[a] = AccountFields /\ c.accounts[a].nonce \in Nat
  BY <1>2 DEF AreAccounts, IsAccountRecord
<1>4. /\ DOMAIN after = DOMAIN c.accounts
      /\ \A a \in DOMAIN after : /\ DOMAIN after[a] = AccountFields /\ after[a].nonce \in Nat
                                 /\ after[a].balance = c.accounts[a].balance
  BY <1>3 DEF AccountFields
<1> HIDE DEF after
<1>5. Earn(c.accounts, after, 0)
  BY <1>2, <1>4, SameBalances
<1>6. /\ DOMAIN d = ConfigFields /\ d.checked = c.checked /\ d.txCount = c.txCount
      /\ d.accounts = after
  BY <1>1 DEF IsConfig, ConfigFields
<1> QED  BY <1>4, <1>5, <1>6 DEF Keeps

LEMMA StoresKeeps ==
  ASSUME NEW accounts, AreAccounts(accounts), NEW to, NEW v
  PROVE  Earn(accounts, ContractStores(accounts, to, v), 0)
<1> DEFINE after == ContractStores(accounts, to, v)
<1>1. \A a \in DOMAIN accounts :
        DOMAIN accounts[a] = AccountFields /\ accounts[a].nonce \in Nat
  BY DEF AreAccounts, IsAccountRecord
<1>2. /\ DOMAIN after = DOMAIN accounts
      /\ \A a \in DOMAIN after : /\ DOMAIN after[a] = AccountFields /\ after[a].nonce \in Nat
                                 /\ after[a].balance = accounts[a].balance
  BY <1>1 DEF ContractStores, AccountFields
<1> HIDE DEF after
<1>3. Earn(accounts, after, 0)
  BY <1>2, SameBalances
<1> QED  BY <1>3 DEF after

LEMMA KeepsIsConfig ==
  ASSUME NEW c, IsConfig(c), NEW d, NEW v, Keeps(c, d, v)
  PROVE  IsConfig(d)
BY DEF Keeps, IsConfig, Earn

LEMMA KeepsOn ==
  ASSUME NEW c, IsConfig(c), NEW d, NEW e, Keeps(c, d, 0), Keeps(d, e, 0)
  PROVE  Keeps(c, e, 0)
<1>1. AreAccounts(c.accounts)
  BY DEF IsConfig
<1>2. Earn(c.accounts, e.accounts, 0 + 0)
  BY <1>1, EarnOn DEF Keeps
<1> QED  BY <1>2 DEF Keeps

LEMMA KeepsItself ==
  ASSUME NEW c, IsConfig(c)
  PROVE  Keeps(c, c, 0)
<1>1. AreAccounts(c.accounts)
  BY DEF IsConfig
<1>2. Earn(c.accounts, c.accounts, 0)
  BY <1>1, SameBalances DEF AreAccounts, IsAccountRecord
<1> QED  BY <1>2 DEF Keeps, IsConfig

(* A call that ended without an exception kept the EGLD.                     *)
EndsKeeping(c, e) == e.status # "none" /\ (e.status = "OK" => Keeps(c, e.config, 0))

LEMMA MkCallKeeps ==
  ASSUME NEW c, IsConfig(c), NEW to, NEW func, NEW args, NEW e \in MkCall(c, to, func, args)
  PROVE  EndsKeeping(c, e)
<1> DEFINE stored == ContractStores(c.accounts, to, Argument(args))
           d == [c EXCEPT !.accounts = stored]
<1>1. Keeps(c, d, 0)
  <2>1. Earn(c.accounts, stored, 0)
    BY StoresKeeps DEF IsConfig
  <2> HIDE DEF stored
  <2> QED  BY <2>1 DEF Keeps, IsConfig, ConfigFields
<1> HIDE DEF d
<1>2. \/ e \in Fails("FunctionNotFound") \/ e \in Fails("UserError")
      \/ e.status = "OK" /\ e.config \in {c, d}
  BY DEF MkCall, Ends, d
<1>3. \A code : \A x \in Fails(code) : x.status = code
  BY DEF Fails
<1>4. CASE e.status = "OK" /\ e.config \in {c, d}
  BY <1>1, <1>4, KeepsItself DEF EndsKeeping
<1> QED  BY <1>2, <1>3, <1>4 DEF EndsKeeping

LEMMA BuiltinReturns ==
  ASSUME NEW d, NEW func \in Builtins, NEW from, NEW to, NEW value, NEW args,
         NEW o \in ProcessBuiltinFunction(d, func, from, to, value, args)
  PROVE  o.status # "none"
<1> DEFINE Returns(results) == \A x \in results : x.status # "none"
<1>1. \A code : code # "none" => Returns(Raises(code))
  BY DEF Raises
<1>2. \A e, out, call : Success(e, out, call).status # "none"
  BY DEF Success
<1>3. \A results : Returns(Succeeds(results))
  BY <1>2 DEF Succeeds
<1>4. \A holds, rest : Returns(rest) => Returns(CheckBool(holds, rest))
  BY <1>1 DEF CheckBool
<1>5. \A a, token, role, rest :
        Returns(rest) => Returns(CheckAllowedToExecute(d, a, token, role, rest))
  BY <1>1 DEF CheckAllowedToExecute
<1>6. \A a, key, v, rest : Returns(rest) => Returns(CheckBalance(d, a, key, v, rest))
  BY <1>1 DEF CheckBalance
<1>7. \A n, rest : Returns(rest) => Returns(CalledOnItself(from, to, value, args, n, rest))
  BY <1>4 DEF CalledOnItself
<1>8. \A dest, list, i : Returns(TransferAndCall(d, from, dest, list, args, i))
  BY <1>1, <1>2 DEF TransferAndCall
<1>9. \A quantity, uris : Returns(SaveNFT(d, from, args[1], quantity, uris))
  BY <1>2 DEF SaveNFT
<1> HIDE DEF Returns
<1>10. Returns(ESDTLocalMint(d, from, to, value, args))
  BY <1>3, <1>5, <1>7 DEF ESDTLocalMint
<1>11. Returns(ESDTLocalBurn(d, from, to, value, args))
  BY <1>3, <1>5, <1>6, <1>7 DEF ESDTLocalBurn
<1>12. Returns(ESDTNFTBurn(d, from, to, value, args))
  BY <1>3, <1>5, <1>6, <1>7 DEF ESDTNFTBurn
<1>13. Returns(ESDTTransfer(d, from, to, value, args))
  BY <1>4, <1>8 DEF ESDTTransfer
<1>14. Returns(MultiESDTNFTTransfer(d, from, to, value, args))
  BY <1>4, <1>7, <1>8 DEF MultiESDTNFTTransfer
<1>15. Returns(ESDTNFTTransfer(d, from, to, value, args))
  BY <1>7, <1>8 DEF ESDTNFTTransfer
<1>16. Returns(ESDTNFTCreate(d, from, to, value, args))
  BY <1>4, <1>5, <1>7, <1>9 DEF ESDTNFTCreate
<1>17. Returns(ESDTNFTAddQuantity(d, from, to, value, args))
  BY <1>3, <1>4, <1>5, <1>7 DEF ESDTNFTAddQuantity
<1>18. Returns(ESDTNFTAddURI(d, from, to, value, args))
  BY <1>1, <1>3, <1>5, <1>7 DEF ESDTNFTAddURI
<1>19. Returns(ProcessBuiltinFunction(d, func, from, to, value, args))
  BY <1>10, <1>11, <1>12, <1>13, <1>14, <1>15, <1>16, <1>17, <1>18
     DEF ProcessBuiltinFunction, Builtins
<1> QED  BY <1>19 DEF Returns

LEMMA BuiltinKeeps ==
  ASSUME NEW c, IsConfig(c), NEW from, NEW to, NEW value, NEW func \in Builtins, NEW args,
         NEW e \in BuiltinOutcomes(c, from, to, value, func, args)
  PROVE  EndsKeeping(c, e)
<1>1. PICK o \in ProcessBuiltinFunction(EsdtOf(c), func, from, to, value, args) :
        e \in IF o.status = "OK" THEN DetermineIsSCCallAfter(WithEsdt(c, o.data), o)
              ELSE Fails(o.status)
  BY DEF BuiltinOutcomes
<1>2. o.status # "none"
  BY BuiltinReturns
<1>3. CASE o.status # "OK"
  BY <1>1, <1>2, <1>3 DEF Fails, EndsKeeping
<1>4. CASE o.status = "OK"
  <2> DEFINE m == WithEsdt(c, o.data)
  <2>1. Keeps(c, m, 0)
    BY WithEsdtKeeps
  <2>2. e \in DetermineIsSCCallAfter(m, o)
    BY <1>1, <1>4
  <2> HIDE DEF m
  <2>3. IsConfig(m)
    BY <2>1, KeepsIsConfig
  <2>4. EndsKeeping(m, e)
    <3>1. \/ e \in Ends(m, o.out)
          \/ \E call \in o.call : e \in MkCall(m, call.to, call.func, call.args)
      BY <2>2 DEF DetermineIsSCCallAfter
    <3>2. CASE e \in Ends(m, o.out)
      BY <2>3, <3>2, KeepsItself DEF Ends, EndsKeeping
    <3> QED  BY <2>3, <3>1, <3>2, MkCallKeeps
  <2> QED  BY <2>1, <2>4, KeepsOn DEF EndsKeeping
<1> QED  BY <1>3, <1>4

LEMMA AuxKeeps ==
  ASSUME NEW c, IsConfig(c), NEW from, NEW to, NEW value, NEW func, NEW args,
         NEW e \in CallContractAux(c, from, to, value, func, args)
  PROVE  EndsKeeping(c, e)
<1>1. \/ func \in Builtins /\ e \in BuiltinOutcomes(c, from, to, value, func, args)
      \/ e \in Fails("ExecutionFailed") \/ e \in Fails("ContractNotFound")
      \/ e \in MkCall(c, to, func, args)
  BY DEF CallContractAux
<1>2. \A code : \A x \in Fails(code) : x.status = code
  BY DEF Fails
<1>3. CASE e \in Fails("ExecutionFailed") \/ e \in Fails("ContractNotFound")
  BY <1>2, <1>3 DEF EndsKeeping
<1> QED  BY <1>1, <1>3, BuiltinKeeps, MkCallKeeps

LEMMA PaymentKeeps ==
  ASSUME NEW c, IsConfig(c), NEW from, NEW to, {from, to} \subseteq DOMAIN c.accounts,
         NEW value \in Int, NEW esdt, NEW p \in Payments(c, from, to, value, esdt)
  PROVE  Keeps(c, p, 0)
<1>1. PICK e : p = [WithEsdt(c, e) EXCEPT !.accounts = MoveEgld(@, from, to, value)]
  BY DEF Payments
<1> DEFINE m == WithEsdt(c, e)
           paid == MoveEgld(m.accounts, from, to, value)
<1>2. Keeps(c, m, 0) /\ DOMAIN m.accounts = DOMAIN c.accounts
  BY WithEsdtKeeps
<1>3. p = [m EXCEPT !.accounts = paid]
  BY <1>1
<1> HIDE DEF m
<1>4. IsConfig(m) /\ AreAccounts(m.accounts)
  BY <1>2, KeepsIsConfig DEF IsConfig
<1>5. Earn(m.accounts, paid, 0)
  BY <1>2, <1>4, MovesEgld
<1> HIDE DEF paid
<1>6. Keeps(m, p, 0)
  BY <1>3, <1>4, <1>5 DEF Keeps, IsConfig, ConfigFields
<1> QED  BY <1>2, <1>6, KeepsOn

LEMMA OutcomeKeeps ==
  ASSUME NEW c, IsConfig(c), NEW from, NEW to, NEW value \in Int, NEW esdt, NEW func, NEW args,
         NEW e \in CallOutcomes(c, from, to, value, esdt, func, args)
  PROVE  EndsKeeping(c, e)
<1>1. \/ e \in Fails("ExecutionFailed") \/ e \in Fails("OutOfFunds")
      \/ /\ {from, to} \subseteq DOMAIN c.accounts
         /\ \E p \in Payments(c, from, to, value, esdt) :
              e \in CallContractAux(p, from, to, value, func, args)
  BY DEF CallOutcomes
<1>2. \A code : \A x \in Fails(code) : x.status = code
  BY DEF Fails
<1>3. CASE e \in Fails("ExecutionFailed") \/ e \in Fails("OutOfFunds")
  BY <1>2, <1>3 DEF EndsKeeping
<1>4. ASSUME {from, to} \subseteq DOMAIN c.accounts,
             NEW p \in Payments(c, from, to, value, esdt),
             e \in CallContractAux(p, from, to, value, func, args)
      PROVE  EndsKeeping(c, e)
  <2>1. Keeps(c, p, 0)
    BY <1>4, PaymentKeeps
  <2>2. EndsKeeping(p, e)
    BY <1>4, <2>1, KeepsIsConfig, AuxKeeps
  <2> QED  BY <2>1, <2>2, KeepsOn DEF EndsKeeping
<1> QED  BY <1>1, <1>3, <1>4

LEMMA CallKeeps ==
  ASSUME NEW c, IsConfig(c), NEW from, NEW to, NEW value \in Int, NEW esdt, NEW func, NEW args,
         NEW d \in CallContract(c, from, to, value, esdt, func, args)
  PROVE  /\ Keeps(c, d, 0)
         /\ d.vmOutput.tx = c.txCount /\ d.vmOutput.returnCode # "none"
<1>1. PICK e \in CallOutcomes(c, from, to, value, esdt, func, args) :
        d = [(IF e.status = "OK" THEN e.config ELSE c) EXCEPT !.vmOutput = Output(e, c.txCount)]
  BY DEF CallContract
<1> DEFINE x == IF e.status = "OK" THEN e.config ELSE c
           output == Output(e, c.txCount)
<1>2. output.returnCode = e.status /\ output.tx = c.txCount
  BY DEF Output
<1>3. e.status # "none" /\ Keeps(c, x, 0)
  BY OutcomeKeeps, KeepsItself DEF EndsKeeping
<1>4. d = [x EXCEPT !.vmOutput = output]
  BY <1>1
<1> HIDE DEF x, output
<1>5. /\ DOMAIN d = ConfigFields /\ d.checked = x.checked /\ d.txCount = x.txCount
      /\ d.accounts = x.accounts /\ d.vmOutput = output
  BY <1>3, <1>4 DEF Keeps, ConfigFields
<1> QED  BY <1>2, <1>3, <1>5 DEF Keeps

LEMMA SentKeeps ==
  ASSUME NEW c, IsConfig(c), NEW from \in DOMAIN c.accounts, NEW fee \in Int
  PROVE  /\ DOMAIN Sent(c, from, fee) = ConfigFields
         /\ Sent(c, from, fee).checked = c.checked
         /\ Sent(c, from, fee).txCount = c.txCount + 1
         /\ Earn(c.accounts, Sent(c, from, fee).accounts, 0 - fee)
         /\ IsConfig(Sent(c, from, fee))
<1> DEFINE d == Sent(c, from, fee)
<1>1. AreAccounts(c.accounts)
  BY DEF IsConfig
<1>2. \A a \in DOMAIN c.accounts : /\ DOMAIN c.accounts[a] = AccountFields
                                   /\ c.accounts[a].nonce \in Nat /\ c.accounts[a].balance \in Int
  BY <1>1 DEF AreAccounts, IsAccountRecord
<1>3. DOMAIN d = ConfigFields /\ d.checked = c.checked /\ d.txCount = c.txCount + 1
  BY DEF Sent, IsConfig, ConfigFields
<1>4. /\ DOMAIN d.accounts = DOMAIN c.accounts
      /\ d.accounts[from].balance = c.accounts[from].balance + (0 - fee)
      /\ \A a \in DOMAIN d.accounts :
           /\ DOMAIN d.accounts[a] = AccountFields /\ d.accounts[a].nonce \in Nat
           /\ a # from => d.accounts[a].balance = c.accounts[a].balance
  BY <1>2 DEF Sent, IsConfig, ConfigFields, AccountFields
<1>5. 0 - fee \in Int
  OBVIOUS
<1> HIDE DEF d
<1>6. Earn(c.accounts, d.accounts, 0 - fee)
  BY <1>1, <1>4, <1>5, OneBalance
<1>7. IsConfig(d)
  BY <1>3, <1>6 DEF IsConfig, Earn
<1> QED  BY <1>3, <1>6, <1>7 DEF d

(* A transaction counts itself, leaves an output of its own and takes a fee. *)
Transacts(c, d, v) ==
  /\ IsConfig(d) /\ d.checked = c.checked
  /\ Earn(c.accounts, d.accounts, v)
  /\ d.vmOutput.tx = d.txCount /\ d.vmOutput.returnCode # "none"

LEMMA CallTxTransacts ==
  ASSUME NEW c, IsConfig(c), NEW s, s.fee \in Int, s.value \in Int, NEW d \in CallTx(c, s)
  PROVE  Transacts(c, d, 0 - s.fee)
<1> DEFINE sent == Sent(c, s.from, s.fee)
<1>1. s.from \in DOMAIN c.accounts
  BY DEF CallTx, IsAccount
<1>2. d \in CallContract(sent, s.from, s.to, s.value, s.esdt, s.func, s.args)
  BY DEF CallTx
<1>3. /\ sent.checked = c.checked /\ Earn(c.accounts, sent.accounts, 0 - s.fee)
      /\ IsConfig(sent) /\ AreAccounts(c.accounts)
  BY <1>1, SentKeeps DEF IsConfig
<1> HIDE DEF sent
<1>4. Keeps(sent, d, 0) /\ d.vmOutput.tx = sent.txCount /\ d.vmOutput.returnCode # "none"
  BY <1>2, <1>3, CallKeeps
<1>5. Earn(c.accounts, d.accounts, (0 - s.fee) + 0)
  BY <1>3, <1>4, EarnOn DEF Keeps
<1>6. IsConfig(d)
  BY <1>3, <1>4, KeepsIsConfig
<1> QED  BY <1>3, <1>4, <1>5, <1>6 DEF Transacts, Keeps

LEMMA QueryTxTransacts ==
  ASSUME NEW c, IsConfig(c), NEW s, NEW d \in QueryTx(c, s)
  PROVE  Transacts(c, d, 0)
<1> DEFINE sent == [c EXCEPT !.txCount = c.txCount + 1]
<1>1. d \in CallContract(sent, s.to, s.to, 0, <<>>, s.func, s.args)
  BY DEF QueryTx
<1>2. sent.checked = c.checked /\ sent.accounts = c.accounts /\ IsConfig(sent)
  BY DEF IsConfig, ConfigFields
<1> HIDE DEF sent
<1>3. Keeps(sent, d, 0) /\ d.vmOutput.tx = sent.txCount /\ d.vmOutput.returnCode # "none"
  BY <1>1, <1>2, CallKeeps
<1>4. IsConfig(d)
  BY <1>2, <1>3, KeepsIsConfig
<1> QED  BY <1>2, <1>3, <1>4 DEF Transacts, Keeps

LEMMA DeployTxTransacts ==
  ASSUME NEW c, IsConfig(c), NEW s, s.fee \in Int, s.value \in Int, NEW d \in DeployTx(c, s)
  PROVE  Transacts(c, d, 0 - s.fee)
<1> DEFINE new == c.newAddresses[<<s.from, c.accounts[s.from].nonce>>]
           sent == Sent(c, s.from, s.fee)
           old == CreateAccount(sent.accounts, new)[new]
           acct == [old EXCEPT !.owner = s.from, !.code = {s.module}]
           made == [sent EXCEPT !.accounts = Put(sent.accounts, new, acct)]
<1>1. s.from \in DOMAIN c.accounts
  BY DEF DeployTx, IsAccount
<1>2. d \in CallContract(made, s.from, new, s.value, <<>>, "init", s.args)
  BY DEF DeployTx
<1>3. /\ sent.checked = c.checked /\ Earn(c.accounts, sent.accounts, 0 - s.fee)
      /\ IsConfig(sent) /\ AreAccounts(c.accounts) /\ AreAccounts(sent.accounts)
  BY <1>1, SentKeeps DEF IsConfig
<1> HIDE DEF sent, new
<1>4. IsAccountRecord(old)
  BY <1>3, Created
<1>5. old.balance = IF new \in DOMAIN sent.accounts THEN sent.accounts[new].balance ELSE 0
  BY DEF CreateAccount, Put, NewAccount
<1> HIDE DEF old
<1>6. IsAccountRecord(acct) /\ acct.balance = old.balance
  BY <1>4 DEF IsAccountRecord, AccountFields
<1> HIDE DEF acct
<1>7. Earn(sent.accounts, Put(sent.accounts, new, acct), 0)
  <2>1. acct.balance - (IF new \in DOMAIN sent.accounts THEN sent.accounts[new].balance ELSE 0) = 0
    BY <1>4, <1>5, <1>6 DEF IsAccountRecord
  <2> QED  BY <1>3, <1>6, <2>1, PutAccount
<1>8. /\ DOMAIN made = ConfigFields /\ made.checked = sent.checked
      /\ made.txCount = sent.txCount /\ made.accounts = Put(sent.accounts, new, acct)
  BY <1>3 DEF IsConfig, ConfigFields
<1> HIDE DEF made
<1>9. IsConfig(made)
  BY <1>3, <1>7, <1>8 DEF IsConfig, Earn
<1>10. Keeps(made, d, 0) /\ d.vmOutput.tx = made.txCount /\ d.vmOutput.returnCode # "none"
  BY <1>2, <1>9, CallKeeps
<1>11. Earn(c.accounts, made.accounts, (0 - s.fee) + 0)
  BY <1>3, <1>7, <1>8, EarnOn
<1>12. Earn(c.accounts, made.accounts, 0 - s.fee)
  BY <1>11
<1>13. Earn(c.accounts, d.accounts, (0 - s.fee) + 0)
  BY <1>3, <1>10, <1>12, EarnOn DEF Keeps
<1>14. IsConfig(d)
  BY <1>9, <1>10, KeepsIsConfig
<1> QED  BY <1>3, <1>8, <1>10, <1>13, <1>14 DEF Transacts, Keeps

LEMMA TransferKeeps ==
  ASSUME NEW c, IsConfig(c), NEW s, s.value \in Int, NEW d \in TransferTx(c, s)
  PROVE  Keeps(c, d, 0)
<1> DEFINE moved == MoveEgld(c.accounts, s.from, s.to, s.value)
           after == UseNonce(moved, s.from)
<1>1. d = [c EXCEPT !.accounts = after] /\ {s.from, s.to} \subseteq DOMAIN c.accounts
  BY DEF TransferTx
<1>2. Earn(c.accounts, moved, 0) /\ DOMAIN moved = DOMAIN c.accounts /\ AreAccounts(c.accounts)
  BY <1>1, MovesEgld DEF IsConfig
<1> HIDE DEF moved
<1>3. AreAccounts(moved)
  BY <1>2 DEF Earn
<1>4. \A a \in DOMAIN moved : DOMAIN moved[a] = AccountFields /\ moved[a].nonce \in Nat
  BY <1>3 DEF AreAccounts, IsAccountRecord
<1>5. /\ DOMAIN after = DOMAIN moved
      /\ \A a \in DOMAIN after : /\ DOMAIN after[a] = AccountFields /\ after[a].nonce \in Nat
                                 /\ after[a].balance = moved[a].balance
  BY <1>1, <1>2, <1>4 DEF UseNonce, AccountFields
<1> HIDE DEF after
<1>6. Earn(moved, after, 0)
  BY <1>3, <1>5, SameBalances
<1>7. Earn(c.accounts, after, 0 + 0)
  BY <1>2, <1>6, EarnOn
<1>8. /\ DOMAIN d = ConfigFields /\ d.checked = c.checked /\ d.txCount = c.txCount
      /\ d.accounts = after
  BY <1>1 DEF IsConfig, ConfigFields
<1> QED  BY <1>7, <1>8 DEF Keeps

LEMMA RewardKeeps ==
  ASSUME NEW c, IsConfig(c), NEW s, s.value \in Int, NEW d \in ValidatorRewardTx(c, s)
  PROVE  Keeps(c, d, s.value)
<1>1. AreAccounts(c.accounts) /\ s.to \in DOMAIN c.accounts
  BY DEF IsConfig, ValidatorRewardTx, IsAccount
<1>2. \A a \in DOMAIN c.accounts : /\ DOMAIN c.accounts[a] = AccountFields
                                   /\ c.accounts[a].nonce \in Nat /\ c.accounts[a].balance \in Int
  BY <1>1 DEF AreAccounts, IsAccountRecord
<1>3. DOMAIN d = ConfigFields /\ d.checked = c.checked /\ d.txCount = c.txCount
  BY DEF ValidatorRewardTx, IsConfig, ConfigFields
<1> DEFINE paid == Reward(c.accounts[s.to], s.value)
<1>31. d.accounts = [c.accounts EXCEPT ![s.to] = paid]
  BY <1>1 DEF ValidatorRewardTx, IsConfig, ConfigFields
<1>32. /\ DOMAIN paid = AccountFields /\ paid.nonce = c.accounts[s.to].nonce
       /\ paid.balance = c.accounts[s.to].balance + s.value
  BY <1>1, <1>2 DEF Reward, AccountFields
<1> HIDE DEF paid
<1>4. /\ DOMAIN d.accounts = DOMAIN c.accounts
      /\ d.accounts[s.to].balance = c.accounts[s.to].balance + s.value
      /\ \A a \in DOMAIN d.accounts :
           /\ DOMAIN d.accounts[a] = AccountFields /\ d.accounts[a].nonce \in Nat
           /\ a # s.to => d.accounts[a].balance = c.accounts[a].balance
  BY <1>1, <1>2, <1>31, <1>32
<1>5. Earn(c.accounts, d.accounts, s.value)
  BY <1>1, <1>4, OneBalance
<1> QED  BY <1>3, <1>5 DEF Keeps

(* What every step does to the checks, the outputs and the EGLD.             *)
StepEffect(c, s, d) ==
  /\ IsConfig(d) /\ Earn(c.accounts, d.accounts, MintedBy(c, s))
  /\ s.op \notin {"checkedAccount", "clearCheckedAccounts"} => d.checked = c.checked
  /\ s.op = "clearCheckedAccounts" => d.checked = {}
  /\ s.op \in CallOps => d.vmOutput.tx = d.txCount /\ d.vmOutput.returnCode # "none"
  /\ s.op \in ExpectOps => d = c

LEMMA SameConfig ==
  ASSUME NEW c, IsConfig(c)
  PROVE  Keeps(c, c, 0)
<1>1. AreAccounts(c.accounts)
  BY DEF IsConfig
<1>2. Earn(c.accounts, c.accounts, 0)
  BY <1>1, SameBalances DEF AreAccounts, IsAccountRecord
<1> QED  BY <1>2 DEF Keeps, IsConfig

LEMMA KeepsHasEffect ==
  ASSUME NEW c, IsConfig(c), NEW s, NEW d, Keeps(c, d, MintedBy(c, s)),
         s.op # "clearCheckedAccounts", s.op \notin CallOps, s.op \notin ExpectOps
  PROVE  StepEffect(c, s, d)
<1>1. IsConfig(d)
  BY KeepsIsConfig
<1> QED  BY <1>1 DEF Keeps, StepEffect

LEMMA SetHasEffect ==
  ASSUME NEW c, IsConfig(c), NEW s, LegalStep(s), s.op \in SetOps, NEW d \in StepResults(c, s)
  PROVE  StepEffect(c, s, d)
<1>0. s.op # "clearCheckedAccounts" /\ s.op \notin CallOps /\ s.op \notin ExpectOps
  BY DEF SetOps, CallOps, ExpectOps
<1>1. CASE s.op = "setAccount"
  <2>1. d \in SetAccount(c, s) /\ s.nonce \in Nat /\ s.balance \in Int
    BY <1>1 DEF StepResults, LegalStep
  <2>2. MintedBy(c, s) = SetBalance(c, s)
    BY <1>1 DEF MintedBy
  <2> QED  BY <1>0, <2>1, <2>2, SetAccountKeeps, KeepsHasEffect
<1>2. CASE s.op # "setAccount"
  <2>1. MintedBy(c, s) = 0
    BY <1>2 DEF MintedBy, SetOps
  <2>2. CASE s.op \in {"newAddress", "setBlockInfo"}
    <3>1. /\ DOMAIN d = ConfigFields /\ d.checked = c.checked /\ d.txCount = c.txCount
          /\ d.accounts = c.accounts
      BY <2>2 DEF StepResults, NewAddress, SetBlockInfo, IsConfig, ConfigFields
    <3>2. Keeps(c, d, 0)
      BY <3>1, SameConfig DEF Keeps
    <3> QED  BY <1>0, <2>1, <3>2, KeepsHasEffect
  <2>3. CASE s.op \in {"setEsdtBalance", "setEsdtLastNonce", "setEsdtRoles"}
    <3>1. \E a, key, entry : d \in UpdateEntry(c, a, key, entry)
      BY <2>3 DEF StepResults, SetEsdtBalance, SetEsdtLastNonce, SetEsdtRoles
    <3>2. \E e : d = WithEsdt(c, e)
      BY <3>1 DEF UpdateEntry
    <3>3. Keeps(c, d, 0)
      BY <3>2, WithEsdtKeeps
    <3> QED  BY <1>0, <2>1, <3>3, KeepsHasEffect
  <2> QED  BY <1>2, <2>2, <2>3 DEF SetOps
<1> QED  BY <1>1, <1>2

LEMMA CheckingHasEffect ==
  ASSUME NEW c, IsConfig(c), NEW s, s.op \in CheckingOps \cup ExpectOps, NEW d \in StepResults(c, s)
  PROVE  StepEffect(c, s, d)
<1>1. MintedBy(c, s) = 0 /\ s.op \notin CallOps
  BY DEF MintedBy, CheckingOps, ExpectOps, CallOps
<1>2. Keeps(c, c, 0)
  BY SameConfig
<1>3. CASE s.op \in {"checkedAccount", "clearCheckedAccounts"}
  <2>1. /\ DOMAIN d = ConfigFields /\ d.txCount = c.txCount /\ d.accounts = c.accounts
        /\ s.op = "clearCheckedAccounts" => d.checked = {}
    BY <1>3 DEF StepResults, CheckedAccount, ClearCheckedAccounts, IsConfig, ConfigFields
  <2>2. IsConfig(d)
    BY <2>1 DEF IsConfig
  <2> QED  BY <1>1, <1>2, <1>3, <2>1, <2>2 DEF StepEffect, Keeps, ExpectOps
<1>4. CASE s.op \notin {"checkedAccount", "clearCheckedAccounts"}
  <2>1. ASSUME s.op \in ExpectOps PROVE d = c
    BY <2>1 DEF StepResults, Check, ExpectOps
  <2>2. ASSUME s.op \in {"checkAccountNonce", "checkAccountBalance", "checkAccountStorage",
                         "checkAccountCode"} PROVE d = c
    BY <2>2 DEF StepResults, Check, CheckAccount, CheckAccountNonce, CheckAccountBalance,
       CheckAccountStorage, CheckAccountCode
  <2>3. ASSUME s.op \in {"checkAccountESDTBalance", "checkEsdtRoles",
                         "checkNoAdditionalAccounts"} PROVE d = c
    BY <2>3 DEF StepResults, Check, CheckAccount, CheckAccountESDTBalance, CheckEsdtRoles,
       CheckNoAdditionalAccounts
  <2>4. d = c
    BY <1>4, <2>1, <2>2, <2>3 DEF CheckingOps
  <2> QED  BY <1>1, <1>2, <1>4, <2>4 DEF StepEffect, Keeps
<1> QED  BY <1>3, <1>4

LEMMA CallHasEffect ==
  ASSUME NEW c, IsConfig(c), NEW s, LegalStep(s), s.op \in CallOps, NEW d \in StepResults(c, s)
  PROVE  StepEffect(c, s, d)
<1>1. s.op \notin ExpectOps /\ s.op # "clearCheckedAccounts"
  BY DEF CallOps, ExpectOps
<1>2. Transacts(c, d, MintedBy(c, s))
  <2>1. CASE s.op = "queryTx"
    <3>1. d \in QueryTx(c, s) /\ MintedBy(c, s) = 0
      BY <2>1 DEF StepResults, MintedBy
    <3> QED  BY <3>1, QueryTxTransacts
  <2>2. CASE s.op = "callTx"
    <3>1. d \in CallTx(c, s) /\ s.fee \in Int /\ s.value \in Int
      BY <2>2 DEF StepResults, LegalStep
    <3>2. MintedBy(c, s) = 0 - s.fee
      BY <2>2, <3>1 DEF MintedBy
    <3> QED  BY <3>1, <3>2, CallTxTransacts
  <2>3. CASE s.op = "deployTx"
    <3>1. d \in DeployTx(c, s) /\ s.fee \in Int /\ s.value \in Int
      BY <2>3 DEF StepResults, LegalStep
    <3>2. MintedBy(c, s) = 0 - s.fee
      BY <2>3, <3>1 DEF MintedBy
    <3> QED  BY <3>1, <3>2, DeployTxTransacts
  <2> QED  BY <2>1, <2>2, <2>3 DEF CallOps
<1> QED  BY <1>1, <1>2 DEF Transacts, StepEffect

LEMMA MoveHasEffect ==
  ASSUME NEW c, IsConfig(c), NEW s, LegalStep(s), s.op \in {"transfer", "validatorReward"},
         NEW d \in StepResults(c, s)
  PROVE  StepEffect(c, s, d)
<1>1. s.op # "clearCheckedAccounts" /\ s.op \notin CallOps /\ s.op \notin ExpectOps
  BY DEF CallOps, ExpectOps
<1>2. s.value \in Int
  BY DEF LegalStep
<1>3. CASE s.op = "transfer"
  <2>1. d \in TransferTx(c, s) /\ MintedBy(c, s) = 0
    BY <1>3 DEF StepResults, MintedBy
  <2> QED  BY <1>1, <1>2, <2>1, TransferKeeps, KeepsHasEffect
<1>4. CASE s.op = "validatorReward"
  <2>1. d \in ValidatorRewardTx(c, s) /\ MintedBy(c, s) = s.value
    BY <1>4 DEF StepResults, MintedBy
  <2> QED  BY <1>1, <1>2, <2>1, RewardKeeps, KeepsHasEffect
<1> QED  BY <1>3, <1>4

LEMMA StepsHaveEffect ==
  ASSUME NEW c, IsConfig(c), NEW s, LegalStep(s), NEW d \in StepResults(c, s)
  PROVE  StepEffect(c, s, d)
<1>1. \/ s.op \in SetOps \/ s.op \in CheckingOps \cup ExpectOps \/ s.op \in CallOps
      \/ s.op \in {"transfer", "validatorReward"}
  BY DEF LegalStep, Ops
<1> QED  BY <1>1, SetHasEffect, CheckingHasEffect, CallHasEffect, MoveHasEffect

(* ------------------------------ The invariant ---------------------------- *)

(* What is executed next: an expectation follows its transaction, a check    *)
(* that was recorded is cleared before anything but checks is executed.      *)
Following(s) ==
  \A i \in 2..Len(s) : s[i].op \in ExpectOps => s[i - 1].op \in ExpectOps \cup CallOps
Pending(c, s) == c.checked # {} => \E j \in 1..Len(s) : ClearsAt(s, 1, j)
Fresh(c, s) ==
  s # <<>> /\ s[1].op \in ExpectOps =>
    c.vmOutput.tx = c.txCount /\ c.vmOutput.returnCode # "none"

InputInv ==
  /\ files \in FileSystems /\ logLevel \in LogLevel /\ phase \in Phase
  /\ IsList(tests) /\ \A i \in 1..Len(tests) : tests[i] \in DOMAIN files
  /\ phase \in {"read", "run", "krun"} => tests # <<>>

IsJsonFile(steps) == IsList(steps) /\ \A i \in 1..Len(steps) : IsJsonStep(steps[i])
ReadInv ==
  /\ IsList(reading) /\ \A i \in 1..Len(reading) : IsJsonFile(reading[i])
  /\ phase = "read" => reading # <<>>
  /\ phase \notin {"read", "failed"} => reading = <<>>

StepsInv ==
  /\ IsList(kSteps) /\ \A i \in 1..Len(kSteps) : Good(kSteps[i])
  /\ phase = "next" => kSteps = <<>>
  /\ Legal(k) /\ Tidy(k) /\ Following(k)
  /\ phase \notin {"krun", "failed"} => k = <<>>

ConfigInv == IsConfig(config) /\ Pending(config, k) /\ Fresh(config, k)

Inv == InputInv /\ ReadInv /\ StepsInv /\ ConfigInv

LEMMA TailKeeps ==
  ASSUME NEW s, s # <<>>, Legal(s), Tidy(s), Following(s)
  PROVE  Legal(Tail(s)) /\ Tidy(Tail(s)) /\ Following(Tail(s))
<1> DEFINE t == Tail(s)
<1>1. /\ IsList(t) /\ Len(t) = Len(s) - 1 /\ Len(s) >= 1 /\ Len(s) \in Nat
      /\ \A i \in 1..(Len(s) - 1) : t[i] = s[i + 1]
  BY TailList DEF Legal, IsList
<1>2. \A i \in 1..Len(t) : i + 1 \in 1..Len(s) /\ t[i] = s[i + 1]
  BY <1>1
<1> HIDE DEF t
<1>3. Legal(t)
  BY <1>1, <1>2 DEF Legal
<1>4. Tidy(t)
  <2> SUFFICES ASSUME NEW i \in 1..Len(t), t[i].op = "checkedAccount"
               PROVE  \E j \in i..Len(t) : ClearsAt(t, i, j)
    BY DEF Tidy
  <2>1. PICK j \in (i + 1)..Len(s) : ClearsAt(s, i + 1, j)
    BY <1>2 DEF Tidy
  <2>2. j - 1 \in i..Len(t) /\ j - 1 \in 1..Len(t) /\ (j - 1) + 1 = j
    BY <1>1, <2>1
  <2>3. t[j - 1] = s[j]
    BY <1>2, <2>2
  <2>4. ASSUME NEW m \in i..(j - 1) PROVE t[m].op \in CheckingOps
    <3>1. m \in 1..Len(t) /\ m + 1 \in (i + 1)..j
      BY <2>2
    <3> QED  BY <1>2, <2>1, <3>1 DEF ClearsAt
  <2> QED  BY <2>1, <2>2, <2>3, <2>4 DEF ClearsAt
<1>5. Following(t)
  <2> SUFFICES ASSUME NEW i \in 2..Len(t), t[i].op \in ExpectOps
               PROVE  t[i - 1].op \in ExpectOps \cup CallOps
    BY DEF Following
  <2>1. i \in 1..Len(t) /\ i - 1 \in 1..Len(t) /\ i + 1 \in 2..Len(s) /\ (i - 1) + 1 = (i + 1) - 1
    BY <1>1
  <2> QED  BY <1>2, <2>1 DEF Following
<1> QED  BY <1>3, <1>4, <1>5 DEF t

LEMMA StepKeeps ==
  ASSUME NEW s, s # <<>>, Legal(s), Tidy(s), Following(s), NEW c, Pending(c, s), Fresh(c, s),
         NEW d, StepEffect(c, Head(s), d)
  PROVE  Pending(d, Tail(s)) /\ Fresh(d, Tail(s))
<1> DEFINE t == Tail(s)
<1>1. /\ IsList(t) /\ Len(t) = Len(s) - 1 /\ Len(s) >= 1 /\ Len(s) \in Nat
      /\ Head(s) = s[1] /\ \A i \in 1..(Len(s) - 1) : t[i] = s[i + 1]
  BY TailList DEF Legal, IsList
<1>2. \A i \in 1..Len(t) : i + 1 \in 1..Len(s) /\ t[i] = s[i + 1]
  BY <1>1
<1>3. t # <<>> => Len(t) >= 1
  BY <1>1, TailList
<1> HIDE DEF t
<1>4. ASSUME NEW j \in 1..Len(s), j # 1, ClearsAt(s, 1, j)
      PROVE  \E i \in 1..Len(t) : ClearsAt(t, 1, i)
  <2>1. j - 1 \in 1..Len(t) /\ (j - 1) + 1 = j
    BY <1>1, <1>4
  <2>2. t[j - 1] = s[j]
    BY <1>2, <2>1
  <2>3. ASSUME NEW m \in 1..(j - 1) PROVE t[m].op \in CheckingOps
    <3>1. m \in 1..Len(t) /\ m + 1 \in 1..j
      BY <2>1
    <3> QED  BY <1>2, <1>4, <3>1 DEF ClearsAt
  <2> QED  BY <1>4, <2>1, <2>2, <2>3 DEF ClearsAt
<1>5. Pending(d, t)
  <2> SUFFICES ASSUME d.checked # {} PROVE \E i \in 1..Len(t) : ClearsAt(t, 1, i)
    BY DEF Pending
  <2>1. s[1].op # "clearCheckedAccounts"
    BY <1>1 DEF StepEffect
  <2>2. \E j \in 1..Len(s) : ClearsAt(s, 1, j)
    <3>1. CASE s[1].op = "checkedAccount"
      BY <1>1, <3>1 DEF Tidy
    <3>2. CASE s[1].op # "checkedAccount"
      BY <1>1, <2>1, <3>2 DEF StepEffect, Pending
    <3> QED  BY <3>1, <3>2
  <2>3. PICK j \in 1..Len(s) : ClearsAt(s, 1, j)
    BY <2>2
  <2>4. j # 1
    BY <2>1, <2>3 DEF ClearsAt
  <2> QED  BY <1>4, <2>3, <2>4
<1>6. Fresh(d, t)
  <2> SUFFICES ASSUME t # <<>>, t[1].op \in ExpectOps
               PROVE  d.vmOutput.tx = d.txCount /\ d.vmOutput.returnCode # "none"
    BY DEF Fresh
  <2>1. 2 \in 2..Len(s) /\ t[1] = s[2] /\ 2 - 1 = 1
    BY <1>1, <1>3
  <2>2. s[1].op \in ExpectOps \cup CallOps
    BY <2>1 DEF Following
  <2> QED  BY <1>1, <2>2 DEF StepEffect, Fresh
<1> QED  BY <1>5, <1>6 DEF t

LEMMA TemplateIsConfig == IsConfig(TemplateConfig) /\ TemplateConfig.checked = {}
<1> DEFINE s == [addr |-> SystemAccount, nonce |-> 0, balance |-> 0, code |-> {SystemModule},
                 owner |-> NoAddress, storage |-> EmptyMap]
<1>1. IsConfig(InitialConfig) /\ InitialConfig.checked = {}
  BY FS_EmptySet DEF IsConfig, InitialConfig, ConfigFields, AreAccounts, EmptyMap
<1>2. TemplateConfig \in SetAccount(InitialConfig, s)
  BY DEF TemplateConfig, SetAccount
<1>3. s.nonce \in Nat /\ s.balance \in Int
  OBVIOUS
<1> HIDE DEF s
<1>4. Keeps(InitialConfig, TemplateConfig, SetBalance(InitialConfig, s))
  BY <1>1, <1>2, <1>3, SetAccountKeeps
<1> QED  BY <1>1, <1>4, KeepsIsConfig DEF Keeps

LEMMA ScenarioInit == Init => Inv
<1> SUFFICES ASSUME Init PROVE Inv
  OBVIOUS
<1>1. InputInv
  <2>1. IsList(tests) /\ \A i \in DOMAIN tests : tests[i] \in DOMAIN files
    BY InputAssumption DEF Init
  <2> QED  BY <2>1, ListIsSeq DEF Init, InputInv, Phase
<1>2. ReadInv
  BY EmptyList DEF Init, ReadInv
<1>3. StepsInv
  BY EmptyList DEF Init, StepsInv, Legal, Tidy, Following
<1>4. ConfigInv
  BY TemplateIsConfig DEF Init, ConfigInv, Pending, Fresh
<1> QED  BY <1>1, <1>2, <1>3, <1>4 DEF Inv

LEMMA JsonFiles ==
  ASSUME InputInv, NEW f \in DOMAIN files
  PROVE  IsJsonFile(files[f])
BY InputAssumption, ListIsSeq DEF InputInv, IsJsonFile

LEMMA FreshStart ==
  ASSUME NEW c, c.checked = {}, NEW s, Good(s)
  PROVE  /\ Legal(s) /\ Tidy(s) /\ Following(s)
         /\ Pending(c, s) /\ Fresh(c, s)
<1>1. Following(s)
  <2> SUFFICES ASSUME NEW i \in 2..Len(s), s[i].op \in ExpectOps
               PROVE  s[i - 1].op \in ExpectOps \cup CallOps
    BY DEF Following
  <2>1. i \in 1..Len(s)
    BY DEF Good, Legal, IsList
  <2> QED  BY <2>1 DEF Good, Expected
<1>2. Fresh(c, s)
  <2> SUFFICES ASSUME s # <<>>, s[1].op \in ExpectOps PROVE FALSE
    BY DEF Fresh
  <2>1. 1 \in 1..Len(s)
    BY TailList DEF Good, Legal, IsList
  <2> QED  BY <2>1 DEF Good, Expected
<1> QED  BY <1>1, <1>2 DEF Good, Pending

LEMMA IdleInterpreter == ASSUME Inv, k = <<>> PROVE config.checked = {}
<1>1. Len(k) = 0
  BY EmptyList
<1> QED  BY <1>1 DEF Inv, ConfigInv, Pending

LEMMA AppendList ==
  ASSUME NEW s, NEW x, IsList(s)
  PROVE  /\ IsList(Append(s, x)) /\ Len(Append(s, x)) = Len(s) + 1
         /\ \A i \in 1..Len(s) : Append(s, x)[i] = s[i]
         /\ Append(s, x)[Len(s) + 1] = x
<1> DEFINE S == Values(s) \cup {x}
<1>1. s \in Seq(S) /\ x \in S
  BY ListIsSeq, SeqMonotonic
<1> HIDE DEF S
<1>2. Append(s, x) \in Seq(S)
  BY <1>1, AppendProperties
<1>3. IsList(Append(s, x))
  BY <1>2, SeqIsList
<1> QED  BY <1>1, <1>3, AppendProperties

(* The files being read, with the next step of the innermost one consumed.   *)
LEMMA ConsumedList ==
  ASSUME ReadInv, ReadingStep
  PROVE  /\ IsList(StepConsumed) /\ Len(StepConsumed) >= 1
         /\ \A i \in 1..Len(StepConsumed) : IsJsonFile(StepConsumed[i])
         /\ IsJsonStep(NextStep)
<1>1. /\ reading # <<>> /\ IsList(reading) /\ CurrentFile # <<>>
      /\ \A i \in 1..Len(reading) : IsJsonFile(reading[i])
  BY DEF ReadInv, ReadingStep
<1>2. /\ IsList(Tail(reading)) /\ Len(Tail(reading)) = Len(reading) - 1 /\ Len(reading) >= 1
      /\ CurrentFile = reading[1] /\ Len(reading) \in Nat
      /\ \A i \in 1..(Len(reading) - 1) : Tail(reading)[i] = reading[i + 1]
  BY <1>1, TailList DEF CurrentFile, IsList
<1>3. \A i \in 1..Len(Tail(reading)) : IsJsonFile(Tail(reading)[i])
  <2> SUFFICES ASSUME NEW i \in 1..Len(Tail(reading)) PROVE IsJsonFile(Tail(reading)[i])
    OBVIOUS
  <2>1. i + 1 \in 1..Len(reading) /\ i \in 1..(Len(reading) - 1)
    BY <1>2
  <2> QED  BY <1>1, <1>2, <2>1
<1>4. IsJsonFile(CurrentFile)
  <2>1. 1 \in 1..Len(reading)
    BY <1>2
  <2> QED  BY <1>1, <1>2, <2>1
<1>5. /\ IsList(Tail(CurrentFile)) /\ Len(Tail(CurrentFile)) = Len(CurrentFile) - 1
      /\ Len(CurrentFile) >= 1 /\ NextStep = CurrentFile[1] /\ Len(CurrentFile) \in Nat
      /\ \A i \in 1..(Len(CurrentFile) - 1) : Tail(CurrentFile)[i] = CurrentFile[i + 1]
  BY <1>1, <1>4, TailList DEF NextStep, IsJsonFile, IsList
<1>6. IsJsonStep(NextStep)
  <2>1. 1 \in 1..Len(CurrentFile)
    BY <1>5
  <2> QED  BY <1>4, <1>5, <2>1 DEF IsJsonFile
<1>7. IsJsonFile(Tail(CurrentFile))
  <2>1. ASSUME NEW i \in 1..Len(Tail(CurrentFile)) PROVE IsJsonStep(Tail(CurrentFile)[i])
    <3>1. i + 1 \in 1..Len(CurrentFile) /\ i \in 1..(Len(CurrentFile) - 1)
      BY <1>5
    <3> QED  BY <1>4, <1>5, <3>1 DEF IsJsonFile
  <2> QED  BY <1>5, <2>1 DEF IsJsonFile
<1> DEFINE first == Tail(CurrentFile)
           rest == Tail(reading)
<1> HIDE DEF first, rest
<1>8. IsList(<<first>>) /\ Len(<<first>>) = 1 /\ <<first>>[1] = first
  BY ListOne
<1>9. StepConsumed = <<first>> \o rest
  BY DEF StepConsumed, first, rest
<1>10. IsList(rest) /\ Len(rest) \in Nat /\ \A i \in 1..Len(rest) : IsJsonFile(rest[i])
  BY <1>2, <1>3 DEF rest, IsList
<1>11. /\ IsList(StepConsumed) /\ Len(StepConsumed) = 1 + Len(rest)
       /\ \A i \in 1..(1 + Len(rest)) :
            StepConsumed[i] = IF i <= 1 THEN <<first>>[i] ELSE rest[i - 1]
  BY <1>8, <1>9, <1>10, ConcatList
<1>12. ASSUME NEW i \in 1..Len(StepConsumed) PROVE IsJsonFile(StepConsumed[i])
  <2>1. CASE i = 1
    <3>1. StepConsumed[i] = first
      BY <1>8, <1>10, <1>11, <2>1
    <3> QED  BY <1>7, <3>1 DEF first
  <2>2. CASE i # 1
    <3>1. i - 1 \in 1..Len(rest) /\ ~ (i <= 1) /\ i \in 1..(1 + Len(rest))
      BY <1>10, <1>11, <2>2
    <3>2. StepConsumed[i] = rest[i - 1]
      BY <1>11, <3>1
    <3> QED  BY <1>10, <3>1, <3>2
  <2> QED  BY <2>1, <2>2
<1> QED  BY <1>6, <1>10, <1>11, <1>12

LEMMA ReadingMore ==
  ASSUME NEW f, IsJsonFile(f), NEW s, IsList(s), \A i \in 1..Len(s) : IsJsonFile(s[i])
  PROVE  /\ IsList(<<f>> \o s) /\ Len(<<f>> \o s) = 1 + Len(s) /\ Len(s) \in Nat
         /\ \A i \in 1..Len(<<f>> \o s) : IsJsonFile((<<f>> \o s)[i])
<1>1. IsList(<<f>>) /\ Len(<<f>>) = 1 /\ <<f>>[1] = f /\ Len(s) \in Nat
  BY ListOne DEF IsList
<1>2. /\ IsList(<<f>> \o s) /\ Len(<<f>> \o s) = 1 + Len(s)
      /\ \A i \in 1..(1 + Len(s)) : (<<f>> \o s)[i] = IF i <= 1 THEN <<f>>[i] ELSE s[i - 1]
  BY <1>1, ConcatList
<1>3. ASSUME NEW i \in 1..(1 + Len(s)) PROVE IsJsonFile((<<f>> \o s)[i])
  <2>1. CASE i = 1
    BY <1>1, <1>2, <2>1
  <2>2. CASE i # 1
    <3>1. i - 1 \in 1..Len(s) /\ ~ (i <= 1)
      BY <1>1, <2>2
    <3> QED  BY <1>2, <3>1
  <2> QED  BY <2>1, <2>2
<1> QED  BY <1>1, <1>2, <1>3

LEMMA StepsAppended ==
  ASSUME NEW ks, IsList(ks), \A i \in 1..Len(ks) : Good(ks[i]), NEW s, Good(s)
  PROVE  IsList(Append(ks, s)) /\ \A i \in 1..Len(Append(ks, s)) : Good(Append(ks, s)[i])
<1>1. /\ IsList(Append(ks, s)) /\ Len(Append(ks, s)) = Len(ks) + 1 /\ Len(ks) \in Nat
      /\ \A i \in 1..Len(ks) : Append(ks, s)[i] = ks[i]
      /\ Append(ks, s)[Len(ks) + 1] = s
  BY AppendList DEF IsList
<1>2. ASSUME NEW i \in 1..(Len(ks) + 1) PROVE Good(Append(ks, s)[i])
  <2>1. i \in 1..Len(ks) \/ i = Len(ks) + 1
    BY <1>1
  <2> QED  BY <1>1, <2>1
<1> QED  BY <1>1, <1>2

LEMMA RestOf ==
  ASSUME NEW s, IsList(s), s # <<>>
  PROVE  /\ IsList(Tail(s)) /\ Head(s) = s[1] /\ 1 \in 1..Len(s)
         /\ \A i \in 1..Len(Tail(s)) : i + 1 \in 1..Len(s) /\ Tail(s)[i] = s[i + 1]
<1>1. /\ IsList(Tail(s)) /\ Len(Tail(s)) = Len(s) - 1 /\ Len(s) >= 1 /\ Len(s) \in Nat
      /\ Head(s) = s[1] /\ \A i \in 1..(Len(s) - 1) : Tail(s)[i] = s[i + 1]
  BY TailList DEF IsList
<1> DEFINE t == Tail(s)
<1> HIDE DEF t
<1> QED  BY <1>1

LEMMA ScenarioNext == Inv /\ [Next]_vars => Inv'
<1> SUFFICES ASSUME Inv, [Next]_vars PROVE Inv'
  OBVIOUS
<1> USE DEF Inv
<1>1. CASE StartTest
  <2>1. IsJsonFile(files[Head(tests)])
    <3>1. 1 \in 1..Len(tests) /\ Head(tests) = tests[1]
      BY <1>1, RestOf DEF InputInv, StartTest
    <3> QED  BY <3>1, JsonFiles DEF InputInv
  <2>2. InputInv'
    BY <1>1 DEF InputInv, StartTest, input, Phase
  <2> DEFINE f == files[Head(tests)]
  <2> HIDE DEF f
  <2>3. IsList(<<f>>) /\ Len(<<f>>) = 1 /\ <<f>>[1] = f /\ <<f>> # <<>>
    BY ListOne
  <2>4. \A i \in 1..Len(<<f>>) : IsJsonFile(<<f>>[i])
    BY <2>1, <2>3 DEF f
  <2>5. ReadInv'
    BY <1>1, <2>3, <2>4 DEF ReadInv, StartTest, f
  <2>6. StepsInv'
    BY <1>1, EmptyList DEF StepsInv, StartTest
  <2>7. ConfigInv'
    BY <1>1 DEF ConfigInv, StartTest
  <2> QED  BY <2>2, <2>5, <2>6, <2>7
<1>2. CASE ReadStep
  <2>1. ReadingStep
    BY <1>2 DEF ReadStep
  <2>2. InputInv'
    BY <1>2 DEF InputInv, ReadStep, ReadingStep, input
  <2>3. ReadInv'
    <3> DEFINE c == StepConsumed
    <3>1. /\ IsList(c) /\ Len(c) >= 1 /\ \A i \in 1..Len(c) : IsJsonFile(c[i])
      BY <2>1, ConsumedList
    <3>2. reading' = c /\ phase' = "read"
      BY <1>2 DEF ReadStep, ReadingStep
    <3> HIDE DEF c
    <3>3. c # <<>>
      BY <3>1, EmptyList
    <3> QED  BY <3>1, <3>2, <3>3 DEF ReadInv
  <2>4. StepsInv'
    <3>1. PICK s \in GetSteps(NextStep) : kSteps' = Append(kSteps, s)
      BY <1>2 DEF ReadStep
    <3>2. Good(s)
      BY <2>1, <3>1, ConsumedList, TranslationsAreGood
    <3>3. IsList(kSteps') /\ \A i \in 1..Len(kSteps') : Good(kSteps'[i])
      BY <3>1, <3>2, StepsAppended DEF StepsInv
    <3> QED  BY <1>2, <2>1, <3>3 DEF StepsInv, ReadStep, ReadingStep
  <2>5. ConfigInv'
    BY <1>2 DEF ConfigInv, ReadStep
  <2> QED  BY <2>2, <2>3, <2>4, <2>5
<1>3. CASE ReadExternalSteps
  <2>1. ReadingStep
    BY <1>3 DEF ReadExternalSteps
  <2>2. InputInv'
    BY <1>3 DEF InputInv, ReadExternalSteps, ReadingStep, input
  <2>3. ReadInv'
    <3> DEFINE c == StepConsumed
               f == files[NextStep.path]
               r == <<f>> \o c
    <3>1. /\ IsList(c) /\ \A i \in 1..Len(c) : IsJsonFile(c[i])
      BY <2>1, ConsumedList
    <3>2. IsJsonFile(f)
      BY <1>3, JsonFiles DEF ReadExternalSteps
    <3>3. reading' = r /\ phase' = "read"
      BY <1>3, <2>1 DEF ReadExternalSteps, ReadingStep
    <3> HIDE DEF c, f
    <3>4. IsList(r) /\ Len(r) = 1 + Len(c) /\ Len(c) \in Nat /\ \A i \in 1..Len(r) : IsJsonFile(r[i])
      BY <3>1, <3>2, ReadingMore
    <3> HIDE DEF r
    <3>5. r # <<>>
      BY <3>4, EmptyList
    <3> QED  BY <3>3, <3>4, <3>5 DEF ReadInv
  <2>4. StepsInv'
    BY <1>3, <2>1 DEF StepsInv, ReadExternalSteps, ReadingStep
  <2>5. ConfigInv'
    BY <1>3 DEF ConfigInv, ReadExternalSteps
  <2> QED  BY <2>2, <2>3, <2>4, <2>5
<1>4. CASE ReadFails
  <2>1. InputInv'
    BY <1>4 DEF InputInv, ReadFails, input, Phase
  <2>2. ReadInv'
    BY <1>4 DEF ReadInv, ReadFails
  <2>3. StepsInv' /\ ConfigInv'
    BY <1>4 DEF StepsInv, ConfigInv, ReadFails
  <2> QED  BY <2>1, <2>2, <2>3
<1>5. CASE EndOfExternalFile
  <2>1. InputInv'
    BY <1>5 DEF InputInv, EndOfExternalFile, input
  <2>2. ReadInv'
    <3> DEFINE t == Tail(reading)
    <3>1. reading # <<>> /\ IsList(reading) /\ Len(reading) \in Nat
      BY <1>5 DEF EndOfExternalFile, ReadInv, IsList
    <3>2. /\ IsList(t) /\ Len(t) = Len(reading) - 1
          /\ \A i \in 1..Len(t) : i + 1 \in 1..Len(reading) /\ t[i] = reading[i + 1]
      BY <3>1, TailList, RestOf
    <3>3. reading' = t /\ phase' = "read" /\ Len(reading) > 1
      BY <1>5 DEF EndOfExternalFile
    <3> HIDE DEF t
    <3>4. t # <<>>
      BY <3>1, <3>2, <3>3, EmptyList
    <3>5. \A i \in 1..Len(t) : IsJsonFile(t[i])
      BY <3>2 DEF ReadInv
    <3> QED  BY <3>2, <3>3, <3>4, <3>5 DEF ReadInv
  <2>3. StepsInv' /\ ConfigInv'
    BY <1>5 DEF StepsInv, ConfigInv, EndOfExternalFile
  <2> QED  BY <2>1, <2>2, <2>3
<1>6. CASE EndOfTestFile
  <2>0. k = <<>> /\ k' = k /\ phase' = "run"
    BY <1>6 DEF EndOfTestFile, StepsInv
  <2>1. InputInv'
    BY <1>6 DEF InputInv, EndOfTestFile, input, Phase
  <2>2. ReadInv'
    BY <1>6, EmptyList DEF ReadInv, EndOfTestFile
  <2>3. StepsInv'
    <3>1. IsList(kSteps') /\ \A i \in 1..Len(kSteps') : Good(kSteps'[i])
      <4>1. CASE logLevel = "per-step"
        BY <1>6, <4>1 DEF EndOfTestFile, StepsInv
      <4>2. CASE logLevel # "per-step"
        <5> DEFINE s == FlattenSeq(kSteps)
        <5>1. kSteps' = <<s>> /\ Good(s)
          BY <1>6, <4>2, FlattenGood DEF EndOfTestFile, StepsInv
        <5> HIDE DEF s
        <5>2. IsList(<<s>>) /\ Len(<<s>>) = 1 /\ <<s>>[1] = s
          BY ListOne
        <5> QED  BY <5>1, <5>2
      <4> QED  BY <4>1, <4>2
    <3> QED  BY <2>0, <3>1 DEF StepsInv
  <2>4. ConfigInv'
    BY <1>6, <2>0, TemplateIsConfig DEF ConfigInv, Pending, Fresh, EndOfTestFile
  <2> QED  BY <2>1, <2>2, <2>3, <2>4
<1>7. CASE StartKrun
  <2>0. k = <<>>
    BY <1>7 DEF StartKrun, StepsInv
  <2>1. InputInv'
    BY <1>7 DEF InputInv, StartKrun, input, Phase
  <2>2. ReadInv'
    BY <1>7 DEF ReadInv, StartKrun
  <2>3. /\ IsList(Tail(kSteps)) /\ Head(kSteps) = kSteps[1] /\ 1 \in 1..Len(kSteps)
        /\ \A i \in 1..Len(Tail(kSteps)) :
             i + 1 \in 1..Len(kSteps) /\ Tail(kSteps)[i] = kSteps[i + 1]
    BY <1>7, RestOf DEF StartKrun, StepsInv
  <2>4. /\ Legal(Head(kSteps)) /\ Tidy(Head(kSteps)) /\ Following(Head(kSteps))
        /\ Pending(config, Head(kSteps)) /\ Fresh(config, Head(kSteps))
    <3>1. Good(Head(kSteps))
      BY <2>3 DEF StepsInv
    <3>2. config.checked = {}
      BY <2>0, IdleInterpreter
    <3> QED  BY <3>1, <3>2, FreshStart
  <2>5. StepsInv'
    <3>1. \A i \in 1..Len(Tail(kSteps)) : Good(Tail(kSteps)[i])
      BY <2>3 DEF StepsInv
    <3> QED  BY <1>7, <2>3, <2>4, <3>1 DEF StepsInv, StartKrun
  <2>6. ConfigInv'
    BY <1>7, <2>4 DEF ConfigInv, StartKrun
  <2> QED  BY <2>1, <2>2, <2>5, <2>6
<1>8. CASE MandosStep
  <2>1. InputInv' /\ ReadInv'
    BY <1>8 DEF InputInv, ReadInv, MandosStep, input
  <2>2. k # <<>> /\ Legal(k) /\ Tidy(k) /\ Following(k) /\ k' = Tail(k)
    BY <1>8 DEF MandosStep, StepsInv
  <2>3. StepsInv'
    <3>1. Legal(k') /\ Tidy(k') /\ Following(k')
      BY <2>2, TailKeeps
    <3> QED  BY <1>8, <3>1 DEF StepsInv, MandosStep
  <2>4. StepEffect(config, Head(k), config')
    <3>1. LegalStep(Head(k))
      BY <2>2, RestOf DEF Legal
    <3> QED  BY <1>8, <3>1, StepsHaveEffect DEF MandosStep, ConfigInv
  <2>5. ConfigInv'
    <3>1. Pending(config, k) /\ Fresh(config, k)
      BY DEF ConfigInv
    <3>2. Pending(config', Tail(k)) /\ Fresh(config', Tail(k))
      BY <2>2, <2>4, <3>1, StepKeeps
    <3>3. IsConfig(config')
      BY <2>4 DEF StepEffect
    <3> QED  BY <2>2, <3>2, <3>3 DEF ConfigInv
  <2> QED  BY <2>1, <2>3, <2>5
<1>9. CASE KrunStuck
  <2>1. InputInv' /\ ReadInv'
    BY <1>9 DEF InputInv, ReadInv, KrunStuck, input, Phase
  <2>2. StepsInv' /\ ConfigInv'
    BY <1>9 DEF StepsInv, ConfigInv, KrunStuck
  <2> QED  BY <2>1, <2>2
<1>10. CASE KrunEnds
  <2>1. InputInv' /\ ReadInv'
    BY <1>10 DEF InputInv, ReadInv, KrunEnds, input, Phase
  <2>2. StepsInv' /\ ConfigInv'
    BY <1>10 DEF StepsInv, ConfigInv, KrunEnds
  <2> QED  BY <2>1, <2>2
<1>11. CASE TestPasses
  <2>1. InputInv'
    <3>1. IsList(Tail(tests)) /\ \A i \in 1..Len(Tail(tests)) : Tail(tests)[i] \in DOMAIN files
      BY <1>11, RestOf DEF InputInv, TestPasses
    <3> QED  BY <1>11, <3>1 DEF InputInv, TestPasses, input, Phase
  <2>2. ReadInv'
    BY <1>11 DEF ReadInv, TestPasses
  <2>3. StepsInv' /\ ConfigInv'
    BY <1>11 DEF StepsInv, ConfigInv, TestPasses
  <2> QED  BY <2>1, <2>2, <2>3
<1>12. CASE RunPasses
  <2>1. InputInv' /\ ReadInv'
    BY <1>12 DEF InputInv, ReadInv, RunPasses, input, Phase
  <2>2. StepsInv' /\ ConfigInv'
    BY <1>12 DEF StepsInv, ConfigInv, RunPasses
  <2> QED  BY <2>1, <2>2
<1>13. CASE UNCHANGED vars
  BY <1>13 DEF vars, input, InputInv, ReadInv, StepsInv, ConfigInv
<1> QED
  BY <1>1, <1>2, <1>3, <1>4, <1>5, <1>6, <1>7, <1>8, <1>9, <1>10, <1>11, <1>12, <1>13 DEF Next

(* -------------------------------- Theorems ------------------------------- *)

(* Every run of scenario files keeps the invariant: files that are read and  *)
(* steps that are to be executed are lists, an interpreter run executes      *)
(* legal steps, every recorded check still has its clearing step before it,  *)
(* and an expectation has the outcome of its transaction.                    *)
THEOREM ScenarioInvariant == Spec => []Inv
<1>1. Init => Inv
  BY ScenarioInit
<1>2. Inv /\ [Next]_vars => Inv'
  BY ScenarioNext
<1> QED  BY <1>1, <1>2, PTL DEF Spec

(* Files are being read in phase "read" only, the steps of a run are in <k>  *)
(* only while the interpreter runs, and nonces stay natural numbers, for     *)
(* every file, every list of tests and every log level (scenario.py:717-846).*)
THEOREM ScenarioTypes == Spec => []TypeOK
<1>1. Inv => TypeOK
  BY DEF Inv, InputInv, ReadInv, StepsInv, ConfigInv, TypeOK, IsConfig, AreAccounts,
         IsAccountRecord
<1> QED  BY <1>1, ScenarioInvariant, PTL

(* A checkState step leaves no recorded account to the step after it, in     *)
(* the same interpreter run or in the next one, whatever steps the files     *)
(* hold: its last step clears what the ones before it recorded               *)
(* (scenario.py:713, mandos.md:526).                                         *)
THEOREM ChecksForgotten == Spec => []ChecksAreForgotten
<1>1. Inv => ChecksAreForgotten
  <2> SUFFICES ASSUME Inv PROVE ChecksAreForgotten
    OBVIOUS
  <2>1. ASSUME phase = "run" PROVE config.checked = {}
    <3>1. k = <<>>
      BY <2>1 DEF Inv, StepsInv
    <3> QED  BY <3>1, IdleInterpreter
  <2>2. ASSUME phase = "krun", k # <<>>, Head(k).op \notin CheckingOps
        PROVE  config.checked = {}
    <3> SUFFICES ASSUME config.checked # {} PROVE FALSE
      OBVIOUS
    <3>1. PICK j \in 1..Len(k) : ClearsAt(k, 1, j)
      BY DEF Inv, ConfigInv, Pending
    <3>2. Head(k) = k[1] /\ Len(k) \in Nat
      BY <2>2, TailList DEF Inv, StepsInv, Legal, IsList
    <3>3. 1 \in 1..j
      BY <3>1, <3>2
    <3> QED  BY <2>2, <3>1, <3>2, <3>3 DEF ClearsAt
  <2> QED  BY <2>1, <2>2 DEF ChecksAreForgotten
<1> QED  BY <1>1, ScenarioInvariant, PTL

(* An "expect" section is compared with the outcome of the transaction it    *)
(* belongs to: no other step comes between the two, and every call, query    *)
(* and deployment leaves an output of its own (scenario.py:616-663).         *)
THEOREM ExpectationsFollow == Spec => []ExpectationsConcernTheirTransaction
<1>1. Inv => ExpectationsConcernTheirTransaction
  <2> SUFFICES ASSUME Inv, k # <<>>, Head(k).op \in ExpectOps
               PROVE  config.vmOutput.tx = config.txCount /\ config.vmOutput.returnCode # "none"
    BY DEF ExpectationsConcernTheirTransaction, ExpectOps, NoVMOutput
  <2>1. Head(k) = k[1]
    BY RestOf DEF Inv, StepsInv, Legal
  <2> QED  BY <2>1 DEF Inv, ConfigInv, Fresh
<1> QED  BY <1>1, ScenarioInvariant, PTL

(* A Mandos step changes the EGLD of all accounts together by what it sets,  *)
(* rewards or takes as a fee, and by nothing else, for any number of         *)
(* accounts and any amounts: a transfer to oneself, a call that fails and a  *)
(* deployment on an address that exists included (mandos.md:571-790).        *)
THEOREM EgldAccounted == Spec => EgldIsAccounted
<1>1. Inv /\ [Next]_vars =>
        [config' # config /\ phase = "krun" =>
           TotalEgld(config') = TotalEgld(config) + MintedBy(config, Head(k))]_vars
  <2> SUFFICES ASSUME Inv, Next, config' # config, phase = "krun"
               PROVE  TotalEgld(config') = TotalEgld(config) + MintedBy(config, Head(k))
    BY DEF vars
  <2>1. MandosStep
    BY DEF Next, StartTest, ReadStep, ReadExternalSteps, ReadFails, EndOfExternalFile,
           EndOfTestFile, StartKrun, KrunStuck, KrunEnds, TestPasses, RunPasses, ReadingStep
  <2>2. StepEffect(config, Head(k), config')
    <3>1. LegalStep(Head(k))
      BY <2>1, RestOf DEF Inv, StepsInv, Legal, MandosStep
    <3> QED  BY <2>1, <3>1, StepsHaveEffect DEF MandosStep, Inv, ConfigInv
  <2> QED  BY <2>2, TotalIs DEF StepEffect, Earn
<1> QED  BY <1>1, ScenarioInvariant, PTL DEF Spec, EgldIsAccounted

(* ------------------------- What a check has seen ------------------------- *)

(* Steps that have been joined hold all the steps of one result of every     *)
(* list they were joined from.                                               *)
HasPart(s, results) == \E p \in results : Values(p) \subseteq Values(s)

LEMMA ConcatValues ==
  ASSUME NEW s, NEW t, IsList(s), IsList(t)
  PROVE  Values(s) \subseteq Values(s \o t) /\ Values(t) \subseteq Values(s \o t)
<1>1. /\ DOMAIN (s \o t) = 1..(Len(s) + Len(t)) /\ Len(s) \in Nat /\ Len(t) \in Nat
      /\ DOMAIN s = 1..Len(s) /\ DOMAIN t = 1..Len(t)
      /\ \A i \in 1..(Len(s) + Len(t)) :
           (s \o t)[i] = IF i <= Len(s) THEN s[i] ELSE t[i - Len(s)]
  BY ConcatList DEF IsList
<1> DEFINE st == s \o t
<1> HIDE DEF st
<1>2. ASSUME NEW i \in DOMAIN s PROVE s[i] \in Values(st)
  <2>1. i \in DOMAIN st /\ st[i] = s[i]
    BY <1>1 DEF st
  <2> QED  BY <2>1 DEF Values
<1>3. ASSUME NEW i \in DOMAIN t PROVE t[i] \in Values(st)
  <2>1. i + Len(s) \in DOMAIN st /\ st[i + Len(s)] = t[i]
    <3>1. i + Len(s) \in 1..(Len(s) + Len(t)) /\ ~ (i + Len(s) <= Len(s))
          /\ (i + Len(s)) - Len(s) = i
      BY <1>1
    <3> QED  BY <1>1, <3>1 DEF st
  <2> QED  BY <2>1 DEF Values
<1> QED  BY <1>2, <1>3 DEF Values, st

LEMMA JoinedParts ==
  ASSUME NEW r, IsList(r), \A i \in DOMAIN r : \A s \in r[i] : IsList(s), NEW s \in Joined(r)
  PROVE  \A i \in DOMAIN r : HasPart(s, r[i])
<1> DEFINE All(t, n) == IsList(t) /\ \A i \in 1..n : HasPart(t, r[i])
           Bad == {n \in 0..Len(r) : ~ \A t \in JoinedTo(r, n) : All(t, n)}
<1>1. Len(r) \in Nat /\ DOMAIN r = 1..Len(r)
  BY DEF IsList
<1>2. Bad = {}
  <2> SUFFICES ASSUME Bad # {} PROVE FALSE
    OBVIOUS
  <2>1. PICK n \in Bad : \A m \in Bad : n <= m
    <3>1. Bad \in SUBSET Nat
      BY <1>1
    <3> HIDE DEF Bad
    <3> QED  BY <3>1, LeastNat
  <2>2. PICK t \in JoinedTo(r, n) : ~ All(t, n)
    BY <2>1
  <2> HIDE DEF All
  <2>3. n # 0
    BY <2>2, JoinedSteps, EmptyList DEF All
  <2>4. n \in 1..Len(r) /\ n - 1 \in 0..Len(r) /\ n - 1 \notin Bad
    BY <1>1, <2>1, <2>3
  <2>5. t \in Pairs(JoinedTo(r, n - 1), r[n])
    BY <2>2, <2>4, JoinedSteps
  <2>6. PICK a \in JoinedTo(r, n - 1), b \in r[n] : t = a \o b
    BY <2>5, PairsAre
  <2>7. All(a, n - 1) /\ IsList(b)
    BY <1>1, <2>4
  <2>8. /\ IsList(a) /\ IsList(t)
        /\ Values(a) \subseteq Values(t) /\ Values(b) \subseteq Values(t)
    BY <2>6, <2>7, ConcatValues, ConcatList DEF All
  <2>9. ASSUME NEW i \in 1..n PROVE HasPart(t, r[i])
    <3>1. CASE i = n
      BY <2>8, <3>1 DEF HasPart
    <3>2. CASE i # n
      <4>1. i \in 1..(n - 1)
        BY <2>4, <3>2
      <4>2. HasPart(a, r[i])
        BY <2>7, <4>1 DEF All
      <4> QED  BY <2>8, <4>2 DEF HasPart
    <3> QED  BY <3>1, <3>2
  <2> QED  BY <2>2, <2>8, <2>9 DEF All
<1>3. Len(r) \in 0..Len(r)
  BY <1>1
<1>4. All(s, Len(r))
  BY <1>2, <1>3, JoinedSteps
<1> QED  BY <1>1, <1>4

LEMMA JoinedOverParts ==
  ASSUME NEW r, IsFiniteSet(DOMAIN r), \A x \in DOMAIN r : \A s \in r[x] : IsList(s),
         NEW s \in JoinedOver(r)
  PROVE  \A x \in DOMAIN r : HasPart(s, r[x])
<1>1. PICK u : /\ IsList(u) /\ JoinedOver(r) = Joined(u)
               /\ \A i \in DOMAIN u : \E x \in DOMAIN r : u[i] = r[x]
               /\ \A x \in DOMAIN r : \E i \in DOMAIN u : u[i] = r[x]
  BY JoinedOverIs
<1>2. \A i \in DOMAIN u : HasPart(s, u[i])
  BY <1>1, JoinedParts
<1> QED  BY <1>1, <1>2

(* The configurations after every step of a list.                            *)
Follows(c, steps, n, g) ==
  g = [i \in 0..n |-> IF i = 0 THEN {c} ELSE UNION {StepResults(d, steps[i]) : d \in g[i - 1]}]
After(c, steps) == CHOOSE g : Follows(c, steps, Len(steps), g)

LEMMA AfterExists ==
  ASSUME NEW c, NEW steps
  PROVE  \A n \in Nat : \E g : Follows(c, steps, n, g)
<1> DEFINE Missing == {n \in Nat : ~ \E g : Follows(c, steps, n, g)}
           Step(f, i) == IF i = 0 THEN {c} ELSE UNION {StepResults(d, steps[i]) : d \in f[i - 1]}
<1> SUFFICES ASSUME Missing # {} PROVE FALSE
  OBVIOUS
<1>1. PICK n \in Missing : \A m \in Missing : n <= m
  <2>1. Missing \in SUBSET Nat
    OBVIOUS
  <2> HIDE DEF Missing
  <2> QED  BY <2>1, LeastNat
<1>2. CASE n = 0
  <2> DEFINE h == [i \in 0..0 |-> {c}]
  <2>1. h = [i \in 0..0 |-> Step(h, i)]
    <3>1. \A i \in 0..0 : i = 0
      OBVIOUS
    <3> QED  BY <3>1
  <2> HIDE DEF h
  <2>2. Follows(c, steps, 0, h)
    BY <2>1 DEF Follows
  <2> QED  BY <1>2, <2>2
<1>3. CASE n # 0
  <2>1. n - 1 \in Nat /\ n - 1 \notin Missing
    BY <1>1, <1>3
  <2>2. PICK g : Follows(c, steps, n - 1, g)
    BY <2>1
  <2> DEFINE h == [i \in 0..n |-> Step(g, i)]
  <2>3. g = [i \in 0..(n - 1) |-> Step(g, i)]
    BY <2>2 DEF Follows
  <2> HIDE DEF Step
  <2>4. \A i \in 0..(n - 1) : g[i] = Step(g, i)
    BY <2>3
  <2>5. \A i \in 0..(n - 1) : i \in 0..n /\ h[i] = g[i]
    BY <2>1, <2>4
  <2>6. \A i \in 0..n : i # 0 => i - 1 \in 0..(n - 1)
    BY <2>1
  <2> HIDE DEF h
  <2>7. \A i \in 0..n : Step(g, i) = Step(h, i)
    BY <2>5, <2>6 DEF Step
  <2>8. h = [i \in 0..n |-> Step(h, i)]
    BY <2>7 DEF h
  <2>9. Follows(c, steps, n, h)
    BY <2>8 DEF Follows, Step
  <2> QED  BY <2>9
<1> QED  BY <1>2, <1>3

LEMMA AfterIs ==
  ASSUME NEW c, NEW steps, Len(steps) \in Nat
  PROVE  /\ AfterSteps(c, steps) = After(c, steps)[Len(steps)]
         /\ After(c, steps)[0] = {c}
         /\ \A i \in 1..Len(steps) :
              After(c, steps)[i] =
                UNION {StepResults(d, steps[i]) : d \in After(c, steps)[i - 1]}
<1>1. Follows(c, steps, Len(steps), After(c, steps))
  BY AfterExists DEF After
<1>2. AfterSteps(c, steps) = After(c, steps)[Len(steps)]
  BY DEF AfterSteps, After, Follows
<1> DEFINE g == After(c, steps)
<1> HIDE DEF g
<1>3. \A i \in 0..Len(steps) :
        g[i] = IF i = 0 THEN {c} ELSE UNION {StepResults(d, steps[i]) : d \in g[i - 1]}
  BY <1>1 DEF Follows, g
<1>4. g[0] = {c}
  <2>1. 0 \in 0..Len(steps)
    OBVIOUS
  <2> QED  BY <1>3, <2>1
<1>5. \A i \in 1..Len(steps) : i \in 0..Len(steps) /\ i # 0
  OBVIOUS
<1>6. \A i \in 1..Len(steps) : g[i] = UNION {StepResults(d, steps[i]) : d \in g[i - 1]}
  BY <1>3, <1>5
<1> QED  BY <1>2, <1>4, <1>6 DEF g

(* The configurations that hold certain accounts.                            *)
Holding(e, accounts) == DOMAIN e = ConfigFields /\ e.accounts = accounts

LEMMA CheckingKeepsAccounts ==
  ASSUME NEW accounts, NEW e, Holding(e, accounts), NEW s, s.op \in CheckingOps,
         NEW d \in StepResults(e, s)
  PROVE  Holding(d, accounts)
<1>1. CASE s.op \in {"checkedAccount", "clearCheckedAccounts"}
  BY <1>1 DEF StepResults, CheckedAccount, ClearCheckedAccounts, Holding, ConfigFields
<1>2. CASE s.op \in {"checkAccountNonce", "checkAccountBalance", "checkAccountStorage",
                     "checkAccountCode"}
  BY <1>2 DEF StepResults, Check, CheckAccount, CheckAccountNonce, CheckAccountBalance,
     CheckAccountStorage, CheckAccountCode
<1>3. CASE s.op \in {"checkAccountESDTBalance", "checkEsdtRoles", "checkNoAdditionalAccounts"}
  BY <1>3 DEF StepResults, Check, CheckAccount, CheckAccountESDTBalance, CheckEsdtRoles,
     CheckNoAdditionalAccounts
<1> QED  BY <1>1, <1>2, <1>3 DEF CheckingOps

(* Checks that were all executed were each passed by the same accounts.      *)
LEMMA ChecksPassed ==
  ASSUME NEW c, NEW accounts, Holding(c, accounts),
         NEW s, OnlyOps(s, CheckingOps), AfterSteps(c, s) # {}
  PROVE  \A x \in Values(s) : \E e : Holding(e, accounts) /\ StepResults(e, x) # {}
<1> DEFINE n == Len(s)
           g == After(c, s)
<1>1. n \in Nat /\ DOMAIN s = 1..n
  BY DEF OnlyOps, IsList
<1>2. /\ g[n] # {} /\ g[0] = {c}
      /\ \A i \in 1..n : g[i] = UNION {StepResults(d, s[i]) : d \in g[i - 1]}
  BY <1>1, AfterIs
<1>3. \A i \in 1..n : s[i].op \in CheckingOps
  BY DEF OnlyOps
<1> HIDE DEF n, g
<1>4. \A i \in 0..n : \A e \in g[i] : Holding(e, accounts)
  <2> DEFINE Bad == {i \in 0..n : ~ \A e \in g[i] : Holding(e, accounts)}
  <2> SUFFICES ASSUME Bad # {} PROVE FALSE
    OBVIOUS
  <2>1. PICK i \in Bad : \A j \in Bad : i <= j
    <3>1. Bad \in SUBSET Nat
      BY <1>1
    <3> HIDE DEF Bad
    <3> QED  BY <3>1, LeastNat
  <2>2. i # 0
    BY <1>2
  <2>3. i \in 1..n /\ i - 1 \in 0..n /\ i - 1 \notin Bad
    BY <1>1, <2>1, <2>2
  <2>4. PICK e \in g[i] : ~ Holding(e, accounts)
    OBVIOUS
  <2>5. PICK d \in g[i - 1] : e \in StepResults(d, s[i])
    BY <1>2, <2>3, <2>4
  <2> QED  BY <1>3, <2>3, <2>4, <2>5, CheckingKeepsAccounts
<1>5. \A i \in 0..n : g[i] # {}
  <2> DEFINE Bad == {j \in 0..n : g[n - j] = {}}
  <2> SUFFICES ASSUME Bad # {} PROVE FALSE
    <3>1. \A i \in 0..n : n - i \in 0..n /\ n - (n - i) = i
      BY <1>1
    <3> QED  BY <3>1
  <2>1. PICK j \in Bad : \A k1 \in Bad : j <= k1
    <3>1. Bad \in SUBSET Nat
      BY <1>1
    <3> HIDE DEF Bad
    <3> QED  BY <3>1, LeastNat
  <2>2. j # 0
    BY <1>1, <1>2
  <2>3. /\ j - 1 \in 0..n /\ j - 1 \notin Bad
        /\ n - (j - 1) \in 1..n /\ (n - (j - 1)) - 1 = n - j
    BY <1>1, <2>1, <2>2
  <2>4. g[n - (j - 1)] = {}
    BY <1>2, <2>3
  <2> QED  BY <2>3, <2>4
<1>6. ASSUME NEW i \in 1..n PROVE \E e : Holding(e, accounts) /\ StepResults(e, s[i]) # {}
  <2>1. i \in 0..n /\ i - 1 \in 0..n
    BY <1>1
  <2>2. PICK e \in g[i - 1] : StepResults(e, s[i]) # {}
    BY <1>2, <1>5, <2>1
  <2> QED  BY <1>4, <2>1, <2>2
<1> QED  BY <1>1, <1>6 DEF Values, n

LEMMA CheckHolds ==
  ASSUME NEW e, NEW a, NEW holds, CheckAccount(e, a, holds) # {}
  PROVE  a \in DOMAIN e.accounts /\ holds
<1>1. IsAccount(e, a) /\ holds
  BY DEF CheckAccount, Check
<1> QED  BY <1>1 DEF IsAccount

LEMMA NonceChecked ==
  ASSUME NEW accounts, NEW e, Holding(e, accounts), NEW s, s.op = "checkAccountNonce",
         StepResults(e, s) # {}
  PROVE  s.addr \in DOMAIN accounts /\ accounts[s.addr].nonce = s.value
<1>1. CheckAccountNonce(e, s) # {}
  BY DEF StepResults
<1> QED  BY <1>1, CheckHolds DEF CheckAccountNonce, Holding

LEMMA BalanceChecked ==
  ASSUME NEW accounts, NEW e, Holding(e, accounts), NEW s, s.op = "checkAccountBalance",
         StepResults(e, s) # {}
  PROVE  s.addr \in DOMAIN accounts /\ accounts[s.addr].balance = s.value
<1>1. CheckAccountBalance(e, s) # {}
  BY DEF StepResults
<1> QED  BY <1>1, CheckHolds DEF CheckAccountBalance, Holding

(* What the rule compares is what a reader of the description sees.          *)
LEMMA StorageAgrees ==
  ASSUME NEW m, NEW n
  PROVE  AgreesOnStorage(m, n) <=> RemoveReservedKeys(m) = RemoveEmptyBytes(n)
<1> DEFINE A == DOMAIN m \ ReservedKeys
           B == {key \in DOMAIN n : n[key] # 0}
           Same == A = B /\ \A key \in A : m[key] = n[key]
<1>1. RemoveReservedKeys(m) = [key \in A |-> m[key]] /\ RemoveEmptyBytes(n) = [key \in B |-> n[key]]
  BY DEF RemoveReservedKeys, RemoveEmptyBytes
<1>2. ASSUME AgreesOnStorage(m, n) PROVE Same
  <2>1. ASSUME NEW key \in A PROVE key \in B /\ m[key] = n[key]
    BY <1>2 DEF AgreesOnStorage, Get
  <2>2. ASSUME NEW key \in B PROVE key \in A
    BY <1>2 DEF AgreesOnStorage, Get
  <2> QED  BY <2>1, <2>2
<1>3. ASSUME Same PROVE AgreesOnStorage(m, n)
  <2>1. ASSUME NEW key \in (DOMAIN m \cup DOMAIN n) \ ReservedKeys
        PROVE  Get(m, key, 0) = Get(n, key, 0)
    BY <1>3 DEF Get
  <2>2. \A key \in DOMAIN m \ ReservedKeys : m[key] # 0
    BY <1>3
  <2>3. \A key \in DOMAIN n \cap ReservedKeys : n[key] = 0
    BY <1>3
  <2> QED  BY <2>1, <2>2, <2>3 DEF AgreesOnStorage
<1>4. [key \in A |-> m[key]] = [key \in B |-> n[key]] <=> Same
  <2> HIDE DEF A, B
  <2>1. /\ DOMAIN [key \in A |-> m[key]] = A /\ DOMAIN [key \in B |-> n[key]] = B
        /\ \A key \in A : [x \in A |-> m[x]][key] = m[key]
        /\ \A key \in B : [x \in B |-> n[x]][key] = n[key]
    OBVIOUS
  <2>2. ASSUME [key \in A |-> m[key]] = [key \in B |-> n[key]] PROVE Same
    BY <2>1, <2>2
  <2>3. ASSUME Same PROVE [key \in A |-> m[key]] = [key \in B |-> n[key]]
    BY <2>3
  <2> QED  BY <2>2, <2>3
<1> QED  BY <1>1, <1>2, <1>3, <1>4

LEMMA StorageChecked ==
  ASSUME NEW accounts, NEW e, Holding(e, accounts), NEW s, s.op = "checkAccountStorage",
         StepResults(e, s) # {}
  PROVE  s.addr \in DOMAIN accounts /\ AgreesOnStorage(accounts[s.addr].storage, s.value)
<1>1. CheckAccountStorage(e, s) # {}
  BY DEF StepResults
<1>2. /\ s.addr \in DOMAIN accounts
      /\ RemoveReservedKeys(accounts[s.addr].storage) = RemoveEmptyBytes(s.value)
  BY <1>1, CheckHolds DEF CheckAccountStorage, Holding
<1> QED  BY <1>2, StorageAgrees

LEMMA CodeChecked ==
  ASSUME NEW accounts, NEW e, Holding(e, accounts), NEW s, s.op = "checkAccountCode",
         StepResults(e, s) # {}
  PROVE  /\ s.addr \in DOMAIN accounts
         /\ accounts[s.addr].code = {SourceName(f) : f \in s.value}
<1>1. CheckAccountCode(e, s) # {}
  BY DEF StepResults
<1> QED  BY <1>1, CheckHolds DEF CheckAccountCode, Holding

LEMMA EsdtBalanceChecked ==
  ASSUME NEW accounts, NEW e, Holding(e, accounts), NEW s, s.op = "checkAccountESDTBalance",
         NEW token, s.token = TokenBytes(token), StepResults(e, s) # {}
  PROVE  /\ s.addr \in DOMAIN accounts
         /\ EsdtBalance(accounts[s.addr], token, s.nonce) = s.balance
<1> DEFINE key == KeyWithNonce(s.token, s.nonce)
           esdt == accounts[s.addr].esdt
<1>1. CheckAccountESDTBalance(e, s) # {}
  BY DEF StepResults
<1>2. CheckAccount(e, s.addr,
        IF key \in DOMAIN esdt THEN esdt[key].balance = s.balance ELSE s.balance = 0) # {}
  BY <1>1 DEF CheckAccountESDTBalance, Holding
<1> HIDE DEF key
<1>3. /\ s.addr \in DOMAIN accounts
      /\ IF key \in DOMAIN esdt THEN esdt[key].balance = s.balance ELSE s.balance = 0
  BY <1>2, CheckHolds DEF Holding
<1> QED  BY <1>3 DEF EsdtBalance, key

LEMMA RolesChecked ==
  ASSUME NEW accounts, NEW e, Holding(e, accounts), NEW s, s.op = "checkEsdtRoles",
         NEW token, s.token = TokenBytes(token), StepResults(e, s) # {}
  PROVE  /\ s.addr \in DOMAIN accounts
         /\ KeyWithNonce(TokenBytes(token), 0) \in DOMAIN accounts[s.addr].esdt
         /\ accounts[s.addr].esdt[KeyWithNonce(TokenBytes(token), 0)].roles = s.roles
<1> DEFINE key == KeyWithNonce(s.token, 0)
           esdt == accounts[s.addr].esdt
<1>1. CheckEsdtRoles(e, s) # {}
  BY DEF StepResults
<1>2. CheckAccount(e, s.addr, key \in DOMAIN esdt /\ esdt[key].roles = s.roles) # {}
  BY <1>1 DEF CheckEsdtRoles, Holding
<1> HIDE DEF key
<1>3. s.addr \in DOMAIN accounts /\ key \in DOMAIN esdt /\ esdt[key].roles = s.roles
  BY <1>2, CheckHolds DEF Holding
<1> QED  BY <1>3 DEF key

Passed(accounts, s) ==
  \A x \in Values(s) : \E e : Holding(e, accounts) /\ StepResults(e, x) # {}

LEMMA StepSeen ==
  ASSUME NEW s, NEW x, HasPart(s, {<<x>>})
  PROVE  x \in Values(s)
<1>1. Values(<<x>>) \subseteq Values(s)
  BY DEF HasPart
<1>2. DOMAIN <<x>> = {1} /\ <<x>>[1] = x
  BY ListOne
<1> QED  BY <1>1, <1>2 DEF Values

LEMMA FieldSeen ==
  ASSUME NEW s, NEW d, NEW key, Compared(d, key), NEW op, NEW a, NEW v,
         HasPart(s, CheckIfGiven(d, key, FieldCheck(op, a, v)))
  PROVE  [op |-> op, addr |-> a, value |-> v] \in Values(s)
<1> DEFINE x == [op |-> op, addr |-> a, value |-> v]
<1>1. CheckIfGiven(d, key, FieldCheck(op, a, v)) = {<<x>>}
  BY DEF CheckIfGiven, FieldCheck
<1> HIDE DEF x
<1>2. x \in Values(s)
  BY <1>1, StepSeen
<1> QED  BY <1>2 DEF x

LEMMA PartsSeen ==
  ASSUME NEW l, NEW d, Compared(d, "esdt") => IsTokens(d.esdt), NEW s \in MandosToCheckAccount(l, d)
  PROVE  \A i \in 1..6 : HasPart(s, CheckLists(AddressBytes[l], d)[i])
<1> DEFINE a == AddressBytes[l]
           nonces == CheckIfGiven(d, "nonce", FieldCheck("checkAccountNonce", a, d.nonce))
           balances == CheckIfGiven(d, "balance", FieldCheck("checkAccountBalance", a, d.balance))
           storages == CheckIfGiven(d, "storage", FieldCheck("checkAccountStorage", a, d.storage))
           codes == CheckIfGiven(d, "code", CodeChecks(a, d))
           esdts == CheckIfGiven(d, "esdt", EsdtChecks(a, d))
           last == {<<[op |-> "checkedAccount", addr |-> a]>>}
<1>1. \A t \in nonces \cup balances \cup storages : OnlyOps(t, CheckingOps)
  BY FieldCheckOnly, IfGivenOnly
<1>2. \A t \in codes : OnlyOps(t, CheckingOps)
  <2>1. \A t \in CodeChecks(a, d) : OnlyOps(t, CheckingOps)
    BY FieldCheckOnly DEF CodeChecks
  <2> QED  BY <2>1, IfGivenOnly
<1>3. \A t \in esdts : OnlyOps(t, CheckingOps)
  BY EsdtChecksOnly, IfGivenOnly
<1>4. \A t \in last : OnlyOps(t, CheckingOps)
  BY PlainLegal, SingleStep DEF PlainOps, CheckingOps
<1>5. CheckLists(a, d) = <<nonces, balances, storages, codes, esdts, last>>
  BY DEF CheckLists
<1>6. s \in Joined(CheckLists(a, d))
  BY CheckAccountIs
<1> HIDE DEF nonces, balances, storages, codes, esdts, last
<1> DEFINE r == <<nonces, balances, storages, codes, esdts, last>>
<1>7. IsList(r) /\ DOMAIN r = {1, 2, 3, 4, 5, 6}
  BY ListSix
<1>8. \A i \in DOMAIN r : \A t \in r[i] : IsList(t)
  BY <1>1, <1>2, <1>3, <1>4, <1>7 DEF OnlyOps
<1>9. s \in Joined(r)
  BY <1>5, <1>6
<1> HIDE DEF r
<1>10. \A i \in DOMAIN r : HasPart(s, r[i])
  BY <1>7, <1>8, <1>9, JoinedParts
<1> QED  BY <1>5, <1>7, <1>10 DEF r

(* Every token of a description was compared.                                *)
LEMMA TokenSeen ==
  ASSUME NEW s, NEW a, NEW d, IsTokens(d.esdt), HasPart(s, EsdtChecks(a, d)),
         NEW token \in DOMAIN d.esdt
  PROVE  HasPart(s, CheckEsdtSteps(a, token, d.esdt[token]))
<1> DEFINE r == [t \in DOMAIN d.esdt |-> CheckEsdtSteps(a, t, d.esdt[t])]
<1>1. IsFiniteSet(DOMAIN r) /\ r[token] = CheckEsdtSteps(a, token, d.esdt[token])
      /\ token \in DOMAIN r
  BY DEF IsTokens
<1>2. \A t \in DOMAIN r : \A p \in r[t] : IsList(p)
  BY CheckEsdtOnly DEF IsTokens, OnlyOps
<1>3. EsdtChecks(a, d) = JoinedOver(r)
  BY DEF EsdtChecks
<1> HIDE DEF r
<1>4. PICK p \in JoinedOver(r) : Values(p) \subseteq Values(s)
  BY <1>3 DEF HasPart
<1>5. HasPart(p, r[token])
  BY <1>1, <1>2, JoinedOverParts
<1> QED  BY <1>1, <1>4, <1>5 DEF HasPart

LEMMA TokenStepsSeen ==
  ASSUME NEW s, NEW a, NEW token, NEW v, IsList(Get(v, "instances", <<>>)),
         HasPart(s, CheckEsdtSteps(a, token, v))
  PROVE  /\ \A i \in DOMAIN MandosToEsdtInstances(v) :
              [op |-> "checkAccountESDTBalance", addr |-> a, token |-> TokenBytes(token),
               nonce |-> MandosToEsdtInstances(v)[i].nonce,
               balance |-> MandosToEsdtInstances(v)[i].amount] \in Values(s)
         /\ "roles" \in DOMAIN v =>
              [op |-> "checkEsdtRoles", addr |-> a, token |-> TokenBytes(token),
               roles |-> v.roles] \in Values(s)
<1> DEFINE Balance(i) == [op |-> "checkAccountESDTBalance", addr |-> a,
                          token |-> TokenBytes(token),
                          nonce |-> MandosToEsdtInstances(v)[i].nonce,
                          balance |-> MandosToEsdtInstances(v)[i].amount]
           balances == [i \in DOMAIN MandosToEsdtInstances(v) |-> Balance(i)]
           role == [op |-> "checkEsdtRoles", addr |-> a, token |-> TokenBytes(token),
                    roles |-> v.roles]
           roles == MandosToEsdtRoles("checkEsdtRoles", a, token, v)
<1>1. IsList(balances)
  <2>1. IsList(MandosToEsdtInstances(v))
    BY InstancesList
  <2>2. DOMAIN MandosToEsdtInstances(v) = 1..Len(MandosToEsdtInstances(v))
        /\ Len(MandosToEsdtInstances(v)) \in Nat
    BY <2>1 DEF IsList
  <2>3. /\ DOMAIN balances = 1..Len(MandosToEsdtInstances(v))
        /\ balances = [i \in 1..Len(MandosToEsdtInstances(v)) |-> balances[i]]
    BY <2>2
  <2> HIDE DEF balances
  <2> QED  BY <2>2, <2>3, FunctionIsList
<1>2. \A t \in roles : IsList(t)
  BY RolesOnly DEF OnlyOps, CheckingOps
<1>3. CheckEsdtSteps(a, token, v) = Joined(<<{balances}, roles>>)
  BY DEF CheckEsdtSteps
<1>4. "roles" \in DOMAIN v => roles \subseteq {<<role>>}
  BY DEF MandosToEsdtRoles
<1>5. /\ DOMAIN balances = DOMAIN MandosToEsdtInstances(v)
      /\ \A i \in DOMAIN balances : balances[i] = Balance(i)
  OBVIOUS
<1> HIDE DEF Balance, balances, role, roles
<1> DEFINE r == <<{balances}, roles>>
<1>6. IsList(r) /\ DOMAIN r = {1, 2} /\ r[1] = {balances} /\ r[2] = roles
  BY ListTwo
<1>7. \A i \in DOMAIN r : \A t \in r[i] : IsList(t)
  BY <1>1, <1>2, <1>6
<1>8. CheckEsdtSteps(a, token, v) = Joined(r)
  BY <1>3
<1> HIDE DEF r
<1>9. PICK p \in Joined(r) : Values(p) \subseteq Values(s)
  BY <1>8 DEF HasPart
<1>10. HasPart(p, {balances}) /\ HasPart(p, roles)
  <2>1. p \in Joined(r)
    BY <1>9
  <2>2. \A i \in DOMAIN r : HasPart(p, r[i])
    BY <1>6, <1>7, <2>1, JoinedParts
  <2> QED  BY <1>6, <2>2
<1>11. ASSUME NEW i \in DOMAIN MandosToEsdtInstances(v) PROVE Balance(i) \in Values(s)
  <2>1. Values(balances) \subseteq Values(p)
    BY <1>10 DEF HasPart
  <2> QED  BY <1>5, <1>9, <2>1 DEF Values
<1>12. ASSUME "roles" \in DOMAIN v PROVE role \in Values(s)
  <2>1. HasPart(p, {<<role>>})
    BY <1>4, <1>10, <1>12 DEF HasPart
  <2> QED  BY <1>9, <2>1, StepSeen
<1> QED  BY <1>11, <1>12 DEF Balance, role

LEMMA InstancePassed ==
  ASSUME NEW accounts, NEW s, Passed(accounts, s), NEW a, NEW token, NEW v,
         IsList(Get(v, "instances", <<>>)), HasPart(s, CheckEsdtSteps(a, token, v)),
         NEW i \in DOMAIN MandosToEsdtInstances(v)
  PROVE  /\ a \in DOMAIN accounts
         /\ EsdtBalance(accounts[a], token, MandosToEsdtInstances(v)[i].nonce) =
              MandosToEsdtInstances(v)[i].amount
<1> DEFINE x == [op |-> "checkAccountESDTBalance", addr |-> a, token |-> TokenBytes(token),
                 nonce |-> MandosToEsdtInstances(v)[i].nonce,
                 balance |-> MandosToEsdtInstances(v)[i].amount]
<1>1. x \in Values(s)
  BY TokenStepsSeen
<1>2. /\ x.op = "checkAccountESDTBalance" /\ x.addr = a /\ x.token = TokenBytes(token)
      /\ x.nonce = MandosToEsdtInstances(v)[i].nonce
      /\ x.balance = MandosToEsdtInstances(v)[i].amount
  OBVIOUS
<1> HIDE DEF x
<1>3. PICK e : Holding(e, accounts) /\ StepResults(e, x) # {}
  BY <1>1 DEF Passed
<1> QED  BY <1>2, <1>3, EsdtBalanceChecked

LEMMA TokenAgrees ==
  ASSUME NEW accounts, NEW s, Passed(accounts, s), NEW a, NEW token, NEW v,
         IsList(Get(v, "instances", <<>>)), HasPart(s, CheckEsdtSteps(a, token, v))
  PROVE  /\ AgreesOnToken(accounts[a], token, v)
         /\ {"plain", "roles"} \cap DOMAIN v # {} \/ Get(v, "instances", <<>>) # <<>> =>
              a \in DOMAIN accounts
<1>1. ASSUME NEW i \in DOMAIN MandosToEsdtInstances(v)
      PROVE  /\ a \in DOMAIN accounts
             /\ EsdtBalance(accounts[a], token, MandosToEsdtInstances(v)[i].nonce) =
                  MandosToEsdtInstances(v)[i].amount
  BY InstancePassed
<1>2. ASSUME "roles" \in DOMAIN v
      PROVE  /\ a \in DOMAIN accounts
             /\ KeyWithNonce(TokenBytes(token), 0) \in DOMAIN accounts[a].esdt
             /\ accounts[a].esdt[KeyWithNonce(TokenBytes(token), 0)].roles = v.roles
  <2> DEFINE x == [op |-> "checkEsdtRoles", addr |-> a, token |-> TokenBytes(token),
                   roles |-> v.roles]
  <2>1. x \in Values(s)
    BY <1>2, TokenStepsSeen
  <2>2. x.op = "checkEsdtRoles" /\ x.addr = a /\ x.token = TokenBytes(token) /\ x.roles = v.roles
    OBVIOUS
  <2> HIDE DEF x
  <2>3. PICK e : Holding(e, accounts) /\ StepResults(e, x) # {}
    BY <2>1 DEF Passed
  <2> QED  BY <2>2, <2>3, RolesChecked
<1>3. CASE "plain" \in DOMAIN v
  <2>1. /\ 1 \in DOMAIN MandosToEsdtInstances(v)
        /\ MandosToEsdtInstances(v)[1].nonce = 0 /\ MandosToEsdtInstances(v)[1].amount = v.plain
    <3> DEFINE x == [nonce |-> 0, amount |-> v.plain, metadata |-> {}]
    <3>1. MandosToEsdtInstances(v) = <<x>>
      BY <1>3 DEF MandosToEsdtInstances
    <3>2. x.nonce = 0 /\ x.amount = v.plain
      OBVIOUS
    <3> HIDE DEF x
    <3> QED  BY <3>1, <3>2, ListOne
  <2>2. EsdtBalance(accounts[a], token, 0) = v.plain /\ a \in DOMAIN accounts
    BY <1>1, <2>1
  <2> QED  BY <1>2, <1>3, <2>2 DEF AgreesOnToken
<1>4. CASE "plain" \notin DOMAIN v
  <2> DEFINE list == Get(v, "instances", <<>>)
  <2>1. ASSUME NEW i \in DOMAIN list
        PROVE  /\ i \in DOMAIN MandosToEsdtInstances(v)
               /\ MandosToEsdtInstances(v)[i].nonce = Get(v.instances[i], "nonce", 0)
               /\ MandosToEsdtInstances(v)[i].amount = v.instances[i].balance
    BY <1>4 DEF MandosToEsdtInstances
  <2> HIDE DEF list
  <2>2. \A i \in DOMAIN list :
          /\ a \in DOMAIN accounts
          /\ EsdtBalance(accounts[a], token, Get(v.instances[i], "nonce", 0)) =
               v.instances[i].balance
    <3> SUFFICES ASSUME NEW i \in DOMAIN list
                 PROVE  /\ a \in DOMAIN accounts
                        /\ EsdtBalance(accounts[a], token, Get(v.instances[i], "nonce", 0)) =
                             v.instances[i].balance
      OBVIOUS
    <3>1. /\ i \in DOMAIN MandosToEsdtInstances(v)
          /\ MandosToEsdtInstances(v)[i].nonce = Get(v.instances[i], "nonce", 0)
          /\ MandosToEsdtInstances(v)[i].amount = v.instances[i].balance
      BY <2>1
    <3> QED  BY <1>1, <3>1
  <2>3. list # <<>> => a \in DOMAIN accounts
    <3> SUFFICES ASSUME list # <<>> PROVE a \in DOMAIN accounts
      OBVIOUS
    <3>1. IsList(list)
      BY DEF list
    <3>2. 1 \in 1..Len(list) /\ DOMAIN list = 1..Len(list)
      BY <3>1, TailList DEF IsList
    <3> QED  BY <2>2, <3>2
  <2>4. AgreesOnToken(accounts[a], token, v)
    BY <1>2, <1>4, <2>2 DEF AgreesOnToken, list
  <2> QED  BY <1>2, <1>4, <2>3, <2>4 DEF list
<1> QED  BY <1>3, <1>4

(* Every field that is compared was.                                         *)
LEMMA FieldsSeen ==
  ASSUME NEW l, NEW d, Compared(d, "esdt") => IsTokens(d.esdt),
         NEW s \in MandosToCheckAccount(l, d), NEW a, a = AddressBytes[l]
  PROVE  /\ HasPart(s, CheckIfGiven(d, "nonce", FieldCheck("checkAccountNonce", a, d.nonce)))
         /\ HasPart(s, CheckIfGiven(d, "balance", FieldCheck("checkAccountBalance", a, d.balance)))
         /\ HasPart(s, CheckIfGiven(d, "storage", FieldCheck("checkAccountStorage", a, d.storage)))
         /\ HasPart(s, CheckIfGiven(d, "code", CodeChecks(a, d)))
         /\ HasPart(s, CheckIfGiven(d, "esdt", EsdtChecks(a, d)))
<1>1. \A i \in 1..6 : HasPart(s, CheckLists(a, d)[i])
  BY PartsSeen
<1> DEFINE r == CheckLists(a, d)
<1>2. /\ r[1] = CheckIfGiven(d, "nonce", FieldCheck("checkAccountNonce", a, d.nonce))
      /\ r[2] = CheckIfGiven(d, "balance", FieldCheck("checkAccountBalance", a, d.balance))
      /\ r[3] = CheckIfGiven(d, "storage", FieldCheck("checkAccountStorage", a, d.storage))
      /\ r[4] = CheckIfGiven(d, "code", CodeChecks(a, d))
      /\ r[5] = CheckIfGiven(d, "esdt", EsdtChecks(a, d))
  BY DEF CheckLists
<1> HIDE DEF r
<1>3. /\ HasPart(s, r[1]) /\ HasPart(s, r[2]) /\ HasPart(s, r[3])
      /\ HasPart(s, r[4]) /\ HasPart(s, r[5])
  <2>1. 1 \in 1..6 /\ 2 \in 1..6 /\ 3 \in 1..6 /\ 4 \in 1..6 /\ 5 \in 1..6
    OBVIOUS
  <2> QED  BY <1>1, <2>1 DEF r
<1> QED  BY <1>2, <1>3

LEMMA FieldPassed ==
  ASSUME NEW accounts, NEW s, Passed(accounts, s), NEW op, NEW a, NEW v,
         [op |-> op, addr |-> a, value |-> v] \in Values(s)
  PROVE  \E e, x : /\ Holding(e, accounts) /\ StepResults(e, x) # {}
                   /\ x.op = op /\ x.addr = a /\ x.value = v
<1> DEFINE x == [op |-> op, addr |-> a, value |-> v]
<1>1. x \in Values(s) /\ x.op = op /\ x.addr = a /\ x.value = v
  OBVIOUS
<1> HIDE DEF x
<1> QED  BY <1>1 DEF Passed

(* The path of the code that was compared.                                   *)
LEMMA PathSeen ==
  ASSUME NEW s, NEW a, NEW d, HasPart(s, CodeChecks(a, d))
  PROVE  \E path \in GetContractCode(d.code) :
           [op |-> "checkAccountCode", addr |-> a, value |-> path] \in Values(s)
<1>1. PICK p \in CodeChecks(a, d) : Values(p) \subseteq Values(s)
  BY DEF HasPart
<1>2. PICK path \in GetContractCode(d.code) : p \in FieldCheck("checkAccountCode", a, path)
  BY <1>1 DEF CodeChecks
<1>3. HasPart(s, FieldCheck("checkAccountCode", a, path))
  BY <1>1, <1>2 DEF HasPart
<1> DEFINE x == [op |-> "checkAccountCode", addr |-> a, value |-> path]
<1>4. HasPart(s, {<<x>>})
  BY <1>3 DEF FieldCheck
<1> HIDE DEF x
<1>5. x \in Values(s)
  BY <1>4, StepSeen
<1> QED  BY <1>2, <1>5 DEF x

(* The code that a description names, as an account holds it.                *)
Described(code) ==
  IF code.scheme = "" THEN {} ELSE {[file |-> code.file, dir |-> "source"]}

LEMMA CodeOfPath ==
  ASSUME NEW code, NEW path \in GetContractCode(code)
  PROVE  {SourceName(f) : f \in path} = Described(code)
<1>1. CASE code.scheme = ""
  <2>1. path = {}
    BY <1>1 DEF GetContractCode
  <2> QED  BY <1>1, <2>1 DEF Described
<1>2. CASE code.scheme # ""
  <2>1. path = {code.file}
    BY <1>2 DEF GetContractCode
  <2>2. {SourceName(f) : f \in path} = {SourceName(code.file)}
    BY <2>1
  <2> QED  BY <1>2, <2>2 DEF Described, SourceName
<1> QED  BY <1>1, <1>2

LEMMA ChecksAgree ==
  ASSUME NEW accounts, NEW l, NEW d, Compared(d, "esdt") => IsTokens(d.esdt),
         NEW s \in MandosToCheckAccount(l, d), Passed(accounts, s)
  PROVE  /\ Agrees(accounts[AddressBytes[l]], d)
         /\ ComparesSomething(d) => AddressBytes[l] \in DOMAIN accounts
<1> DEFINE a == AddressBytes[l]
           acct == accounts[a]
<1>1. /\ HasPart(s, CheckIfGiven(d, "nonce", FieldCheck("checkAccountNonce", a, d.nonce)))
      /\ HasPart(s, CheckIfGiven(d, "balance", FieldCheck("checkAccountBalance", a, d.balance)))
      /\ HasPart(s, CheckIfGiven(d, "storage", FieldCheck("checkAccountStorage", a, d.storage)))
      /\ HasPart(s, CheckIfGiven(d, "code", CodeChecks(a, d)))
      /\ HasPart(s, CheckIfGiven(d, "esdt", EsdtChecks(a, d)))
  BY FieldsSeen
<1> HIDE DEF a, acct
<1>2. ASSUME NEW op, NEW v, [op |-> op, addr |-> a, value |-> v] \in Values(s)
      PROVE  \E e, x : /\ Holding(e, accounts) /\ StepResults(e, x) # {}
                       /\ x.op = op /\ x.addr = a /\ x.value = v
  BY <1>2, FieldPassed
<1>3. ASSUME Compared(d, "nonce") PROVE a \in DOMAIN accounts /\ acct.nonce = d.nonce
  <2>1. [op |-> "checkAccountNonce", addr |-> a, value |-> d.nonce] \in Values(s)
    BY <1>1, <1>3, FieldSeen
  <2> QED  BY <1>2, <2>1, NonceChecked DEF acct
<1>4. ASSUME Compared(d, "balance") PROVE a \in DOMAIN accounts /\ acct.balance = d.balance
  <2>1. [op |-> "checkAccountBalance", addr |-> a, value |-> d.balance] \in Values(s)
    BY <1>1, <1>4, FieldSeen
  <2> QED  BY <1>2, <2>1, BalanceChecked DEF acct
<1>5. ASSUME Compared(d, "storage")
      PROVE  a \in DOMAIN accounts /\ AgreesOnStorage(acct.storage, d.storage)
  <2>1. [op |-> "checkAccountStorage", addr |-> a, value |-> d.storage] \in Values(s)
    BY <1>1, <1>5, FieldSeen
  <2>2. PICK e, x : /\ Holding(e, accounts) /\ StepResults(e, x) # {}
                    /\ x.op = "checkAccountStorage" /\ x.addr = a /\ x.value = d.storage
    BY <1>2, <2>1
  <2> QED  BY <2>2, StorageChecked DEF acct
<1>6. ASSUME Compared(d, "code") PROVE a \in DOMAIN accounts /\ acct.code = Described(d.code)
  <2>1. HasPart(s, CodeChecks(a, d))
    BY <1>1, <1>6 DEF CheckIfGiven
  <2>2. PICK path \in GetContractCode(d.code) :
          [op |-> "checkAccountCode", addr |-> a, value |-> path] \in Values(s)
    BY <2>1, PathSeen
  <2>3. a \in DOMAIN accounts /\ acct.code = {SourceName(f) : f \in path}
    BY <1>2, <2>2, CodeChecked DEF acct
  <2> QED  BY <2>3, CodeOfPath
<1>7. ASSUME Compared(d, "esdt"), NEW token \in DOMAIN d.esdt
      PROVE  /\ AgreesOnToken(acct, token, d.esdt[token])
             /\ {"plain", "roles"} \cap DOMAIN d.esdt[token] # {}
                  \/ Get(d.esdt[token], "instances", <<>>) # <<>> => a \in DOMAIN accounts
  <2>1. HasPart(s, EsdtChecks(a, d))
    BY <1>1, <1>7 DEF CheckIfGiven
  <2>2. HasPart(s, CheckEsdtSteps(a, token, d.esdt[token]))
    BY <1>7, <2>1, TokenSeen
  <2>3. IsList(Get(d.esdt[token], "instances", <<>>))
    BY <1>7 DEF IsTokens
  <2> QED  BY <2>2, <2>3, TokenAgrees DEF acct
<1>8. Agrees(acct, d)
  BY <1>3, <1>4, <1>5, <1>6, <1>7 DEF Agrees, Described
<1>9. ComparesSomething(d) => a \in DOMAIN accounts
  BY <1>3, <1>4, <1>5, <1>6, <1>7 DEF ComparesSomething
<1> QED  BY <1>8, <1>9 DEF a, acct

(* ------------------------ Concatenation of results ----------------------- *)

Lists(A) == \A a \in A : IsList(a)

LEMMA ConcatListsAssoc ==
  ASSUME NEW a, NEW b, NEW c, IsList(a), IsList(b), IsList(c)
  PROVE  (a \o b) \o c = a \o (b \o c)
<1> DEFINE S == Values(a) \cup Values(b) \cup Values(c)
<1>1. a \in Seq(S) /\ b \in Seq(S) /\ c \in Seq(S)
  BY ListIsSeq, SeqMonotonic
<1> HIDE DEF S
<1> QED  BY <1>1, ConcatAssociative

LEMMA ConcatEmptyList ==
  ASSUME NEW a, IsList(a)
  PROVE  <<>> \o a = a /\ a \o <<>> = a
<1>1. a \in Seq(Values(a))
  BY ListIsSeq
<1> QED  BY <1>1, ConcatEmptySeq

LEMMA PairsLists == ASSUME NEW A, NEW B, Lists(A), Lists(B) PROVE Lists(Pairs(A, B))
<1> SUFFICES ASSUME NEW x \in Pairs(A, B) PROVE IsList(x)
  BY DEF Lists
<1>1. PICK a \in A, b \in B : x = a \o b
  BY PairsAre
<1> QED  BY <1>1, ConcatList DEF Lists

LEMMA PairsAssoc ==
  ASSUME NEW A, NEW B, NEW C, Lists(A), Lists(B), Lists(C)
  PROVE  Pairs(Pairs(A, B), C) = Pairs(A, Pairs(B, C))
<1>1. ASSUME NEW x \in Pairs(Pairs(A, B), C) PROVE x \in Pairs(A, Pairs(B, C))
  <2>1. PICK ab \in Pairs(A, B), c \in C : x = ab \o c
    BY PairsAre
  <2>2. PICK a \in A, b \in B : ab = a \o b
    <3>1. \E a \in A : \E b \in B : ab = a \o b
      BY InPairs
    <3> QED  BY <3>1
  <2>3. x = a \o (b \o c)
    BY <2>1, <2>2, ConcatListsAssoc DEF Lists
  <2>4. b \o c \in Pairs(B, C)
    BY PairsAre
  <2> QED  BY <2>3, <2>4, PairsAre
<1>2. ASSUME NEW x \in Pairs(A, Pairs(B, C)) PROVE x \in Pairs(Pairs(A, B), C)
  <2>1. PICK a \in A, bc \in Pairs(B, C) : x = a \o bc
    BY PairsAre
  <2>2. PICK b \in B, c \in C : bc = b \o c
    <3>1. \E b \in B : \E c \in C : bc = b \o c
      BY InPairs
    <3> QED  BY <3>1
  <2>3. x = (a \o b) \o c
    BY <2>1, <2>2, ConcatListsAssoc DEF Lists
  <2>4. a \o b \in Pairs(A, B)
    BY PairsAre
  <2> QED  BY <2>3, <2>4, PairsAre
<1> QED  BY <1>1, <1>2

LEMMA PairsUnit ==
  ASSUME NEW A, Lists(A)
  PROVE  Pairs({<<>>}, A) = A /\ Pairs(A, {<<>>}) = A
BY ConcatEmptyList DEF Pairs, Lists

LEMMA PairsOne ==
  /\ \A a, b : Pairs({a}, {b}) = {a \o b}
  /\ \A A : Pairs({}, A) = {} /\ Pairs(A, {}) = {}
BY DEF Pairs

LEMMA ConsList ==
  ASSUME NEW x, NEW s, IsList(s)
  PROVE  /\ IsList(<<x>> \o s) /\ <<x>> \o s # <<>>
         /\ Head(<<x>> \o s) = x /\ Tail(<<x>> \o s) = s
<1> DEFINE S == Values(s) \cup {x}
           t == <<x>> \o s
<1>1. s \in Seq(S) /\ <<x>> \in Seq(S)
  BY ListIsSeq, SeqMonotonic
<1>2. /\ IsList(<<x>>) /\ Len(<<x>>) = 1 /\ <<x>>[1] = x /\ Len(s) \in Nat
      /\ s = [i \in 1..Len(s) |-> s[i]]
  BY ListOne DEF IsList
<1>3. /\ IsList(t) /\ Len(t) = 1 + Len(s) /\ DOMAIN t = 1..(1 + Len(s))
      /\ \A i \in 1..(1 + Len(s)) : t[i] = IF i <= 1 THEN <<x>>[i] ELSE s[i - 1]
  BY <1>2, ConcatList
<1> HIDE DEF t
<1>4. t # <<>>
  BY <1>2, <1>3, EmptyList
<1>5. /\ IsList(Tail(t)) /\ Len(Tail(t)) = Len(s)
      /\ Head(t) = t[1] /\ \A i \in 1..Len(s) : Tail(t)[i] = t[i + 1]
  BY <1>2, <1>3, <1>4, TailList
<1>6. Head(t) = x
  <2>1. 1 \in 1..(1 + Len(s))
    BY <1>2
  <2> QED  BY <1>2, <1>3, <1>5, <2>1
<1>7. \A i \in 1..Len(s) : Tail(t)[i] = s[i]
  <2> SUFFICES ASSUME NEW i \in 1..Len(s) PROVE Tail(t)[i] = s[i]
    OBVIOUS
  <2>1. i + 1 \in 1..(1 + Len(s)) /\ ~ (i + 1 <= 1) /\ (i + 1) - 1 = i
    BY <1>2
  <2> QED  BY <1>3, <1>5, <2>1
<1>8. Tail(t) = s
  <2>1. Tail(t) = [i \in 1..Len(s) |-> Tail(t)[i]]
    BY <1>5 DEF IsList
  <2> QED  BY <1>2, <1>7, <2>1
<1> QED  BY <1>3, <1>4, <1>6, <1>8 DEF t

(* Lists of results are joined from the first one on as well.                *)
LEMMA JoinedHead ==
  ASSUME NEW r, IsList(r), r # <<>>, \A i \in 1..Len(r) : Lists(r[i])
  PROVE  Joined(r) = Pairs(r[1], Joined(Tail(r)))
<1> DEFINE t == Tail(r)
<1>1. /\ IsList(t) /\ Len(t) = Len(r) - 1 /\ Len(r) \in Nat /\ Len(r) >= 1
      /\ \A i \in 1..(Len(r) - 1) : t[i] = r[i + 1]
  BY TailList DEF IsList
<1> HIDE DEF t
<1>2. /\ Joined(t) = JoinedTo(t, Len(t)) /\ JoinedTo(t, 0) = {<<>>}
      /\ \A n \in 1..Len(t) : JoinedTo(t, n) = Pairs(JoinedTo(t, n - 1), t[n])
  BY <1>1, JoinedSteps
<1>3. /\ Joined(r) = JoinedTo(r, Len(r)) /\ JoinedTo(r, 0) = {<<>>}
      /\ \A n \in 1..Len(r) : JoinedTo(r, n) = Pairs(JoinedTo(r, n - 1), r[n])
  BY JoinedSteps
<1> DEFINE Same(n) == Lists(JoinedTo(t, n)) /\ JoinedTo(r, n + 1) = Pairs(r[1], JoinedTo(t, n))
           Bad == {n \in 0..Len(t) : ~ Same(n)}
<1>4. Bad = {}
  <2> SUFFICES ASSUME Bad # {} PROVE FALSE
    OBVIOUS
  <2>1. PICK n \in Bad : \A m \in Bad : n <= m
    <3>1. Bad \in SUBSET Nat
      BY <1>1
    <3> HIDE DEF Bad
    <3> QED  BY <3>1, LeastNat
  <2>2. ~ Same(n) /\ n \in 0..Len(t)
    OBVIOUS
  <2>3. CASE n = 0
    <3>1. 1 \in 1..Len(r) /\ 1 - 1 = 0
      BY <1>1
    <3>2. JoinedTo(r, 1) = Pairs({<<>>}, r[1])
      BY <1>3, <3>1
    <3>3. JoinedTo(r, 1) = r[1] /\ Pairs(r[1], {<<>>}) = r[1]
      BY <3>1, <3>2, PairsUnit
    <3>4. Lists({<<>>})
      BY EmptyList DEF Lists
    <3>5. Same(0)
      <4>1. 0 + 1 = 1
        OBVIOUS
      <4> QED  BY <1>2, <3>3, <3>4, <4>1
    <3> HIDE DEF Same
    <3> QED  BY <2>2, <2>3, <3>5
  <2>4. CASE n # 0
    <3>1. n \in 1..Len(t) /\ n - 1 \in 0..Len(t) /\ n - 1 \notin Bad /\ (n - 1) + 1 = n
      BY <1>1, <2>1, <2>4
    <3> HIDE DEF Bad
    <3>2. Same(n - 1)
      BY <3>1 DEF Bad
    <3>3. n + 1 \in 1..Len(r) /\ (n + 1) - 1 = n /\ t[n] = r[n + 1] /\ 1 \in 1..Len(r)
      BY <1>1, <3>1
    <3>4. JoinedTo(r, n + 1) = Pairs(JoinedTo(r, n), t[n])
      BY <1>3, <3>3
    <3>5. JoinedTo(r, n) = Pairs(r[1], JoinedTo(t, n - 1)) /\ Lists(JoinedTo(t, n - 1))
      BY <3>1, <3>2
    <3>6. JoinedTo(t, n) = Pairs(JoinedTo(t, n - 1), t[n])
      BY <1>2, <3>1
    <3>7. Lists(r[1]) /\ Lists(t[n])
      BY <3>3
    <3> QED  BY <2>2, <3>4, <3>5, <3>6, <3>7, PairsAssoc, PairsLists
  <2> QED  BY <2>3, <2>4
<1>5. Same(Len(t))
  <2>1. Len(t) \in 0..Len(t)
    BY <1>1
  <2> HIDE DEF Same
  <2> QED  BY <1>4, <2>1
<1>6. Len(t) + 1 = Len(r)
  BY <1>1
<1> QED  BY <1>2, <1>3, <1>5, <1>6 DEF t

LEMMA JoinedNone == Joined(<<>>) = {<<>>}
BY EmptyList, JoinedSteps

(* ----------------------- One list of several, again ---------------------- *)

LEMMA FlattenShort ==
  /\ FlattenSeq(<<>>) = <<>>
  /\ \A s : FlattenSeq(<<s>>) = s
<1>1. FlattenSeq(<<>>) = <<>>
  BY EmptyList, FlattenIs
<1>2. ASSUME NEW s PROVE FlattenSeq(<<s>>) = s
  <2> DEFINE ks == <<s>>
  <2>1. IsList(ks) /\ Len(ks) = 1 /\ ks[1] = s /\ 1 \in 1..1
    BY ListOne
  <2> HIDE DEF ks
  <2> QED  BY <2>1, FlattenIs DEF ks
<1> QED  BY <1>1, <1>2

(* What lists are flattened to is what their singletons are joined to.       *)
Singletons(ks) == [i \in 1..Len(ks) |-> {ks[i]}]

LEMMA FlattenJoins ==
  ASSUME NEW ks, IsList(ks), \A i \in 1..Len(ks) : IsList(ks[i])
  PROVE  Joined(Singletons(ks)) = {FlattenSeq(ks)} /\ IsList(FlattenSeq(ks))
<1> DEFINE r == Singletons(ks)
<1>1. Len(ks) \in Nat
  BY DEF IsList
<1>2. /\ DOMAIN r = 1..Len(ks) /\ r = [i \in 1..Len(ks) |-> r[i]]
      /\ \A i \in 1..Len(ks) : r[i] = {ks[i]}
  BY DEF Singletons
<1> HIDE DEF r
<1>3. IsList(r) /\ Len(r) = Len(ks)
  BY <1>1, <1>2, FunctionIsList
<1>4. /\ Joined(r) = JoinedTo(r, Len(ks)) /\ JoinedTo(r, 0) = {<<>>}
      /\ \A n \in 1..Len(ks) : JoinedTo(r, n) = Pairs(JoinedTo(r, n - 1), r[n])
  BY <1>3, JoinedSteps
<1>5. /\ Len(ks) = 0 => FlattenSeq(ks) = <<>>
      /\ Len(ks) # 0 => FlattenSeq(ks) = Flat(ks)[Len(ks)]
      /\ \A i \in 1..Len(ks) :
           Flat(ks)[i] = IF i = 1 THEN ks[i] ELSE Flat(ks)[i - 1] \o ks[i]
  BY FlattenIs
<1> DEFINE Same(n) == IsList(Flat(ks)[n]) /\ JoinedTo(r, n) = {Flat(ks)[n]}
           Bad == {n \in 1..Len(ks) : ~ Same(n)}
<1>6. Bad = {}
  <2> SUFFICES ASSUME Bad # {} PROVE FALSE
    OBVIOUS
  <2>1. PICK n \in Bad : \A m \in Bad : n <= m
    <3>1. Bad \in SUBSET Nat
      BY <1>1
    <3> HIDE DEF Bad
    <3> QED  BY <3>1, LeastNat
  <2>2. ~ Same(n) /\ n \in 1..Len(ks)
    OBVIOUS
  <2>3. JoinedTo(r, n) = Pairs(JoinedTo(r, n - 1), {ks[n]}) /\ IsList(ks[n])
    BY <1>2, <1>4, <2>2
  <2>4. CASE n = 1
    <3>1. n - 1 = 0 /\ Flat(ks)[n] = ks[n]
      BY <1>5, <2>2, <2>4
    <3>2. JoinedTo(r, n) = {<<>> \o ks[n]}
      <4>1. JoinedTo(r, n - 1) = {<<>>}
        BY <1>4, <3>1
      <4>2. Pairs({<<>>}, {ks[n]}) = {<<>> \o ks[n]}
        BY PairsOne
      <4> QED  BY <2>3, <4>1, <4>2
    <3> QED  BY <2>2, <2>3, <3>1, <3>2, ConcatEmptyList
  <2>5. CASE n # 1
    <3>1. n - 1 \in 1..Len(ks) /\ n - 1 \notin Bad
      BY <1>1, <2>1, <2>5
    <3>2. Same(n - 1)
      BY <3>1
    <3>3. Flat(ks)[n] = Flat(ks)[n - 1] \o ks[n]
      BY <1>5, <2>2, <2>5
    <3>4. JoinedTo(r, n) = {Flat(ks)[n - 1] \o ks[n]}
      BY <2>3, <3>2, PairsOne
    <3>5. IsList(Flat(ks)[n - 1] \o ks[n])
      BY <2>3, <3>2, ConcatList
    <3> QED  BY <2>2, <3>3, <3>4, <3>5
  <2> QED  BY <2>4, <2>5
<1>7. CASE Len(ks) = 0
  BY <1>4, <1>5, <1>7, EmptyList DEF r
<1>8. CASE Len(ks) # 0
  <2>1. Len(ks) \in 1..Len(ks)
    BY <1>1, <1>8
  <2>2. Same(Len(ks))
    BY <1>6, <2>1
  <2> QED  BY <1>4, <1>5, <1>8, <2>2 DEF r
<1> QED  BY <1>7, <1>8

LEMMA FlattenHead ==
  ASSUME NEW ks, IsList(ks), ks # <<>>, \A i \in 1..Len(ks) : IsList(ks[i])
  PROVE  FlattenSeq(ks) = Head(ks) \o FlattenSeq(Tail(ks))
<1> DEFINE t == Tail(ks)
           r == Singletons(ks)
<1>1. /\ IsList(t) /\ Len(t) = Len(ks) - 1 /\ Len(ks) \in Nat /\ Len(ks) >= 1
      /\ Head(ks) = ks[1] /\ \A i \in 1..(Len(ks) - 1) : t[i] = ks[i + 1]
  BY TailList DEF IsList
<1> HIDE DEF t
<1>2. /\ DOMAIN r = 1..Len(ks) /\ r = [i \in 1..Len(ks) |-> r[i]]
      /\ \A i \in 1..Len(ks) : r[i] = {ks[i]}
  BY DEF Singletons
<1> HIDE DEF r
<1>3. IsList(r) /\ Len(r) = Len(ks)
  BY <1>1, <1>2, FunctionIsList
<1>4. r # <<>>
  BY <1>1, <1>3, EmptyList
<1>5. \A i \in 1..Len(r) : Lists(r[i])
  BY <1>2, <1>3 DEF Lists
<1>6. Tail(r) = Singletons(t)
  <2>1. /\ IsList(Tail(r)) /\ Len(Tail(r)) = Len(t)
        /\ \A i \in 1..Len(t) : Tail(r)[i] = r[i + 1]
    BY <1>1, <1>3, <1>4, TailList
  <2>2. \A i \in 1..Len(t) : i + 1 \in 1..Len(ks) /\ t[i] = ks[i + 1]
    BY <1>1
  <2>3. \A i \in 1..Len(t) : Tail(r)[i] = {t[i]}
    BY <1>2, <2>1, <2>2
  <2>4. Tail(r) = [i \in 1..Len(t) |-> Tail(r)[i]]
    BY <2>1 DEF IsList
  <2> QED  BY <2>3, <2>4 DEF Singletons
<1>7. Joined(r) = Pairs({ks[1]}, Joined(Singletons(t)))
  <2>1. 1 \in 1..Len(ks)
    BY <1>1
  <2> QED  BY <1>2, <1>3, <1>4, <1>5, <1>6, <2>1, JoinedHead
<1>8. Joined(Singletons(t)) = {FlattenSeq(t)}
  <2>1. \A i \in 1..Len(t) : i + 1 \in 1..Len(ks) /\ t[i] = ks[i + 1]
    BY <1>1
  <2>2. \A i \in 1..Len(t) : IsList(t[i])
    BY <2>1
  <2> QED  BY <1>1, <2>2, FlattenJoins
<1>9. Joined(r) = {FlattenSeq(ks)}
  BY FlattenJoins DEF r
<1>10. {FlattenSeq(ks)} = {ks[1] \o FlattenSeq(t)}
  BY <1>7, <1>8, <1>9, PairsOne
<1> QED  BY <1>1, <1>10 DEF t

LEMMA FlattenAppend ==
  ASSUME NEW ks, IsList(ks), \A i \in 1..Len(ks) : IsList(ks[i]), NEW s, IsList(s)
  PROVE  FlattenSeq(Append(ks, s)) = FlattenSeq(ks) \o s
<1> DEFINE new == Append(ks, s)
<1>1. /\ IsList(new) /\ Len(new) = Len(ks) + 1 /\ Len(ks) \in Nat
      /\ \A i \in 1..Len(ks) : new[i] = ks[i]
      /\ new[Len(ks) + 1] = s
  BY AppendList DEF IsList
<1> HIDE DEF new
<1>2. \A i \in 1..Len(new) : IsList(new[i])
  <2> SUFFICES ASSUME NEW i \in 1..Len(new) PROVE IsList(new[i])
    OBVIOUS
  <2>1. i \in 1..Len(ks) \/ i = Len(ks) + 1
    BY <1>1
  <2> QED  BY <1>1, <2>1
<1>3. /\ \A i \in 1..Len(ks) :
           Flat(ks)[i] = IF i = 1 THEN ks[i] ELSE Flat(ks)[i - 1] \o ks[i]
      /\ \A i \in 1..Len(new) :
           Flat(new)[i] = IF i = 1 THEN new[i] ELSE Flat(new)[i - 1] \o new[i]
  BY <1>1, FlattenIs
<1> DEFINE Bad == {i \in 1..Len(ks) : Flat(new)[i] # Flat(ks)[i]}
<1>4. Bad = {}
  <2> SUFFICES ASSUME Bad # {} PROVE FALSE
    OBVIOUS
  <2>1. PICK n \in Bad : \A m \in Bad : n <= m
    <3>1. Bad \in SUBSET Nat
      BY <1>1
    <3> HIDE DEF Bad
    <3> QED  BY <3>1, LeastNat
  <2>2. n \in 1..Len(ks) /\ n \in 1..Len(new) /\ Flat(new)[n] # Flat(ks)[n] /\ new[n] = ks[n]
    BY <1>1
  <2>3. CASE n = 1
    BY <1>3, <2>2, <2>3
  <2>4. CASE n # 1
    <3>1. n - 1 \in 1..Len(ks) /\ n - 1 \notin Bad
      BY <1>1, <2>1, <2>4
    <3> QED  BY <1>3, <2>2, <2>4, <3>1
  <2> QED  BY <2>3, <2>4
<1>5. CASE Len(ks) = 0
  <2>1. 1 \in 1..Len(new) /\ Len(new) = 1 /\ new[1] = s
    BY <1>1, <1>5
  <2>2. FlattenSeq(new) = s /\ FlattenSeq(ks) = <<>>
    BY <1>1, <1>3, <1>5, <2>1, FlattenIs
  <2> QED  BY <2>2, ConcatEmptyList DEF new
<1>6. CASE Len(ks) # 0
  <2>1. /\ Len(new) \in 1..Len(new) /\ Len(new) # 1 /\ Len(new) # 0 /\ Len(new) - 1 = Len(ks)
        /\ Len(ks) \in 1..Len(ks)
    BY <1>1, <1>6
  <2>2. FlattenSeq(new) = Flat(new)[Len(ks)] \o s
    BY <1>1, <1>3, <2>1, FlattenIs
  <2>3. Flat(new)[Len(ks)] = FlattenSeq(ks)
    BY <1>4, <1>6, <2>1, FlattenIs
  <2> QED  BY <2>2, <2>3 DEF new
<1> QED  BY <1>5, <1>6

LEMMA JoinedLists ==
  ASSUME NEW r, IsList(r), \A i \in 1..Len(r) : Lists(r[i])
  PROVE  Lists(Joined(r))
<1> DEFINE Bad == {n \in 0..Len(r) : ~ Lists(JoinedTo(r, n))}
<1>1. Len(r) \in Nat
  BY DEF IsList
<1>2. Bad = {}
  <2> SUFFICES ASSUME Bad # {} PROVE FALSE
    OBVIOUS
  <2>1. PICK n \in Bad : \A m \in Bad : n <= m
    <3>1. Bad \in SUBSET Nat
      BY <1>1
    <3> HIDE DEF Bad
    <3> QED  BY <3>1, LeastNat
  <2>2. n # 0
    BY JoinedSteps, EmptyList DEF Lists
  <2>3. n \in 1..Len(r) /\ n - 1 \in 0..Len(r) /\ n - 1 \notin Bad
    BY <1>1, <2>1, <2>2
  <2>4. JoinedTo(r, n) = Pairs(JoinedTo(r, n - 1), r[n])
    BY <2>3, JoinedSteps
  <2>5. Lists(JoinedTo(r, n - 1)) /\ Lists(r[n])
    BY <2>3
  <2>6. Lists(JoinedTo(r, n))
    BY <2>4, <2>5, PairsLists
  <2> QED  BY <2>1, <2>6
<1>3. Len(r) \in 0..Len(r)
  BY <1>1
<1> QED  BY <1>2, <1>3, JoinedSteps

(* --------------------------- What a file means --------------------------- *)

ProgramOf(fs, p, steps) == Joined([i \in DOMAIN steps |-> Expanded(steps[i], fs, p)])
MeaningOn(fs, D, p) == p = [file \in D |-> ProgramOf(fs, p, fs[file])]

LEMMA ProgramsChosen == \A fs : Programs(fs) = CHOOSE p : MeaningOn(fs, DOMAIN fs, p)
BY DEF Programs, MeaningOn, ProgramOf

Ranks(fs, rank) ==
  /\ rank \in [DOMAIN fs -> Nat]
  /\ \A f \in DOMAIN fs : \A i \in DOMAIN fs[f] :
       IsExternal(fs[f][i]) /\ fs[f][i].path \in DOMAIN fs =>
         rank[fs[f][i].path] < rank[f]

LEMMA RankExists ==
  ASSUME NEW fs \in FileSystems
  PROVE  \E n \in Nat : \E rank : Ranks(fs, rank) /\ \A f \in DOMAIN fs : rank[f] < n
<1>1. /\ IsFiniteSet(DOMAIN fs)
      /\ \E rank \in [DOMAIN fs -> 0..Cardinality(DOMAIN fs)] :
           \A f \in DOMAIN fs : \A i \in DOMAIN fs[f] :
             IsExternal(fs[f][i]) /\ fs[f][i].path \in DOMAIN fs =>
               rank[fs[f][i].path] < rank[f]
  BY InclusionAssumption
<1> DEFINE N == Cardinality(DOMAIN fs)
<1>2. N \in Nat
  BY <1>1, FS_CardinalityType
<1>3. PICK rank \in [DOMAIN fs -> 0..N] :
        \A f \in DOMAIN fs : \A i \in DOMAIN fs[f] :
          IsExternal(fs[f][i]) /\ fs[f][i].path \in DOMAIN fs =>
            rank[fs[f][i].path] < rank[f]
  BY <1>1
<1> HIDE DEF N
<1>4. rank \in [DOMAIN fs -> Nat] /\ N + 1 \in Nat /\ \A f \in DOMAIN fs : rank[f] < N + 1
  BY <1>2, <1>3
<1> QED  BY <1>3, <1>4 DEF Ranks

LEMMA MeaningExists ==
  ASSUME NEW fs \in FileSystems
  PROVE  \E p : MeaningOn(fs, DOMAIN fs, p)
<1>0. PICK top \in Nat : \E rank : Ranks(fs, rank) /\ \A f \in DOMAIN fs : rank[f] < top
  BY RankExists
<1>1. PICK rank : Ranks(fs, rank) /\ \A f \in DOMAIN fs : rank[f] < top
  BY <1>0
<1> DEFINE Below(n) == {f \in DOMAIN fs : rank[f] < n}
           Missing == {n \in Nat : ~ \E p : MeaningOn(fs, Below(n), p)}
<1>2. Missing = {}
  <2> SUFFICES ASSUME Missing # {} PROVE FALSE
    OBVIOUS
  <2>1. PICK n \in Missing : \A m \in Missing : n <= m
    <3>1. Missing \in SUBSET Nat
      OBVIOUS
    <3> HIDE DEF Missing
    <3> QED  BY <3>1, LeastNat
  <2>2. CASE n = 0
    <3>1. Below(0) = {}
      BY <1>1 DEF Ranks
    <3> DEFINE h == [file \in {} |-> {}]
    <3>2. h = [file \in {} |-> ProgramOf(fs, h, fs[file])]
      OBVIOUS
    <3> HIDE DEF h
    <3>3. MeaningOn(fs, {}, h)
      BY <3>2 DEF MeaningOn
    <3> QED  BY <2>1, <2>2, <3>1, <3>3
  <2>3. CASE n # 0
    <3>1. n - 1 \in Nat /\ n - 1 \notin Missing
      BY <2>1, <2>3
    <3>2. PICK g : MeaningOn(fs, Below(n - 1), g)
      BY <3>1
    <3>3. \A f \in Below(n - 1) : g[f] = ProgramOf(fs, g, fs[f])
      <4> DEFINE D == Below(n - 1)
      <4> HIDE DEF Below
      <4> QED  BY <3>2, Zenon DEF MeaningOn
    <3> DEFINE h == [file \in Below(n) |-> ProgramOf(fs, g, fs[file])]
    <3>4. \A f \in Below(n - 1) : h[f] = g[f]
      <4>1. \A f \in Below(n - 1) : f \in Below(n)
        BY <1>1, <3>1 DEF Ranks
      <4> HIDE DEF Below
      <4> QED  BY <3>3, <4>1
    <3>5. ASSUME NEW f \in Below(n) PROVE ProgramOf(fs, g, fs[f]) = ProgramOf(fs, h, fs[f])
      <4>1. ASSUME NEW i \in DOMAIN fs[f]
            PROVE  Expanded(fs[f][i], fs, g) = Expanded(fs[f][i], fs, h)
        <5>1. CASE IsExternal(fs[f][i]) /\ fs[f][i].path \in DOMAIN fs
          <6>1. fs[f][i].path \in Below(n - 1)
            <7>1. rank[fs[f][i].path] < rank[f] /\ rank[f] < n
              BY <1>1, <5>1 DEF Ranks
            <7>2. rank[fs[f][i].path] \in Nat /\ rank[f] \in Nat
              BY <1>1, <5>1 DEF Ranks
            <7> QED  BY <3>1, <5>1, <7>1, <7>2
          <6>2. h[fs[f][i].path] = g[fs[f][i].path]
            BY <3>4, <6>1
          <6> HIDE DEF h
          <6> QED  BY <5>1, <6>2 DEF Expanded
        <5>2. CASE ~ (IsExternal(fs[f][i]) /\ fs[f][i].path \in DOMAIN fs)
          BY <5>2 DEF Expanded
        <5> QED  BY <5>1, <5>2
      <4> HIDE DEF h
      <4> QED  BY <4>1 DEF ProgramOf
    <3>6. MeaningOn(fs, Below(n), h)
      <4> HIDE DEF Below
      <4>1. h = [file \in Below(n) |-> ProgramOf(fs, h, fs[file])]
        BY <3>5, Zenon
      <4> HIDE DEF h
      <4> QED  BY <4>1 DEF MeaningOn
    <3> QED  BY <2>1, <3>6
  <2> QED  BY <2>2, <2>3
<1>3. Below(top) = DOMAIN fs
  BY <1>1
<1>4. \E p : MeaningOn(fs, Below(top), p)
  BY <1>2
<1> QED  BY <1>3, <1>4

Expansion(fs, step) == Expanded(step, fs, Programs(fs))
Program(fs, steps) == ProgramOf(fs, Programs(fs), steps)

(* A file means the lists that its steps are joined to.                      *)
LEMMA ProgramsAre ==
  ASSUME NEW fs \in FileSystems, NEW f \in DOMAIN fs
  PROVE  Programs(fs)[f] = Program(fs, fs[f])
<1>1. MeaningOn(fs, DOMAIN fs, Programs(fs))
  BY MeaningExists, ProgramsChosen
<1> DEFINE p == Programs(fs)
<1> HIDE DEF p
<1>2. p[f] = ProgramOf(fs, p, fs[f])
  BY <1>1 DEF MeaningOn, p
<1> QED  BY <1>2 DEF p, Program

LEMMA ProgramJoins ==
  ASSUME NEW fs, NEW steps, IsList(steps)
  PROVE  LET r == [i \in 1..Len(steps) |-> Expansion(fs, steps[i])]
         IN  /\ IsList(r) /\ Len(r) = Len(steps) /\ Program(fs, steps) = Joined(r)
             /\ \A i \in 1..Len(steps) : r[i] = Expansion(fs, steps[i])
<1> DEFINE r == [i \in 1..Len(steps) |-> Expansion(fs, steps[i])]
<1>1. Len(steps) \in Nat /\ DOMAIN steps = 1..Len(steps)
  BY DEF IsList
<1>2. Program(fs, steps) = Joined(r)
  BY <1>1 DEF Program, ProgramOf, Expansion
<1>3. /\ DOMAIN r = 1..Len(steps) /\ r = [i \in 1..Len(steps) |-> r[i]]
      /\ \A i \in 1..Len(steps) : r[i] = Expansion(fs, steps[i])
  OBVIOUS
<1> HIDE DEF r
<1>4. IsList(r) /\ Len(r) = Len(steps)
  BY <1>1, <1>3, FunctionIsList
<1> QED  BY <1>2, <1>3, <1>4 DEF r

LEMMA TranslationLists == ASSUME NEW step, IsJsonStep(step) PROVE Lists(GetSteps(step))
BY TranslationsAreGood DEF Lists, Good, Legal

LEMMA ProgramsAreLists ==
  ASSUME NEW fs \in FileSystems
  PROVE  \A f \in DOMAIN fs : Lists(Programs(fs)[f])
<1>0. PICK top \in Nat : \E rank : Ranks(fs, rank) /\ \A f \in DOMAIN fs : rank[f] < top
  BY RankExists
<1>1. PICK rank : Ranks(fs, rank) /\ \A f \in DOMAIN fs : rank[f] < top
  BY <1>0
<1> DEFINE Bad == {n \in Nat : \E f \in DOMAIN fs : rank[f] = n /\ ~ Lists(Programs(fs)[f])}
<1> SUFFICES ASSUME Bad # {} PROVE FALSE
  BY <1>1 DEF Ranks
<1>2. PICK n \in Bad : \A m \in Bad : n <= m
  <2>1. Bad \in SUBSET Nat
    OBVIOUS
  <2> HIDE DEF Bad
  <2> QED  BY <2>1, LeastNat
<1>3. PICK f \in DOMAIN fs : rank[f] = n /\ ~ Lists(Programs(fs)[f])
  BY <1>2
<1>4. IsJsonFile(fs[f])
  BY InputAssumption, ListIsSeq DEF IsJsonFile
<1>5. ASSUME NEW i \in 1..Len(fs[f]) PROVE Lists(Expansion(fs, fs[f][i]))
  <2>1. CASE ~ IsExternal(fs[f][i])
    <3>1. Expansion(fs, fs[f][i]) = GetSteps(fs[f][i])
      BY <2>1 DEF Expansion, Expanded
    <3> QED  BY <1>4, <3>1, TranslationLists DEF IsJsonFile
  <2>2. CASE IsExternal(fs[f][i]) /\ fs[f][i].path \in DOMAIN fs
    <3>1. Expansion(fs, fs[f][i]) = Programs(fs)[fs[f][i].path]
      BY <2>2 DEF Expansion, Expanded
    <3>2. i \in DOMAIN fs[f]
      BY <1>4 DEF IsJsonFile, IsList
    <3>3. rank[fs[f][i].path] < n /\ rank[fs[f][i].path] \in Nat
      BY <1>1, <1>3, <2>2, <3>2 DEF Ranks
    <3>4. rank[fs[f][i].path] \notin Bad
      BY <1>2, <3>3
    <3> QED  BY <2>2, <3>1, <3>3, <3>4
  <2>3. CASE IsExternal(fs[f][i]) /\ fs[f][i].path \notin DOMAIN fs
    <3>1. Expansion(fs, fs[f][i]) = {}
      BY <2>3 DEF Expansion, Expanded
    <3> QED  BY <3>1 DEF Lists
  <2> QED  BY <2>1, <2>2, <2>3
<1>6. Lists(Program(fs, fs[f]))
  <2> DEFINE r == [i \in 1..Len(fs[f]) |-> Expansion(fs, fs[f][i])]
  <2>1. /\ IsList(r) /\ Len(r) = Len(fs[f]) /\ Program(fs, fs[f]) = Joined(r)
        /\ \A i \in 1..Len(fs[f]) : r[i] = Expansion(fs, fs[f][i])
    BY <1>4, ProgramJoins DEF IsJsonFile
  <2> HIDE DEF r
  <2> QED  BY <1>5, <2>1, JoinedLists
<1> QED  BY <1>3, <1>6, ProgramsAre

LEMMA ExpansionLists ==
  ASSUME NEW fs \in FileSystems, NEW step, IsJsonStep(step)
  PROVE  Lists(Expansion(fs, step))
<1>1. CASE ~ IsExternal(step)
  BY <1>1, TranslationLists DEF Expansion, Expanded
<1>2. CASE IsExternal(step) /\ step.path \in DOMAIN fs
  BY <1>2, ProgramsAreLists DEF Expansion, Expanded
<1>3. CASE IsExternal(step) /\ step.path \notin DOMAIN fs
  <2>1. Expansion(fs, step) = {}
    BY <1>3 DEF Expansion, Expanded
  <2> QED  BY <2>1 DEF Lists
<1> QED  BY <1>1, <1>2, <1>3

LEMMA ProgramLists ==
  ASSUME NEW fs \in FileSystems, NEW steps, IsJsonFile(steps)
  PROVE  Lists(Program(fs, steps))
<1> DEFINE r == [i \in 1..Len(steps) |-> Expansion(fs, steps[i])]
<1>1. /\ IsList(r) /\ Len(r) = Len(steps) /\ Program(fs, steps) = Joined(r)
      /\ \A i \in 1..Len(steps) : r[i] = Expansion(fs, steps[i])
  BY ProgramJoins DEF IsJsonFile
<1> HIDE DEF r
<1>2. \A i \in 1..Len(r) : Lists(r[i])
  BY <1>1, ExpansionLists DEF IsJsonFile
<1> QED  BY <1>1, <1>2, JoinedLists

LEMMA ProgramHead ==
  ASSUME NEW fs \in FileSystems, NEW steps, IsJsonFile(steps), steps # <<>>
  PROVE  Program(fs, steps) = Pairs(Expansion(fs, Head(steps)), Program(fs, Tail(steps)))
<1> DEFINE t == Tail(steps)
           r == [i \in 1..Len(steps) |-> Expansion(fs, steps[i])]
           q == [i \in 1..Len(t) |-> Expansion(fs, t[i])]
<1>1. /\ IsList(t) /\ Len(t) = Len(steps) - 1 /\ Len(steps) >= 1 /\ Len(steps) \in Nat
      /\ Head(steps) = steps[1] /\ \A i \in 1..(Len(steps) - 1) : t[i] = steps[i + 1]
  BY TailList DEF IsJsonFile, IsList
<1>2. /\ IsList(r) /\ Len(r) = Len(steps) /\ Program(fs, steps) = Joined(r)
      /\ \A i \in 1..Len(steps) : r[i] = Expansion(fs, steps[i])
  BY ProgramJoins DEF IsJsonFile
<1> HIDE DEF r, t
<1>3. /\ IsList(q) /\ Len(q) = Len(t) /\ Program(fs, t) = Joined(q)
      /\ \A i \in 1..Len(t) : q[i] = Expansion(fs, t[i])
  BY <1>1, ProgramJoins
<1> HIDE DEF q
<1>4. \A i \in 1..Len(r) : Lists(r[i])
  BY <1>2, ExpansionLists DEF IsJsonFile
<1>5. r # <<>>
  BY <1>1, <1>2, EmptyList
<1>6. Tail(r) = q
  <2>1. /\ IsList(Tail(r)) /\ Len(Tail(r)) = Len(t)
        /\ \A i \in 1..Len(t) : Tail(r)[i] = r[i + 1]
    BY <1>1, <1>2, <1>5, TailList
  <2>2. \A i \in 1..Len(t) : i + 1 \in 1..Len(steps) /\ t[i] = steps[i + 1]
    BY <1>1
  <2>3. \A i \in 1..Len(t) : Tail(r)[i] = q[i]
    BY <1>2, <1>3, <2>1, <2>2
  <2>4. Tail(r) = [i \in 1..Len(t) |-> Tail(r)[i]] /\ q = [i \in 1..Len(t) |-> q[i]]
    BY <1>3, <2>1 DEF IsList
  <2> QED  BY <2>3, <2>4
<1>7. Joined(r) = Pairs(r[1], Joined(q))
  BY <1>2, <1>4, <1>5, <1>6, JoinedHead
<1>8. r[1] = Expansion(fs, Head(steps))
  <2>1. 1 \in 1..Len(steps)
    BY <1>1
  <2> QED  BY <1>1, <1>2, <2>1
<1> QED  BY <1>2, <1>3, <1>7, <1>8 DEF t

LEMMA ProgramNone == \A fs : Program(fs, <<>>) = {<<>>}
<1> SUFFICES ASSUME NEW fs PROVE Program(fs, <<>>) = {<<>>}
  OBVIOUS
<1>1. [i \in DOMAIN <<>> |-> Expanded(<<>>[i], fs, Programs(fs))] = <<>>
  OBVIOUS
<1> QED  BY <1>1, JoinedNone DEF Program, ProgramOf

(* ----------------------- The rest of what is read ------------------------ *)

RestOfFiles(fs, reads) == Joined([i \in DOMAIN reads |-> Program(fs, reads[i])])
AreFiles(reads) == IsList(reads) /\ \A i \in 1..Len(reads) : IsJsonFile(reads[i])

LEMMA RestJoins ==
  ASSUME NEW fs \in FileSystems, NEW reads, AreFiles(reads)
  PROVE  LET r == [i \in 1..Len(reads) |-> Program(fs, reads[i])]
         IN  /\ IsList(r) /\ Len(r) = Len(reads) /\ RestOfFiles(fs, reads) = Joined(r)
             /\ \A i \in 1..Len(reads) : r[i] = Program(fs, reads[i]) /\ Lists(r[i])
<1> DEFINE r == [i \in 1..Len(reads) |-> Program(fs, reads[i])]
<1>1. Len(reads) \in Nat /\ DOMAIN reads = 1..Len(reads)
  BY DEF AreFiles, IsList
<1>2. RestOfFiles(fs, reads) = Joined(r)
  BY <1>1 DEF RestOfFiles
<1>3. /\ DOMAIN r = 1..Len(reads) /\ r = [i \in 1..Len(reads) |-> r[i]]
      /\ \A i \in 1..Len(reads) : r[i] = Program(fs, reads[i])
  OBVIOUS
<1> HIDE DEF r
<1>4. IsList(r) /\ Len(r) = Len(reads)
  BY <1>1, <1>3, FunctionIsList
<1>5. \A i \in 1..Len(reads) : Lists(r[i])
  BY <1>3, ProgramLists DEF AreFiles
<1> QED  BY <1>2, <1>3, <1>4, <1>5 DEF r

LEMMA RestLists ==
  ASSUME NEW fs \in FileSystems, NEW reads, AreFiles(reads)
  PROVE  Lists(RestOfFiles(fs, reads))
<1> DEFINE r == [i \in 1..Len(reads) |-> Program(fs, reads[i])]
<1>1. /\ IsList(r) /\ Len(r) = Len(reads) /\ RestOfFiles(fs, reads) = Joined(r)
      /\ \A i \in 1..Len(reads) : r[i] = Program(fs, reads[i]) /\ Lists(r[i])
  BY RestJoins
<1> HIDE DEF r
<1> QED  BY <1>1, JoinedLists

LEMMA RestNone == \A fs : RestOfFiles(fs, <<>>) = {<<>>}
<1> SUFFICES ASSUME NEW fs PROVE RestOfFiles(fs, <<>>) = {<<>>}
  OBVIOUS
<1>1. [i \in DOMAIN <<>> |-> Program(fs, <<>>[i])] = <<>>
  OBVIOUS
<1> QED  BY <1>1, JoinedNone DEF RestOfFiles

LEMMA RestHead ==
  ASSUME NEW fs \in FileSystems, NEW reads, AreFiles(reads), reads # <<>>
  PROVE  /\ RestOfFiles(fs, reads) = Pairs(Program(fs, Head(reads)), RestOfFiles(fs, Tail(reads)))
         /\ AreFiles(Tail(reads)) /\ IsJsonFile(Head(reads))
<1> DEFINE t == Tail(reads)
           r == [i \in 1..Len(reads) |-> Program(fs, reads[i])]
           q == [i \in 1..Len(t) |-> Program(fs, t[i])]
<1>1. /\ IsList(t) /\ Len(t) = Len(reads) - 1 /\ Len(reads) >= 1 /\ Len(reads) \in Nat
      /\ Head(reads) = reads[1] /\ \A i \in 1..(Len(reads) - 1) : t[i] = reads[i + 1]
  BY TailList DEF AreFiles, IsList
<1>2. /\ IsList(r) /\ Len(r) = Len(reads) /\ RestOfFiles(fs, reads) = Joined(r)
      /\ \A i \in 1..Len(reads) : r[i] = Program(fs, reads[i]) /\ Lists(r[i])
  BY RestJoins
<1> HIDE DEF r, t
<1>3. \A i \in 1..Len(t) : i + 1 \in 1..Len(reads) /\ t[i] = reads[i + 1]
  BY <1>1
<1>4. AreFiles(t)
  BY <1>1, <1>3 DEF AreFiles
<1>5. /\ IsList(q) /\ Len(q) = Len(t) /\ RestOfFiles(fs, t) = Joined(q)
      /\ \A i \in 1..Len(t) : q[i] = Program(fs, t[i]) /\ Lists(q[i])
  BY <1>4, RestJoins
<1> HIDE DEF q
<1>6. r # <<>>
  BY <1>1, <1>2, EmptyList
<1>7. Tail(r) = q
  <2>1. /\ IsList(Tail(r)) /\ Len(Tail(r)) = Len(t)
        /\ \A i \in 1..Len(t) : Tail(r)[i] = r[i + 1]
    BY <1>1, <1>2, <1>6, TailList
  <2>2. \A i \in 1..Len(t) : Tail(r)[i] = q[i]
    BY <1>2, <1>3, <1>5, <2>1
  <2>3. Tail(r) = [i \in 1..Len(t) |-> Tail(r)[i]] /\ q = [i \in 1..Len(t) |-> q[i]]
    BY <1>5, <2>1 DEF IsList
  <2> QED  BY <2>2, <2>3
<1>8. Joined(r) = Pairs(r[1], Joined(q))
  <2>1. \A i \in 1..Len(r) : Lists(r[i])
    BY <1>2
  <2> QED  BY <1>2, <1>6, <1>7, <2>1, JoinedHead
<1>9. 1 \in 1..Len(reads)
  BY <1>1
<1>10. r[1] = Program(fs, Head(reads)) /\ IsJsonFile(Head(reads))
  BY <1>1, <1>2, <1>9 DEF AreFiles
<1> QED  BY <1>2, <1>4, <1>5, <1>8, <1>10 DEF t

LEMMA RestCons ==
  ASSUME NEW fs \in FileSystems, NEW f, IsJsonFile(f), NEW reads, AreFiles(reads)
  PROVE  /\ RestOfFiles(fs, <<f>> \o reads) = Pairs(Program(fs, f), RestOfFiles(fs, reads))
         /\ AreFiles(<<f>> \o reads)
<1> DEFINE t == <<f>> \o reads
<1>1. t # <<>> /\ Head(t) = f /\ Tail(t) = reads
  BY ConsList DEF AreFiles
<1>2. AreFiles(t)
  BY ReadingMore DEF AreFiles
<1> HIDE DEF t
<1>3. RestOfFiles(fs, t) = Pairs(Program(fs, f), RestOfFiles(fs, reads))
  BY <1>1, <1>2, RestHead
<1> QED  BY <1>2, <1>3 DEF t

(* --------------------------- One translation each ------------------------ *)

AtMostOne(A) == \A a, b \in A : a = b

LEMMA PairsAtMostOne ==
  ASSUME NEW A, NEW B, AtMostOne(A), AtMostOne(B)
  PROVE  AtMostOne(Pairs(A, B))
<1> SUFFICES ASSUME NEW x \in Pairs(A, B), NEW y \in Pairs(A, B) PROVE x = y
  BY DEF AtMostOne
<1>1. \E a \in A : \E b \in B : x = a \o b
  BY PairsAre
<1>2. \E a \in A : \E b \in B : y = a \o b
  BY PairsAre
<1>3. PICK a1 \in A : \E b \in B : x = a1 \o b
  BY <1>1
<1>4. PICK a2 \in A : \E b \in B : y = a2 \o b
  BY <1>2
<1>5. a1 = a2 /\ \A b, c \in B : b = c
  BY DEF AtMostOne
<1> QED  BY <1>3, <1>4, <1>5

LEMMA JoinedAtMostOne ==
  ASSUME NEW r, IsList(r), \A i \in DOMAIN r : AtMostOne(r[i])
  PROVE  AtMostOne(Joined(r))
<1> DEFINE Bad == {n \in 0..Len(r) : ~ AtMostOne(JoinedTo(r, n))}
<1>1. Len(r) \in Nat /\ DOMAIN r = 1..Len(r)
  BY DEF IsList
<1>2. Bad = {}
  <2> SUFFICES ASSUME Bad # {} PROVE FALSE
    OBVIOUS
  <2>1. PICK n \in Bad : \A m \in Bad : n <= m
    <3>1. Bad \in SUBSET Nat
      BY <1>1
    <3> HIDE DEF Bad
    <3> QED  BY <3>1, LeastNat
  <2>2. n # 0
    BY JoinedSteps DEF AtMostOne
  <2>3. n \in 1..Len(r) /\ n - 1 \in 0..Len(r) /\ n - 1 \notin Bad
    BY <1>1, <2>1, <2>2
  <2>4. JoinedTo(r, n) = Pairs(JoinedTo(r, n - 1), r[n])
    BY <2>3, JoinedSteps
  <2>5. AtMostOne(JoinedTo(r, n - 1)) /\ AtMostOne(r[n])
    BY <1>1, <2>3
  <2>6. AtMostOne(JoinedTo(r, n))
    <3> DEFINE A == JoinedTo(r, n - 1)
               B == r[n]
    <3> HIDE DEF A, B
    <3>1. AtMostOne(A) /\ AtMostOne(B)
      BY <2>5 DEF A, B
    <3>2. AtMostOne(Pairs(A, B))
      BY <3>1, PairsAtMostOne
    <3> QED  BY <2>4, <3>2 DEF A, B
  <2> QED  BY <2>1, <2>6
<1>3. Len(r) \in 0..Len(r)
  BY <1>1
<1> QED  BY <1>2, <1>3, JoinedSteps

LEMMA JoinedOverAtMostOne ==
  ASSUME NEW r, IsFiniteSet(DOMAIN r), \A x \in DOMAIN r : AtMostOne(r[x])
  PROVE  AtMostOne(JoinedOver(r))
<1>1. PICK u : /\ IsList(u) /\ JoinedOver(r) = Joined(u)
               /\ \A i \in DOMAIN u : \E x \in DOMAIN r : u[i] = r[x]
  BY JoinedOverIs
<1> QED  BY <1>1, JoinedAtMostOne

LEMMA JoinedFewOne ==
  /\ \A a, b : AtMostOne(a) /\ AtMostOne(b) => AtMostOne(Joined(<<a, b>>))
  /\ \A a, b, c : AtMostOne(a) /\ AtMostOne(b) /\ AtMostOne(c) => AtMostOne(Joined(<<a, b, c>>))
  /\ \A a, b, c, d : AtMostOne(a) /\ AtMostOne(b) /\ AtMostOne(c) /\ AtMostOne(d) =>
       AtMostOne(Joined(<<a, b, c, d>>))
  /\ \A a, b, c, d, e, f :
       AtMostOne(a) /\ AtMostOne(b) /\ AtMostOne(c) /\ AtMostOne(d) /\ AtMostOne(e)
         /\ AtMostOne(f) => AtMostOne(Joined(<<a, b, c, d, e, f>>))
<1>1. ASSUME NEW a, NEW b, AtMostOne(a), AtMostOne(b) PROVE AtMostOne(Joined(<<a, b>>))
  <2>1. IsList(<<a, b>>) /\ DOMAIN <<a, b>> = {1, 2}
    BY ListTwo
  <2> QED  BY <1>1, <2>1, JoinedAtMostOne
<1>2. ASSUME NEW a, NEW b, NEW c, AtMostOne(a), AtMostOne(b), AtMostOne(c)
      PROVE  AtMostOne(Joined(<<a, b, c>>))
  <2>1. IsList(<<a, b, c>>) /\ DOMAIN <<a, b, c>> = {1, 2, 3}
    BY ListThree
  <2> QED  BY <1>2, <2>1, JoinedAtMostOne
<1>3. ASSUME NEW a, NEW b, NEW c, NEW d, AtMostOne(a), AtMostOne(b), AtMostOne(c), AtMostOne(d)
      PROVE  AtMostOne(Joined(<<a, b, c, d>>))
  <2>1. IsList(<<a, b, c, d>>) /\ DOMAIN <<a, b, c, d>> = {1, 2, 3, 4}
    BY ListFour
  <2> QED  BY <1>3, <2>1, JoinedAtMostOne
<1>4. ASSUME NEW a, NEW b, NEW c, NEW d, NEW e, NEW f, AtMostOne(a), AtMostOne(b),
             AtMostOne(c), AtMostOne(d), AtMostOne(e), AtMostOne(f)
      PROVE  AtMostOne(Joined(<<a, b, c, d, e, f>>))
  <2>1. IsList(<<a, b, c, d, e, f>>) /\ DOMAIN <<a, b, c, d, e, f>> = {1, 2, 3, 4, 5, 6}
    BY ListSix
  <2> QED  BY <1>4, <2>1, JoinedAtMostOne
<1> QED  BY <1>1, <1>2, <1>3, <1>4

LEMMA OneAtMost == (\A x : AtMostOne({x})) /\ AtMostOne({})
BY DEF AtMostOne

LEMMA OptionalAtMostOne ==
  ASSUME NEW object, NEW key, NEW results
  PROVE  /\ (key \in DOMAIN object => AtMostOne(results)) =>
              AtMostOne(Optional(object, key, results))
         /\ (Compared(object, key) => AtMostOne(results)) =>
              AtMostOne(CheckIfGiven(object, key, results))
BY DEF AtMostOne, Optional, CheckIfGiven

LEMMA CodeAtMostOne ==
  /\ \A code : AtMostOne(GetContractCode(code)) /\ \A path \in GetContractCode(code) : AtMostOne(path)
  /\ \A file : AtMostOne(FileToModuleDecl(file))
  /\ \A path : AtMostOne(path) => AtMostOne(UNION {FileToModuleDecl(f) : f \in path})
  /\ \A d : AtMostOne(CodeOf(d))
<1>1. ASSUME NEW code
      PROVE  AtMostOne(GetContractCode(code)) /\ \A path \in GetContractCode(code) : AtMostOne(path)
  BY DEF AtMostOne, GetContractCode
<1>2. ASSUME NEW file PROVE AtMostOne(FileToModuleDecl(file))
  BY DEF AtMostOne, FileToModuleDecl
<1>3. ASSUME NEW path, AtMostOne(path) PROVE AtMostOne(UNION {FileToModuleDecl(f) : f \in path})
  BY <1>2, <1>3 DEF AtMostOne
<1>4. ASSUME NEW d PROVE AtMostOne(CodeOf(d))
  <2>1. CASE "code" \notin DOMAIN d
    BY <2>1 DEF CodeOf, AtMostOne
  <2>2. CASE "code" \in DOMAIN d
    <3> DEFINE Modules(path) == UNION {FileToModuleDecl(f) : f \in path}
               Loaded(path) == IF path = {} THEN {{}} ELSE {{module} : module \in Modules(path)}
    <3>1. CodeOf(d) = UNION {Loaded(path) : path \in GetContractCode(d.code)}
      BY <2>2 DEF CodeOf
    <3>2. ASSUME NEW path \in GetContractCode(d.code) PROVE AtMostOne(Loaded(path))
      <4>1. AtMostOne(Modules(path))
        BY <1>1, <1>3
      <4> HIDE DEF Modules
      <4> QED  BY <4>1 DEF AtMostOne
    <3>3. \A p, q \in GetContractCode(d.code) : p = q
      BY <1>1 DEF AtMostOne
    <3> HIDE DEF Loaded
    <3> QED  BY <3>1, <3>2, <3>3 DEF AtMostOne
  <2> QED  BY <2>1, <2>2
<1> QED  BY <1>1, <1>2, <1>3, <1>4

LEMMA RolesAtMostOne == \A op, a, token, v : AtMostOne(MandosToEsdtRoles(op, a, token, v))
BY DEF AtMostOne, MandosToEsdtRoles

LEMMA TokensAtMostOne ==
  /\ \A a, token, v : AtMostOne(SetEsdtSteps(a, token, v))
  /\ \A a, token, v : AtMostOne(CheckEsdtSteps(a, token, v))
<1>1. ASSUME NEW a, NEW token, NEW v PROVE AtMostOne(SetEsdtSteps(a, token, v))
  <2> DEFINE balances == [i \in DOMAIN MandosToEsdtInstances(v) |->
                            [op |-> "setEsdtBalance", addr |-> a, token |-> TokenBytes(token),
                             instance |-> MandosToEsdtInstances(v)[i]]]
             last == <<[op |-> "setEsdtLastNonce", addr |-> a, token |-> TokenBytes(token),
                        nonce |-> v.lastNonce]>>
             roles == MandosToEsdtRoles("setEsdtRoles", a, token, v)
             nonces == Optional(v, "lastNonce", {last})
  <2>1. SetEsdtSteps(a, token, v) = Joined(<<{balances}, roles, nonces>>)
    BY DEF SetEsdtSteps
  <2> HIDE DEF balances, last
  <2>2. AtMostOne({balances}) /\ AtMostOne(roles) /\ AtMostOne(nonces)
    BY OneAtMost, RolesAtMostOne, OptionalAtMostOne
  <2> HIDE DEF roles, nonces
  <2> QED  BY <2>1, <2>2, JoinedFewOne
<1>2. ASSUME NEW a, NEW token, NEW v PROVE AtMostOne(CheckEsdtSteps(a, token, v))
  <2> DEFINE balances == [i \in DOMAIN MandosToEsdtInstances(v) |->
                            [op |-> "checkAccountESDTBalance", addr |-> a,
                             token |-> TokenBytes(token),
                             nonce |-> MandosToEsdtInstances(v)[i].nonce,
                             balance |-> MandosToEsdtInstances(v)[i].amount]]
             roles == MandosToEsdtRoles("checkEsdtRoles", a, token, v)
  <2>1. CheckEsdtSteps(a, token, v) = Joined(<<{balances}, roles>>)
    BY DEF CheckEsdtSteps
  <2> HIDE DEF balances
  <2>2. AtMostOne({balances}) /\ AtMostOne(roles)
    BY OneAtMost, RolesAtMostOne
  <2> HIDE DEF roles
  <2> QED  BY <2>1, <2>2, JoinedFewOne
<1> QED  BY <1>1, <1>2

LEMMA SetAccountAtMostOne ==
  ASSUME NEW l, NEW d, "esdt" \in DOMAIN d => IsTokens(d.esdt)
  PROVE  AtMostOne(MandosToSetAccount(l, d))
<1> DEFINE a == AddressBytes[l]
           Command(code) == [op |-> "setAccount", addr |-> a, nonce |-> Get(d, "nonce", 0),
                             balance |-> Get(d, "balance", 0), code |-> code,
                             owner |-> GetAddress(d, "owner"),
                             storage |-> Get(d, "storage", EmptyMap)]
           set == {<<Command(code)>> : code \in CodeOf(d)}
           r == [token \in DOMAIN d.esdt |-> SetEsdtSteps(a, token, d.esdt[token])]
           esdt == Optional(d, "esdt", JoinedOver(r))
<1>1. MandosToSetAccount(l, d) = Joined(<<set, esdt>>)
  BY DEF MandosToSetAccount
<1>2. AtMostOne(set)
  <2>1. AtMostOne(CodeOf(d))
    BY CodeAtMostOne
  <2> HIDE DEF Command
  <2> QED  BY <2>1 DEF AtMostOne
<1>3. AtMostOne(esdt)
  <2>1. ASSUME "esdt" \in DOMAIN d PROVE AtMostOne(JoinedOver(r))
    <3>1. IsFiniteSet(DOMAIN r) /\ \A token \in DOMAIN r : AtMostOne(r[token])
      BY <2>1, TokensAtMostOne DEF IsTokens
    <3> HIDE DEF r
    <3> QED  BY <3>1, JoinedOverAtMostOne
  <2> HIDE DEF r
  <2> QED  BY <2>1, OptionalAtMostOne
<1> HIDE DEF set, esdt
<1> QED  BY <1>1, <1>2, <1>3, JoinedFewOne

LEMMA CheckAccountAtMostOne ==
  ASSUME NEW l, NEW d, Compared(d, "esdt") => IsTokens(d.esdt)
  PROVE  AtMostOne(MandosToCheckAccount(l, d))
<1> DEFINE a == AddressBytes[l]
           nonces == CheckIfGiven(d, "nonce", FieldCheck("checkAccountNonce", a, d.nonce))
           balances == CheckIfGiven(d, "balance", FieldCheck("checkAccountBalance", a, d.balance))
           storages == CheckIfGiven(d, "storage", FieldCheck("checkAccountStorage", a, d.storage))
           codes == CheckIfGiven(d, "code", CodeChecks(a, d))
           esdts == CheckIfGiven(d, "esdt", EsdtChecks(a, d))
           last == {<<[op |-> "checkedAccount", addr |-> a]>>}
<1>0. \A op, v : AtMostOne(FieldCheck(op, a, v))
  BY DEF AtMostOne, FieldCheck
<1>1. AtMostOne(nonces) /\ AtMostOne(balances) /\ AtMostOne(storages)
  BY <1>0, OptionalAtMostOne
<1>2. AtMostOne(codes)
  <2>1. AtMostOne(CodeChecks(a, d))
    BY <1>0, CodeAtMostOne DEF CodeChecks, AtMostOne
  <2> QED  BY <2>1, OptionalAtMostOne
<1>3. AtMostOne(esdts)
  <2>1. ASSUME IsTokens(d.esdt) PROVE AtMostOne(EsdtChecks(a, d))
    <3> DEFINE r == [token \in DOMAIN d.esdt |-> CheckEsdtSteps(a, token, d.esdt[token])]
    <3>1. IsFiniteSet(DOMAIN r) /\ \A token \in DOMAIN r : AtMostOne(r[token])
      BY <2>1, TokensAtMostOne DEF IsTokens
    <3>2. EsdtChecks(a, d) = JoinedOver(r)
      BY DEF EsdtChecks
    <3> HIDE DEF r
    <3> QED  BY <3>1, <3>2, JoinedOverAtMostOne
  <2> QED  BY <2>1, OptionalAtMostOne
<1>4. AtMostOne(last)
  BY OneAtMost
<1>5. MandosToCheckAccount(l, d) = Joined(<<nonces, balances, storages, codes, esdts, last>>)
  BY CheckAccountIs DEF CheckLists
<1> HIDE DEF nonces, balances, storages, codes, esdts, last
<1> QED  BY <1>1, <1>2, <1>3, <1>4, <1>5, JoinedFewOne

LEMMA SetStateAtMostOne ==
  ASSUME NEW step, step.step = "setState", IsJsonStep(step)
  PROVE  AtMostOne(GetStepsSetState(step))
<1> DEFINE r == [l \in DOMAIN step.accounts |-> MandosToSetAccount(l, step.accounts[l])]
           accounts == Optional(step, "accounts", JoinedOver(r))
           new == Optional(step, "newAddresses", GetStepsNewAddresses(step.newAddresses))
           cur == Optional(step, "currentBlockInfo",
                           MandosToBlockInfo("cur", step.currentBlockInfo))
           prev == Optional(step, "previousBlockInfo",
                            MandosToBlockInfo("prev", step.previousBlockInfo))
<1>1. AtMostOne(accounts)
  <2>1. ASSUME "accounts" \in DOMAIN step PROVE AtMostOne(JoinedOver(r))
    <3>1. IsFiniteSet(DOMAIN r) /\ Get(step, "accounts", EmptyMap) = step.accounts
      BY <2>1 DEF IsJsonStep, IsAccounts, Get
    <3>2. ASSUME NEW l \in DOMAIN r PROVE AtMostOne(r[l])
      <4>1. "esdt" \in DOMAIN step.accounts[l] => IsTokens(step.accounts[l].esdt)
        BY <3>1 DEF IsJsonStep
      <4> QED  BY <4>1, SetAccountAtMostOne
    <3> HIDE DEF r
    <3> QED  BY <3>1, <3>2, JoinedOverAtMostOne
  <2> HIDE DEF r
  <2> QED  BY <2>1, OptionalAtMostOne
<1>2. AtMostOne(new)
  <2>1. AtMostOne(GetStepsNewAddresses(step.newAddresses))
    BY OneAtMost DEF GetStepsNewAddresses
  <2> QED  BY <2>1, OptionalAtMostOne
<1>3. \A which, info : AtMostOne(MandosToBlockInfo(which, info))
  <2> SUFFICES ASSUME NEW which, NEW info PROVE AtMostOne(MandosToBlockInfo(which, info))
    OBVIOUS
  <2> DEFINE Command(i) == [op |-> "setBlockInfo", block |-> which, field |-> BlockFields[i],
                            value |-> info[BlockFields[i]]]
             b == [i \in DOMAIN BlockFields |-> Optional(info, BlockFields[i], {<<Command(i)>>})]
  <2>1. MandosToBlockInfo(which, info) = Joined(b)
    BY DEF MandosToBlockInfo
  <2> HIDE DEF Command
  <2>2. \A i \in DOMAIN b : AtMostOne(b[i])
    BY OneAtMost, OptionalAtMostOne
  <2>3. IsList(b)
    <3>1. DOMAIN BlockFields = 1..5
      BY DEF BlockFields
    <3>2. DOMAIN b = 1..5 /\ b = [i \in 1..5 |-> b[i]]
      BY <3>1
    <3> HIDE DEF b
    <3> QED  BY <3>2, FunctionIsList
  <2> HIDE DEF b
  <2> QED  BY <2>1, <2>2, <2>3, JoinedAtMostOne
<1>4. AtMostOne(cur) /\ AtMostOne(prev)
  BY <1>3, OptionalAtMostOne
<1>5. GetStepsSetState(step) \subseteq Joined(<<accounts, new, cur, prev>>)
  BY DEF GetStepsSetState
<1> HIDE DEF accounts, new, cur, prev
<1>6. AtMostOne(Joined(<<accounts, new, cur, prev>>))
  BY <1>1, <1>2, <1>4, JoinedFewOne
<1> QED  BY <1>5, <1>6 DEF AtMostOne

LEMMA CheckStateAtMostOne ==
  ASSUME NEW step, step.step = "checkState", IsJsonStep(step)
  PROVE  AtMostOne(GetStepsCheckState(step))
<1>1. CASE "accounts" \notin DOMAIN step
  BY <1>1, OneAtMost DEF GetStepsCheckState
<1>2. CASE "accounts" \in DOMAIN step
  <2> DEFINE listed == DOMAIN step.accounts \ {"+"}
             others == IF "+" \in DOMAIN step.accounts THEN <<>>
                       ELSE <<[op |-> "checkNoAdditionalAccounts",
                               value |-> {AddressBytes[l] : l \in listed}]>>
             r == [l \in listed |-> MandosToCheckAccount(l, step.accounts[l])]
             clear == <<[op |-> "clearCheckedAccounts"]>>
  <2>1. AtMostOne(JoinedOver(r))
    <3>1. IsFiniteSet(listed)
      BY <1>2, FS_Difference DEF IsJsonStep, IsAccounts
    <3>2. \A l \in listed : AtMostOne(MandosToCheckAccount(l, step.accounts[l]))
      BY <1>2, CheckAccountAtMostOne DEF IsJsonStep, IsAccounts
    <3>3. DOMAIN r = listed /\ \A l \in listed : r[l] = MandosToCheckAccount(l, step.accounts[l])
      OBVIOUS
    <3> HIDE DEF r, listed
    <3> QED  BY <3>1, <3>2, <3>3, JoinedOverAtMostOne
  <2>2. GetStepsCheckState(step) = Joined(<<JoinedOver(r), {others}, {clear}>>)
    BY <1>2 DEF GetStepsCheckState
  <2> HIDE DEF r, others, clear
  <2>3. AtMostOne({others}) /\ AtMostOne({clear})
    BY OneAtMost
  <2> QED  BY <2>1, <2>2, <2>3, JoinedFewOne
<1> QED  BY <1>1, <1>2

LEMMA WithExpectAtMostOne ==
  ASSUME NEW step, NEW txs, AtMostOne(txs)
  PROVE  AtMostOne(WithExpect(step, txs))
<1>1. \A expect : AtMostOne(MandosToExpect(expect))
  <2> SUFFICES ASSUME NEW expect PROVE AtMostOne(MandosToExpect(expect))
    OBVIOUS
  <2> DEFINE out == <<[op |-> "checkExpectOut", value |-> expect.out]>>
             message == <<[op |-> "checkExpectMessage", value |-> expect.message]>>
             Status(rc) == <<[op |-> "checkExpectStatus", value |-> rc]>>
             statuses == {Status(rc) : rc \in IntToKreturncode(expect.status)}
             x == CheckIfGiven(expect, "out", {out})
             y == CheckIfGiven(expect, "status", statuses)
             z == CheckIfGiven(expect, "message", {message})
  <2>1. MandosToExpect(expect) = Joined(<<x, y, z>>)
    BY DEF MandosToExpect
  <2>2. AtMostOne(IntToKreturncode(expect.status))
    BY DEF IntToKreturncode, STATUS_CODES, AtMostOne
  <2> HIDE DEF out, message, Status
  <2>3. AtMostOne(statuses)
    BY <2>2 DEF AtMostOne
  <2> HIDE DEF statuses
  <2>4. AtMostOne(x) /\ AtMostOne(y) /\ AtMostOne(z)
    BY <2>3, OneAtMost, OptionalAtMostOne
  <2> HIDE DEF x, y, z
  <2> QED  BY <2>1, <2>4, JoinedFewOne
<1> DEFINE expects == Optional(step, "expect", MandosToExpect(step.expect))
<1>2. AtMostOne(expects)
  BY <1>1, OptionalAtMostOne
<1>3. WithExpect(step, txs) = Joined(<<txs, expects>>)
  BY DEF WithExpect
<1> HIDE DEF expects
<1> QED  BY <1>2, <1>3, JoinedFewOne

(* Python translates a step in one way, or raises.                           *)
LEMMA GetStepsAtMostOne ==
  ASSUME NEW step, IsJsonStep(step)
  PROVE  AtMostOne(GetSteps(step))
<1>1. CASE step.step = "setState"
  BY <1>1, SetStateAtMostOne DEF GetSteps
<1>2. CASE step.step = "checkState"
  BY <1>2, CheckStateAtMostOne DEF GetSteps
<1>3. CASE step.step = "scDeploy"
  <2> DEFINE tx == step.tx
             Tx(module) == <<[op |-> "deployTx", from |-> AddressBytes[tx.from],
                              value |-> GetEgldValue(tx), module |-> module,
                              args |-> tx.arguments, fee |-> Fee(tx)]>>
             Modules(path) == UNION {FileToModuleDecl(f) : f \in path}
             Txs(path) == {Tx(module) : module \in Modules(path)}
  <2>1. MandosToDeployTx(tx) = UNION {Txs(path) : path \in GetContractCode(tx.contractCode)}
    BY DEF MandosToDeployTx
  <2>2. \A path \in GetContractCode(tx.contractCode) : AtMostOne(Txs(path))
    <3> SUFFICES ASSUME NEW path \in GetContractCode(tx.contractCode) PROVE AtMostOne(Txs(path))
      OBVIOUS
    <3>1. AtMostOne(Modules(path))
      BY CodeAtMostOne
    <3> HIDE DEF Modules, Tx
    <3> QED  BY <3>1 DEF AtMostOne
  <2>3. \A p, q \in GetContractCode(tx.contractCode) : p = q
    BY CodeAtMostOne DEF AtMostOne
  <2> HIDE DEF Txs
  <2>4. AtMostOne(MandosToDeployTx(tx))
    BY <2>1, <2>2, <2>3 DEF AtMostOne
  <2>5. GetSteps(step) = WithExpect(step, MandosToDeployTx(tx))
    BY <1>3 DEF GetSteps
  <2> QED  BY <2>4, <2>5, WithExpectAtMostOne
<1>4. CASE step.step = "scCall"
  <2>1. AtMostOne(MandosToCallTx(step.tx))
    BY DEF MandosToCallTx, AtMostOne
  <2>2. GetSteps(step) = WithExpect(step, MandosToCallTx(step.tx))
    BY <1>4 DEF GetSteps
  <2> QED  BY <2>1, <2>2, WithExpectAtMostOne
<1>5. CASE step.step = "scQuery"
  <2>1. AtMostOne(MandosToQueryTx(step.tx))
    BY DEF MandosToQueryTx, AtMostOne
  <2>2. GetSteps(step) = WithExpect(step, MandosToQueryTx(step.tx))
    BY <1>5 DEF GetSteps
  <2> QED  BY <2>1, <2>2, WithExpectAtMostOne
<1>6. CASE step.step = "transfer"
  BY <1>6 DEF GetSteps, MandosToTransferTx, AtMostOne
<1>7. CASE step.step = "validatorReward"
  BY <1>7 DEF GetSteps, MandosToValidatorRewardTx, AtMostOne
<1>8. CASE step.step \notin {"setState", "checkState", "scDeploy", "scCall", "scQuery",
                             "transfer", "validatorReward"}
  BY <1>8, OneAtMost DEF GetSteps
<1> QED  BY <1>1, <1>2, <1>3, <1>4, <1>5, <1>6, <1>7, <1>8

(* ------------------------- Reading finds the meaning ---------------------- *)

(* While files are read, the steps found so far and what the rest of the     *)
(* files being read means are together what the test file means.             *)
ReadMeans ==
  phase = "read" =>
    Programs(files)[Head(tests)] =
      Pairs({FlattenSeq(kSteps)}, RestOfFiles(files, reading))
MeaningInv == Inv /\ ReadMeans

LEMMA StepsFlatten ==
  ASSUME Inv
  PROVE  /\ IsList(kSteps) /\ \A i \in 1..Len(kSteps) : IsList(kSteps[i])
         /\ IsList(FlattenSeq(kSteps)) /\ IsList(k) /\ files \in FileSystems /\ AreFiles(reading)
<1>1. IsList(kSteps) /\ \A i \in 1..Len(kSteps) : IsList(kSteps[i])
  BY DEF Inv, StepsInv, Good, Legal
<1> QED  BY <1>1, FlattenJoins DEF Inv, InputInv, ReadInv, StepsInv, Legal, AreFiles

LEMMA CurrentTest ==
  ASSUME Inv, tests # <<>>
  PROVE  Head(tests) \in DOMAIN files
BY RestOf DEF Inv, InputInv

(* The next step, and what is left after it.                                 *)
LEMMA StepMeans ==
  ASSUME MeaningInv, ReadingStep
  PROVE  /\ Programs(files)[Head(tests)] =
              Pairs({FlattenSeq(kSteps)},
                    Pairs(Expansion(files, NextStep), RestOfFiles(files, StepConsumed)))
         /\ AreFiles(StepConsumed) /\ Lists(RestOfFiles(files, StepConsumed))
         /\ IsJsonStep(NextStep)
<1> DEFINE rest == Tail(reading)
           left == Tail(CurrentFile)
           E == Expansion(files, NextStep)
           L == Program(files, left)
           R == RestOfFiles(files, rest)
<1>1. files \in FileSystems /\ AreFiles(reading) /\ phase = "read" /\ CurrentFile # <<>>
  BY StepsFlatten DEF MeaningInv, ReadingStep
<1>2. reading # <<>>
  BY <1>1 DEF MeaningInv, Inv, ReadInv
<1>3. /\ RestOfFiles(files, reading) = Pairs(Program(files, CurrentFile), R)
      /\ AreFiles(rest) /\ IsJsonFile(CurrentFile)
  BY <1>1, <1>2, RestHead DEF CurrentFile
<1>4. Program(files, CurrentFile) = Pairs(E, L)
  BY <1>1, <1>3, ProgramHead DEF NextStep
<1>5. IsJsonFile(left) /\ IsJsonStep(NextStep)
  BY <1>1, <1>3, RestOf DEF IsJsonFile, NextStep
<1>6. Lists(E) /\ Lists(L) /\ Lists(R)
  BY <1>1, <1>3, <1>5, ExpansionLists, ProgramLists, RestLists
<1>7. RestOfFiles(files, StepConsumed) = Pairs(L, R) /\ AreFiles(StepConsumed)
  BY <1>1, <1>3, <1>5, RestCons DEF StepConsumed
<1>8. Lists(RestOfFiles(files, StepConsumed))
  BY <1>1, <1>7, RestLists
<1>9. Programs(files)[Head(tests)] = Pairs({FlattenSeq(kSteps)}, RestOfFiles(files, reading))
  BY <1>1 DEF MeaningInv, ReadMeans
<1> HIDE DEF E, L, R, rest, left
<1>10. RestOfFiles(files, reading) = Pairs(E, Pairs(L, R))
  BY <1>3, <1>4, <1>6, PairsAssoc
<1> QED  BY <1>5, <1>7, <1>8, <1>9, <1>10 DEF E

LEMMA MeaningKept == MeaningInv /\ [Next]_vars => MeaningInv'
<1> SUFFICES ASSUME MeaningInv, [Next]_vars PROVE ReadMeans'
  BY ScenarioNext DEF MeaningInv
<1>0. /\ IsList(kSteps) /\ \A i \in 1..Len(kSteps) : IsList(kSteps[i])
      /\ IsList(FlattenSeq(kSteps)) /\ files \in FileSystems /\ AreFiles(reading)
  BY StepsFlatten DEF MeaningInv
<1>1. CASE StartTest
  <2> DEFINE f == files[Head(tests)]
  <2>1. Head(tests) \in DOMAIN files
    BY <1>1, CurrentTest DEF StartTest, MeaningInv
  <2>2. Programs(files)[Head(tests)] = Program(files, f)
    BY <1>0, <2>1, ProgramsAre
  <2>3. IsJsonFile(f)
    BY <2>1, JsonFiles DEF MeaningInv, Inv
  <2>4. reading' = <<f>> /\ kSteps' = <<>> /\ UNCHANGED <<files, tests>>
    BY <1>1 DEF StartTest, input
  <2> HIDE DEF f
  <2>5. Lists(Program(files, f))
    BY <1>0, <2>3, ProgramLists
  <2>6. IsList(<<f>>) /\ Len(<<f>>) = 1 /\ <<f>>[1] = f /\ <<f>> # <<>>
    BY ListOne
  <2>7. AreFiles(<<f>>) /\ Head(<<f>>) = f /\ Tail(<<f>>) = <<>>
    BY <2>3, <2>6 DEF AreFiles
  <2>8. RestOfFiles(files, <<f>>) = Pairs(Program(files, f), {<<>>})
    <3>1. RestOfFiles(files, <<f>>) =
            Pairs(Program(files, Head(<<f>>)), RestOfFiles(files, Tail(<<f>>)))
      BY <1>0, <2>6, <2>7, RestHead
    <3>2. RestOfFiles(files, <<>>) = {<<>>}
      BY RestNone
    <3> QED  BY <2>7, <3>1, <3>2
  <2>9. Pairs({<<>>}, RestOfFiles(files, <<f>>)) = Program(files, f)
    BY <2>5, <2>8, PairsUnit
  <2>10. FlattenSeq(<<>>) = <<>>
    BY FlattenShort
  <2> QED  BY <2>2, <2>4, <2>9, <2>10 DEF ReadMeans
<1>2. CASE ReadStep
  <2> DEFINE F == FlattenSeq(kSteps)
             X == RestOfFiles(files, StepConsumed)
  <2>1. ReadingStep /\ phase' = "read" /\ reading' = StepConsumed /\ UNCHANGED <<files, tests>>
    BY <1>2 DEF ReadStep, ReadingStep, input
  <2>2. PICK s \in GetSteps(NextStep) : kSteps' = Append(kSteps, s)
    BY <1>2 DEF ReadStep
  <2>3. /\ Programs(files)[Head(tests)] = Pairs({F}, Pairs(Expansion(files, NextStep), X))
        /\ Lists(X) /\ IsJsonStep(NextStep)
    BY <2>1, StepMeans
  <2>4. Expansion(files, NextStep) = {s} /\ IsList(s)
    <3>1. Expansion(files, NextStep) = GetSteps(NextStep)
      BY <1>2 DEF ReadStep, Expansion, Expanded
    <3>2. AtMostOne(GetSteps(NextStep)) /\ Lists(GetSteps(NextStep))
      BY <2>3, GetStepsAtMostOne, TranslationLists
    <3> QED  BY <2>2, <3>1, <3>2 DEF AtMostOne, Lists
  <2>5. FlattenSeq(kSteps') = F \o s
    BY <1>0, <2>2, <2>4, FlattenAppend
  <2> HIDE DEF F, X
  <2>6. Lists({F}) /\ Lists({s})
    BY <1>0, <2>4 DEF Lists, F
  <2>7. Pairs({F}, Pairs({s}, X)) = Pairs(Pairs({F}, {s}), X)
    BY <2>3, <2>6, PairsAssoc
  <2>8. Pairs({F}, {s}) = {F \o s}
    BY PairsOne
  <2>9. Programs(files)[Head(tests)] = Pairs({F \o s}, X)
    BY <2>3, <2>4, <2>7, <2>8
  <2> QED  BY <2>1, <2>5, <2>9 DEF ReadMeans, X
<1>3. CASE ReadExternalSteps
  <2> DEFINE F == FlattenSeq(kSteps)
             c == StepConsumed
             f == files[NextStep.path]
  <2>1. /\ ReadingStep /\ phase' = "read" /\ reading' = <<f>> \o c
        /\ UNCHANGED <<files, tests, kSteps>>
    BY <1>3 DEF ReadExternalSteps, ReadingStep, input
  <2>2. /\ Programs(files)[Head(tests)] =
             Pairs({F}, Pairs(Expansion(files, NextStep), RestOfFiles(files, c)))
        /\ AreFiles(c)
    BY <2>1, StepMeans
  <2>3. NextStep.path \in DOMAIN files /\ IsExternal(NextStep)
    BY <1>3 DEF ReadExternalSteps
  <2>4. Expansion(files, NextStep) = Program(files, f)
    BY <1>0, <2>3, ProgramsAre DEF Expansion, Expanded
  <2>5. IsJsonFile(f)
    BY <2>3, JsonFiles DEF MeaningInv, Inv
  <2> HIDE DEF c, f, F
  <2>6. RestOfFiles(files, <<f>> \o c) = Pairs(Program(files, f), RestOfFiles(files, c))
    BY <1>0, <2>2, <2>5, RestCons
  <2> QED  BY <2>1, <2>2, <2>4, <2>6 DEF ReadMeans, F
<1>4. CASE ReadFails
  BY <1>4 DEF ReadFails, ReadMeans
<1>5. CASE EndOfExternalFile
  <2> DEFINE R == RestOfFiles(files, Tail(reading))
  <2>1. /\ phase = "read" /\ CurrentFile = <<>> /\ phase' = "read" /\ reading' = Tail(reading)
        /\ UNCHANGED <<files, tests, kSteps>>
    BY <1>5 DEF EndOfExternalFile, input
  <2>2. reading # <<>>
    BY <2>1 DEF MeaningInv, Inv, ReadInv
  <2>3. /\ RestOfFiles(files, reading) = Pairs(Program(files, CurrentFile), R)
        /\ AreFiles(Tail(reading))
    BY <1>0, <2>2, RestHead DEF CurrentFile
  <2>4. Program(files, CurrentFile) = {<<>>}
    BY <2>1, ProgramNone
  <2>5. Lists(R)
    BY <1>0, <2>3, RestLists
  <2> HIDE DEF R
  <2>6. RestOfFiles(files, reading) = R
    BY <2>3, <2>4, <2>5, PairsUnit
  <2>7. ReadMeans
    BY DEF MeaningInv
  <2> QED  BY <2>1, <2>6, <2>7 DEF ReadMeans, R
<1>6. CASE \/ EndOfTestFile \/ StartKrun \/ MandosStep \/ KrunStuck \/ KrunEnds
           \/ TestPasses \/ RunPasses
  BY <1>6 DEF EndOfTestFile, StartKrun, MandosStep, KrunStuck, KrunEnds, TestPasses, RunPasses,
              ReadMeans
<1>7. CASE UNCHANGED vars
  BY <1>7 DEF vars, input, ReadMeans, MeaningInv
<1> QED  BY <1>1, <1>2, <1>3, <1>4, <1>5, <1>6, <1>7 DEF Next

(* While a file is read, the steps found so far with the meaning of what is  *)
(* left to read, in the files that include it too, are the meaning of the    *)
(* file: reading one step after the other expands external files in place    *)
(* (scenario.py:717-749).                                                    *)
THEOREM ReadingMeans == Spec => []MeaningInv
<1>1. Init => MeaningInv
  BY ScenarioInit DEF MeaningInv, ReadMeans, Init
<1>2. MeaningInv /\ [Next]_vars => MeaningInv'
  BY MeaningKept
<1> QED  BY <1>1, <1>2, PTL DEF Spec

(* ------------------------------- Refinement ------------------------------ *)

LEMMA ConcatHead ==
  ASSUME NEW s, NEW t, IsList(s), IsList(t), s # <<>>
  PROVE  /\ s \o t # <<>> /\ Head(s \o t) = Head(s) /\ Tail(s \o t) = Tail(s) \o t
<1> DEFINE x == Head(s)
           r == Tail(s)
<1>1. IsList(r)
  BY TailList
<1>2. s = <<x>> \o r
  <2> DEFINE y == <<x>> \o r
  <2>1. s \in Seq(Values(s))
    BY ListIsSeq
  <2> QED  BY <2>1
<1> HIDE DEF x, r
<1>3. IsList(<<x>>)
  BY ListOne
<1>4. s \o t = <<x>> \o (r \o t)
  BY <1>1, <1>2, <1>3, ConcatListsAssoc
<1>5. IsList(r \o t)
  BY <1>1, ConcatList
<1>6. /\ <<x>> \o (r \o t) # <<>>
      /\ Head(<<x>> \o (r \o t)) = x /\ Tail(<<x>> \o (r \o t)) = r \o t
  BY <1>5, ConsList
<1> QED  BY <1>4, <1>6 DEF x, r

(* The steps the interpreter still has to execute of the current file.       *)
Left == k \o FlattenSeq(kSteps)

LEMMA TestFileMeans ==
  ASSUME MeaningInv, EndOfTestFile
  PROVE  /\ Programs(files)[Head(tests)] = {FlattenSeq(kSteps)}
         /\ Left' = FlattenSeq(kSteps)
<1>0. /\ IsList(kSteps) /\ IsList(FlattenSeq(kSteps)) /\ files \in FileSystems
      /\ AreFiles(reading)
  BY StepsFlatten DEF MeaningInv
<1>1. phase = "read" /\ reading = <<<<>>>> /\ reading # <<>>
  BY ListOne DEF EndOfTestFile
<1>2. Head(reading) = <<>> /\ Tail(reading) = <<>>
  BY <1>1
<1>3. RestOfFiles(files, reading) = {<<>>}
  <2>1. RestOfFiles(files, reading) =
          Pairs(Program(files, Head(reading)), RestOfFiles(files, Tail(reading)))
    BY <1>0, <1>1, RestHead
  <2>2. Program(files, <<>>) = {<<>>} /\ RestOfFiles(files, <<>>) = {<<>>}
    BY ProgramNone, RestNone
  <2>3. Lists({<<>>})
    BY EmptyList DEF Lists
  <2>4. Pairs({<<>>}, {<<>>}) = {<<>>}
    BY <2>3, PairsUnit
  <2> QED  BY <1>2, <2>1, <2>2, <2>4
<1>4. Pairs({FlattenSeq(kSteps)}, {<<>>}) = {FlattenSeq(kSteps)}
  <2>1. Lists({FlattenSeq(kSteps)})
    BY <1>0 DEF Lists
  <2> QED  BY <2>1, PairsUnit
<1>5. ReadMeans
  BY DEF MeaningInv
<1>6. FlattenSeq(kSteps') = FlattenSeq(kSteps)
  BY FlattenShort DEF EndOfTestFile
<1>7. k' = <<>>
  BY <1>1 DEF EndOfTestFile, MeaningInv, Inv, StepsInv
<1>8. <<>> \o FlattenSeq(kSteps) = FlattenSeq(kSteps)
  BY <1>0, ConcatEmptyList
<1> QED  BY <1>1, <1>3, <1>4, <1>5, <1>6, <1>7, <1>8 DEF ReadMeans, Left

LEMMA ReadFailure ==
  ASSUME MeaningInv, ReadFails
  PROVE  tests # <<>> /\ Programs(files)[Head(tests)] = {}
<1>1. ReadingStep /\ phase = "read"
  BY DEF ReadFails, ReadingStep
<1>2. Programs(files)[Head(tests)] =
        Pairs({FlattenSeq(kSteps)},
              Pairs(Expansion(files, NextStep), RestOfFiles(files, StepConsumed)))
  BY <1>1, StepMeans
<1>3. Expansion(files, NextStep) = {}
  BY DEF ReadFails, Expansion, Expanded
<1>4. Pairs({FlattenSeq(kSteps)}, Pairs({}, RestOfFiles(files, StepConsumed))) = {}
  BY PairsOne
<1>5. tests # <<>>
  BY <1>1 DEF MeaningInv, Inv, InputInv
<1> QED  BY <1>2, <1>3, <1>4, <1>5

(* Every step of the program is one of its meaning, or none.                 *)
LEMMA ScenarioSteps ==
  ASSUME MeaningInv, [Next]_vars
  PROVE  [Scenario!Next]_(Scenario!vars)
<1>0. /\ IsList(kSteps) /\ \A i \in 1..Len(kSteps) : IsList(kSteps[i])
      /\ IsList(FlattenSeq(kSteps)) /\ IsList(k)
      /\ phase \in {"read", "run", "krun"} => tests # <<>>
      /\ phase \notin {"krun", "failed"} => k = <<>>
      /\ phase \notin {"read", "failed"} => reading = <<>>
      /\ phase = "read" => reading # <<>>
  BY StepsFlatten DEF MeaningInv, Inv, InputInv, ReadInv, StepsInv
<1>1. CASE StartTest \/ ReadStep \/ ReadExternalSteps \/ EndOfExternalFile
  <2>1. /\ phase \in {"next", "read"} /\ phase' = "read"
        /\ UNCHANGED <<files, tests, config>>
    BY <1>1 DEF StartTest, ReadStep, ReadExternalSteps, EndOfExternalFile, ReadingStep, input
  <2> QED  BY <2>1 DEF Scenario!vars
<1>2. CASE ReadFails
  <2>1. tests # <<>> /\ Programs(files)[Head(tests)] = {}
    BY <1>2, ReadFailure
  <2>2. /\ phase = "read" /\ phase' = "failed" /\ reading' # <<>>
        /\ UNCHANGED <<files, tests, config>>
    BY <1>0, <1>2 DEF ReadFails, ReadingStep, input
  <2>3. Scenario!Fails
    BY <2>1, <2>2 DEF Scenario!Fails
  <2> QED  BY <2>3 DEF Scenario!Next
<1>3. CASE EndOfTestFile
  <2>1. Programs(files)[Head(tests)] = {FlattenSeq(kSteps)} /\ Left' = FlattenSeq(kSteps)
    BY <1>3, TestFileMeans
  <2>2. /\ phase = "read" /\ phase' = "run" /\ config' = TemplateConfig /\ tests # <<>>
        /\ UNCHANGED <<files, tests>>
    BY <1>0, <1>3 DEF EndOfTestFile, input
  <2>3. Scenario!BeginFile
    BY <2>1, <2>2 DEF Scenario!BeginFile, Left
  <2> QED  BY <2>3 DEF Scenario!Next
<1>4. CASE StartKrun
  <2>1. /\ phase = "run" /\ phase' = "krun" /\ UNCHANGED <<files, tests, config>>
        /\ kSteps # <<>> /\ k' = Head(kSteps) /\ kSteps' = Tail(kSteps)
    BY <1>4 DEF StartKrun, input
  <2>2. Left' = FlattenSeq(kSteps)
    BY <1>0, <2>1, FlattenHead DEF Left
  <2>3. Left = FlattenSeq(kSteps)
    BY <1>0, <2>1, ConcatEmptyList DEF Left
  <2> QED  BY <2>1, <2>2, <2>3 DEF Scenario!vars, Left
<1>5. CASE MandosStep
  <2>1. /\ phase = "krun" /\ phase' = "krun" /\ UNCHANGED <<files, tests>>
        /\ k # <<>> /\ config' \in StepResults(config, Head(k))
        /\ k' = Tail(k) /\ kSteps' = kSteps
    BY <1>5 DEF MandosStep, input
  <2>2. Left # <<>> /\ Head(Left) = Head(k) /\ Tail(Left) = Left'
    BY <1>0, <2>1, ConcatHead DEF Left
  <2>3. Scenario!Execute
    BY <2>1, <2>2 DEF Scenario!Execute, Left
  <2> QED  BY <2>3 DEF Scenario!Next
<1>6. CASE KrunStuck
  <2>1. /\ phase = "krun" /\ phase' = "failed" /\ UNCHANGED <<files, tests, config>>
        /\ k # <<>> /\ StepResults(config, Head(k)) = {}
        /\ reading' = <<>> /\ k' = k /\ kSteps' = kSteps
    BY <1>0, <1>6 DEF KrunStuck, input
  <2>2. Left # <<>> /\ Head(Left) = Head(k)
    BY <1>0, <2>1, ConcatHead DEF Left
  <2>3. Scenario!Fails
    BY <2>1, <2>2 DEF Scenario!Fails, Left
  <2> QED  BY <2>3 DEF Scenario!Next
<1>7. CASE KrunEnds
  <2>1. /\ phase = "krun" /\ phase' = "run" /\ UNCHANGED <<files, tests, config, k, kSteps>>
    BY <1>7 DEF KrunEnds, input
  <2> QED  BY <2>1 DEF Scenario!vars
<1>8. CASE TestPasses
  <2>1. /\ phase = "run" /\ phase' = "next" /\ UNCHANGED <<files, config>>
        /\ tests' = Tail(tests) /\ k = <<>> /\ kSteps = <<>>
    BY <1>0, <1>8 DEF TestPasses, input
  <2>2. Left = <<>>
    BY <2>1, FlattenShort, EmptyList, ConcatEmptyList DEF Left
  <2>3. Scenario!EndFile
    BY <2>1, <2>2 DEF Scenario!EndFile, Left
  <2> QED  BY <2>3 DEF Scenario!Next
<1>9. CASE RunPasses
  <2>1. /\ phase = "next" /\ phase' = "passed" /\ UNCHANGED <<files, tests, config>>
        /\ tests = <<>>
    BY <1>9 DEF RunPasses, input
  <2>2. Scenario!Passes
    BY <2>1 DEF Scenario!Passes
  <2> QED  BY <2>2 DEF Scenario!Next
<1>10. CASE UNCHANGED vars
  BY <1>10 DEF vars, input, Scenario!vars
<1> QED  BY <1>1, <1>2, <1>3, <1>4, <1>5, <1>6, <1>7, <1>8, <1>9, <1>10 DEF Next

(* A run of scenario files does what the files mean: external files are      *)
(* expanded where they are named, every file starts from the template,       *)
(* grouping the steps of a file or running them one by one has the same      *)
(* effect and the same verdict, and of a file that cannot be read to its end *)
(* nothing is executed.                                                      *)
THEOREM ScenarioRefinement == Spec => FollowsScenario
<1>1. Init => Scenario!Init
  BY DEF Init, Scenario!Init
<1>2. MeaningInv /\ [Next]_vars => [Scenario!Next]_(Scenario!vars)
  BY ScenarioSteps
<1> QED  BY <1>1, <1>2, ReadingMeans, PTL DEF Spec, FollowsScenario, Scenario!Spec

(* ------------------------------- Token data ------------------------------ *)

(* Every entry of an account's token data has all its fields.                *)
EntryFields == {"balance", "roles", "metadata", "lastNonce"}
AreEntries(esdt) == \A key \in DOMAIN esdt : DOMAIN esdt[key] = EntryFields
AllEntries(data) == \A a \in DOMAIN data : AreEntries(data[a])
HaveEntries(accounts) == \A a \in DOMAIN accounts : AreEntries(accounts[a].esdt)

LEMMA EntriesOf == \A c : AllEntries(EsdtOf(c)) <=> HaveEntries(c.accounts)
BY DEF AllEntries, HaveEntries, EsdtOf

LEMMA EntryHasFields ==
  ASSUME NEW d, AllEntries(d), NEW a, NEW key
  PROVE  DOMAIN EntryOrNew(d, a, key) = EntryFields
<1>1. DOMAIN NewEntry = EntryFields
  BY DEF NewEntry, EntryFields
<1> QED  BY <1>1 DEF EntryOrNew, Holds, AllEntries, AreEntries

LEMMA SetEntryKeeps ==
  ASSUME NEW d, AllEntries(d), NEW a \in DOMAIN d, NEW key, NEW entry,
         DOMAIN entry = EntryFields
  PROVE  AllEntries(SetEntry(d, a, key, entry)) /\ DOMAIN SetEntry(d, a, key, entry) = DOMAIN d
<1> DEFINE e == SetEntry(d, a, key, entry)
           row == Put(d[a], key, entry)
<1>1. DOMAIN e = DOMAIN d /\ \A x \in DOMAIN d : e[x] = IF x = a THEN row ELSE d[x]
  BY DEF SetEntry
<1>2. AreEntries(row)
  BY DEF Put, AllEntries, AreEntries
<1> HIDE DEF e, row
<1>3. AllEntries(e)
  BY <1>1, <1>2 DEF AllEntries
<1> QED  BY <1>1, <1>3 DEF e

LEMMA AddKeepsEntries ==
  ASSUME NEW d, AllEntries(d), NEW a \in DOMAIN d, NEW key, NEW delta, NEW allowNew,
         NEW e \in AddToESDTBalance(d, a, key, delta, allowNew)
  PROVE  AllEntries(e) /\ DOMAIN e = DOMAIN d
<1> DEFINE old == EntryOrNew(d, a, key)
           entry == [old EXCEPT !.balance = @ + delta]
<1>1. e = SetEntry(d, a, key, entry)
  BY DEF AddToESDTBalance
<1>2. DOMAIN entry = EntryFields
  <2>1. DOMAIN old = EntryFields
    BY EntryHasFields
  <2> HIDE DEF old
  <2> QED  BY <2>1
<1> HIDE DEF entry
<1> QED  BY <1>1, <1>2, SetEntryKeeps

LEMMA MoveKeepsEntries ==
  ASSUME NEW d, AllEntries(d), NEW from \in DOMAIN d, NEW to \in DOMAIN d, NEW key,
         key \in DOMAIN d[from], NEW delta
  PROVE  /\ AllEntries(MoveNFTToDestination(d, from, to, key, delta))
         /\ DOMAIN MoveNFTToDestination(d, from, to, key, delta) = DOMAIN d
<1> DEFINE sent == d[from][key]
           got == IF Holds(d, to, key) THEN d[to][key]
                  ELSE [NewEntry EXCEPT !.metadata = sent.metadata]
           less == [sent EXCEPT !.balance = @ - delta]
           more == [got EXCEPT !.balance = @ + delta]
           mid == SetEntry(d, from, key, less)
<1>1. DOMAIN less = EntryFields
  <2>1. DOMAIN sent = EntryFields
    BY DEF AllEntries, AreEntries
  <2> HIDE DEF sent
  <2> QED  BY <2>1
<1>2. DOMAIN more = EntryFields
  <2>1. DOMAIN got = EntryFields
    BY DEF AllEntries, AreEntries, Holds, NewEntry, EntryFields
  <2> HIDE DEF got
  <2> QED  BY <2>1
<1>3. MoveNFTToDestination(d, from, to, key, delta) =
        IF from = to THEN d ELSE SetEntry(mid, to, key, more)
  BY DEF MoveNFTToDestination
<1> HIDE DEF less, more
<1>4. AllEntries(mid) /\ DOMAIN mid = DOMAIN d
  BY <1>1, SetEntryKeeps
<1> HIDE DEF mid
<1>5. AllEntries(SetEntry(mid, to, key, more)) /\ DOMAIN SetEntry(mid, to, key, more) = DOMAIN mid
  BY <1>2, <1>4, SetEntryKeeps
<1> QED  BY <1>3, <1>4, <1>5

LEMMA RemoveKeepsEntries ==
  ASSUME NEW d, AllEntries(d), NEW a, NEW key
  PROVE  AllEntries(RemoveEmptyNft(d, a, key)) /\ DOMAIN RemoveEmptyNft(d, a, key) = DOMAIN d
<1> DEFINE row == Without(d[a], key)
<1>1. a \in DOMAIN d => AreEntries(row)
  BY DEF Without, AllEntries, AreEntries
<1>2. RemoveEmptyNft(d, a, key) \in {d, [d EXCEPT ![a] = row]}
  BY DEF RemoveEmptyNft
<1> HIDE DEF row
<1> QED  BY <1>1, <1>2 DEF AllEntries

LEMMA TransferKeepsEntries ==
  ASSUME NEW d, AllEntries(d), NEW from, NEW to, NEW t, NEW e \in TransferESDT(d, from, to, t)
  PROVE  AllEntries(e) /\ DOMAIN e = DOMAIN d
<1> DEFINE key == KeyWithNonce(t.token, t.nonce)
           debit == -t.value
           old == FALSE
           new == TRUE
<1>1. from \in DOMAIN d /\ to \in DOMAIN d /\ key \in DOMAIN d[from]
  BY DEF TransferESDT, CheckESDTBalance, Holds
<1>2. \/ \E m \in AddToESDTBalance(d, from, key, debit, old) :
            e \in AddToESDTBalance(m, to, key, t.value, new)
      \/ e = RemoveEmptyNft(MoveNFTToDestination(d, from, to, key, t.value), from, key)
  BY DEF TransferESDT
<1> HIDE DEF key, debit, old, new
<1>3. ASSUME NEW m \in AddToESDTBalance(d, from, key, debit, old),
             e \in AddToESDTBalance(m, to, key, t.value, new)
      PROVE  AllEntries(e) /\ DOMAIN e = DOMAIN d
  <2>1. AllEntries(m) /\ DOMAIN m = DOMAIN d
    BY <1>1, AddKeepsEntries
  <2> QED  BY <1>1, <1>3, <2>1, AddKeepsEntries
<1>4. ASSUME e = RemoveEmptyNft(MoveNFTToDestination(d, from, to, key, t.value), from, key)
      PROVE  AllEntries(e) /\ DOMAIN e = DOMAIN d
  <2> DEFINE m == MoveNFTToDestination(d, from, to, key, t.value)
  <2>1. AllEntries(m) /\ DOMAIN m = DOMAIN d
    BY <1>1, MoveKeepsEntries
  <2> HIDE DEF m
  <2> QED  BY <1>4, <2>1, RemoveKeepsEntries DEF m
<1> QED  BY <1>2, <1>3, <1>4

(* The token data after every transfer of a list.                            *)
Moved(d, from, to, list, n, g) ==
  g = [i \in 0..n |-> IF i = 0 THEN {d}
                      ELSE UNION {TransferESDT(e, from, to, list[i]) : e \in g[i - 1]}]

LEMMA MovedExists ==
  ASSUME NEW d, NEW from, NEW to, NEW list
  PROVE  \A n \in Nat : \E g : Moved(d, from, to, list, n, g)
<1> DEFINE Missing == {n \in Nat : ~ \E g : Moved(d, from, to, list, n, g)}
           Step(f, i) == IF i = 0 THEN {d}
                         ELSE UNION {TransferESDT(e, from, to, list[i]) : e \in f[i - 1]}
<1> SUFFICES ASSUME Missing # {} PROVE FALSE
  OBVIOUS
<1>1. PICK n \in Missing : \A m \in Missing : n <= m
  <2>1. Missing \in SUBSET Nat
    OBVIOUS
  <2> HIDE DEF Missing
  <2> QED  BY <2>1, LeastNat
<1>2. CASE n = 0
  <2> DEFINE h == [i \in 0..0 |-> {d}]
  <2>1. h = [i \in 0..0 |-> Step(h, i)]
    <3>1. \A i \in 0..0 : i = 0
      OBVIOUS
    <3> QED  BY <3>1
  <2> HIDE DEF h
  <2>2. Moved(d, from, to, list, 0, h)
    BY <2>1 DEF Moved
  <2> QED  BY <1>2, <2>2
<1>3. CASE n # 0
  <2>1. n - 1 \in Nat /\ n - 1 \notin Missing
    BY <1>1, <1>3
  <2>2. PICK g : Moved(d, from, to, list, n - 1, g)
    BY <2>1
  <2> DEFINE h == [i \in 0..n |-> Step(g, i)]
  <2>3. g = [i \in 0..(n - 1) |-> Step(g, i)]
    BY <2>2 DEF Moved
  <2> HIDE DEF Step
  <2>4. \A i \in 0..(n - 1) : g[i] = Step(g, i)
    BY <2>3
  <2>5. \A i \in 0..(n - 1) : i \in 0..n /\ h[i] = g[i]
    BY <2>1, <2>4
  <2>6. \A i \in 0..n : i # 0 => i - 1 \in 0..(n - 1)
    BY <2>1
  <2> HIDE DEF h
  <2>7. \A i \in 0..n : Step(g, i) = Step(h, i)
    BY <2>5, <2>6 DEF Step
  <2>8. h = [i \in 0..n |-> Step(h, i)]
    BY <2>7 DEF h
  <2>9. Moved(d, from, to, list, n, h)
    BY <2>8 DEF Moved, Step
  <2> QED  BY <2>9
<1> QED  BY <1>2, <1>3

LEMMA TransfersKeepEntries ==
  ASSUME NEW d, AllEntries(d), NEW from, NEW to, NEW list, Len(list) \in Nat,
         NEW e \in TransferESDTs(d, from, to, list)
  PROVE  AllEntries(e) /\ DOMAIN e = DOMAIN d
<1> DEFINE n == Len(list)
           g == CHOOSE f : Moved(d, from, to, list, n, f)
           Bad == {i \in 0..n : ~ \A x \in g[i] : AllEntries(x) /\ DOMAIN x = DOMAIN d}
<1>1. Moved(d, from, to, list, n, g)
  BY MovedExists
<1>2. e \in g[n]
  BY DEF TransferESDTs, Moved
<1> HIDE DEF g, n
<1>3. \A i \in 0..n :
        g[i] = IF i = 0 THEN {d}
               ELSE UNION {TransferESDT(x, from, to, list[i]) : x \in g[i - 1]}
  BY <1>1 DEF Moved
<1>4. n \in Nat
  BY DEF n
<1>5. Bad = {}
  <2> SUFFICES ASSUME Bad # {} PROVE FALSE
    OBVIOUS
  <2>1. PICK i \in Bad : \A j \in Bad : i <= j
    <3>1. Bad \in SUBSET Nat
      BY <1>4
    <3> HIDE DEF Bad
    <3> QED  BY <3>1, LeastNat
  <2>2. PICK x \in g[i] : ~ (AllEntries(x) /\ DOMAIN x = DOMAIN d)
    OBVIOUS
  <2>3. i \in 0..n /\ i # 0
    BY <1>3, <2>2
  <2>4. i - 1 \in 0..n /\ i - 1 \notin Bad
    BY <1>4, <2>1, <2>3
  <2>5. PICK y \in g[i - 1] : x \in TransferESDT(y, from, to, list[i])
    <3>1. g[i] = UNION {TransferESDT(z, from, to, list[i]) : z \in g[i - 1]}
      BY <1>3, <2>3
    <3> HIDE DEF Bad
    <3> QED  BY <2>2, <3>1
  <2>6. AllEntries(y) /\ DOMAIN y = DOMAIN d
    BY <2>4
  <2> QED  BY <2>2, <2>5, <2>6, TransferKeepsEntries
<1>6. n \in 0..n
  BY <1>4
<1> QED  BY <1>2, <1>5, <1>6

(* Accounts that hold the tokens of others.                                  *)
SameTokens(accounts, after) ==
  DOMAIN after = DOMAIN accounts /\ \A a \in DOMAIN after : after[a].esdt = accounts[a].esdt

LEMMA SameTokensKeep ==
  ASSUME NEW accounts, HaveEntries(accounts), NEW after, SameTokens(accounts, after)
  PROVE  HaveEntries(after)
BY DEF HaveEntries, SameTokens

LEMMA PutKeepsEntries ==
  ASSUME NEW accounts, HaveEntries(accounts), NEW a, NEW acct, AreEntries(acct.esdt)
  PROVE  HaveEntries(Put(accounts, a, acct))
<1>1. \A x \in DOMAIN Put(accounts, a, acct) :
        \/ Put(accounts, a, acct)[x] = acct
        \/ x \in DOMAIN accounts /\ Put(accounts, a, acct)[x] = accounts[x]
  BY DEF Put
<1> QED  BY <1>1 DEF HaveEntries

LEMMA CreatedHasEntries ==
  ASSUME NEW accounts, HaveEntries(accounts), NEW a
  PROVE  AreEntries(CreateAccount(accounts, a)[a].esdt)
<1>1. AreEntries(NewAccount.esdt)
  BY DEF NewAccount, EmptyMap, AreEntries
<1> QED  BY <1>1 DEF CreateAccount, HaveEntries, Put

LEMMA MoveKeepsTokens ==
  ASSUME NEW accounts, AreAccounts(accounts), NEW from, NEW to, NEW v
  PROVE  SameTokens(accounts, MoveEgld(accounts, from, to, v))
<1> DEFINE mid == [accounts EXCEPT ![from] =
                     [accounts[from] EXCEPT !.balance = accounts[from].balance - v]]
           after == [mid EXCEPT ![to] = [mid[to] EXCEPT !.balance = mid[to].balance + v]]
<1>1. MoveEgld(accounts, from, to, v) \in {accounts, after}
  BY DEF MoveEgld
<1>2. \A a \in DOMAIN accounts : DOMAIN accounts[a] = AccountFields
  BY DEF AreAccounts, IsAccountRecord
<1>3. /\ DOMAIN mid = DOMAIN accounts
      /\ \A a \in DOMAIN mid : DOMAIN mid[a] = AccountFields /\ mid[a].esdt = accounts[a].esdt
  BY <1>2 DEF AccountFields
<1> HIDE DEF mid
<1>4. /\ DOMAIN after = DOMAIN mid
      /\ \A a \in DOMAIN after : after[a].esdt = mid[a].esdt
  BY <1>3 DEF AccountFields
<1> HIDE DEF after
<1> QED  BY <1>1, <1>3, <1>4 DEF SameTokens

LEMMA SetAccountKeepsEntries ==
  ASSUME NEW c, IsConfig(c), HaveEntries(c.accounts), NEW s, NEW d \in SetAccount(c, s)
  PROVE  HaveEntries(d.accounts)
<1> DEFINE old == CreateAccount(c.accounts, s.addr)[s.addr]
           acct == [old EXCEPT !.nonce = s.nonce, !.balance = s.balance, !.code = s.code,
                               !.owner = s.owner, !.storage = s.storage]
<1>1. IsAccountRecord(old) /\ AreEntries(old.esdt)
  BY Created, CreatedHasEntries DEF IsConfig
<1>2. d.accounts = Put(c.accounts, s.addr, acct)
  BY DEF SetAccount, IsConfig, ConfigFields
<1> HIDE DEF old
<1>3. acct.esdt = old.esdt
  BY <1>1 DEF IsAccountRecord, AccountFields
<1> HIDE DEF acct
<1> QED  BY <1>1, <1>2, <1>3, PutKeepsEntries

LEMMA WithEsdtHasEntries ==
  ASSUME NEW c, IsConfig(c), NEW e, AllEntries(e), DOMAIN e = DOMAIN c.accounts
  PROVE  HaveEntries(WithEsdt(c, e).accounts)
<1> DEFINE after == [a \in DOMAIN c.accounts |-> [c.accounts[a] EXCEPT !.esdt = e[a]]]
<1>1. WithEsdt(c, e).accounts = after
  BY DEF WithEsdt, IsConfig, ConfigFields
<1>2. \A a \in DOMAIN c.accounts : DOMAIN c.accounts[a] = AccountFields
  BY DEF IsConfig, AreAccounts, IsAccountRecord
<1>3. DOMAIN after = DOMAIN c.accounts /\ \A a \in DOMAIN after : after[a].esdt = e[a]
  BY <1>2 DEF AccountFields
<1> HIDE DEF after
<1> QED  BY <1>1, <1>3 DEF HaveEntries, AllEntries

LEMMA UpdateKeepsEntries ==
  ASSUME NEW c, IsConfig(c), HaveEntries(c.accounts), NEW a, NEW key, NEW entry,
         DOMAIN entry = EntryFields, NEW d \in UpdateEntry(c, a, key, entry)
  PROVE  HaveEntries(d.accounts)
<1> DEFINE e == SetEntry(EsdtOf(c), a, key, entry)
<1>1. d = WithEsdt(c, e) /\ a \in DOMAIN c.accounts
  BY DEF UpdateEntry, IsAccount
<1>2. AllEntries(EsdtOf(c)) /\ DOMAIN EsdtOf(c) = DOMAIN c.accounts
  BY EntriesOf DEF EsdtOf
<1>3. AllEntries(e) /\ DOMAIN e = DOMAIN c.accounts
  BY <1>1, <1>2, SetEntryKeeps
<1> HIDE DEF e
<1> QED  BY <1>1, <1>3, WithEsdtHasEntries

(* What a builtin makes of token data with whole entries.                    *)
BuiltinHasEntries(d, o) == o.status = "OK" => AllEntries(o.data) /\ DOMAIN o.data = DOMAIN d

LEMMA SaveKeepsEntries ==
  ASSUME NEW d, AllEntries(d), NEW a \in DOMAIN d, NEW token, NEW quantity, NEW uris,
         NEW o \in SaveNFT(d, a, token, quantity, uris)
  PROVE  BuiltinHasEntries(d, o)
<1> DEFINE nonce == GetLatestNonce(d, a, token) + 1
           key == KeyWithNonce(token, nonce)
           nft == [NewEntry EXCEPT !.balance = quantity, !.metadata = EsdtMetadata(nonce, a, uris)]
           entry == [d[a][token] EXCEPT !.lastNonce = nonce]
           mid == SetEntry(d, a, key, nft)
           after == SetEntry(mid, a, token, entry)
<1>1. o = Success(after, <<nonce>>, {}) /\ token \in DOMAIN d[a]
  BY DEF SaveNFT, Holds
<1>2. DOMAIN nft = EntryFields
  BY DEF NewEntry, EntryFields
<1>3. DOMAIN entry = EntryFields
  BY <1>1 DEF AllEntries, AreEntries
<1> HIDE DEF nft, entry, nonce, key
<1>4. AllEntries(mid) /\ DOMAIN mid = DOMAIN d
  BY <1>2, SetEntryKeeps
<1> HIDE DEF mid
<1>5. AllEntries(after) /\ DOMAIN after = DOMAIN mid
  BY <1>3, <1>4, SetEntryKeeps
<1> HIDE DEF after
<1> QED  BY <1>1, <1>4, <1>5 DEF BuiltinHasEntries, Success

LEMMA BuiltinKeepsEntries ==
  ASSUME NEW d, AllEntries(d), NEW func \in Builtins, NEW from \in DOMAIN d, NEW to, NEW value,
         NEW args, NEW o \in ProcessBuiltinFunction(d, func, from, to, value, args)
  PROVE  BuiltinHasEntries(d, o)
<1> DEFINE Whole(results) == \A x \in results : BuiltinHasEntries(d, x)
           Kept(results) == \A e \in results : AllEntries(e) /\ DOMAIN e = DOMAIN d
<1>1. \A code : code # "OK" => Whole(Raises(code))
  BY DEF Raises, BuiltinHasEntries
<1>2. \A e, out, call : AllEntries(e) /\ DOMAIN e = DOMAIN d =>
        BuiltinHasEntries(d, Success(e, out, call))
  BY DEF Success, BuiltinHasEntries
<1>3. \A results : Kept(results) => Whole(Succeeds(results))
  BY <1>2 DEF Succeeds
<1>4. \A holds, rest : Whole(rest) => Whole(CheckBool(holds, rest))
  BY <1>1 DEF CheckBool
<1>5. \A a, token, role, rest :
        Whole(rest) => Whole(CheckAllowedToExecute(d, a, token, role, rest))
  BY <1>1 DEF CheckAllowedToExecute
<1>6. \A a, key, v, rest : Whole(rest) => Whole(CheckBalance(d, a, key, v, rest))
  BY <1>1 DEF CheckBalance
<1>7. \A n, rest : Whole(rest) => Whole(CalledOnItself(from, to, value, args, n, rest))
  BY <1>4 DEF CalledOnItself
<1>8. \A dest, list, i :
        Len(list) \in Nat => Whole(TransferAndCall(d, from, dest, list, args, i))
  <2> SUFFICES ASSUME NEW dest, NEW list, NEW i, Len(list) \in Nat,
                      NEW x \in TransferAndCall(d, from, dest, list, args, i)
               PROVE  BuiltinHasEntries(d, x)
    OBVIOUS
  <2> DEFINE call == IF i > Len(args) \/ args[i] = "" THEN {}
                     ELSE {[to |-> dest, func |-> args[i], args |-> RangeTotal(args, i + 1)]}
             moved == TransferESDTs(d, from, dest, list)
  <2>1. TransferAndCall(d, from, dest, list, args, i) =
          IF ~({from, dest} \subseteq DOMAIN d) THEN Raises("ExecutionFailed")
          ELSE IF moved = {} THEN Raises("OutOfFunds") ELSE {Success(e, <<>>, call) : e \in moved}
    BY DEF TransferAndCall
  <2>2. \A e \in moved : AllEntries(e) /\ DOMAIN e = DOMAIN d
    BY TransfersKeepEntries
  <2> HIDE DEF moved, call
  <2>3. \/ x \in Raises("ExecutionFailed") \/ x \in Raises("OutOfFunds")
        \/ \E e \in moved : x = Success(e, <<>>, call)
    BY <2>1
  <2>4. CASE \E e \in moved : x = Success(e, <<>>, call)
    BY <1>2, <2>2, <2>4
  <2> QED  BY <1>1, <2>3, <2>4
<1>9. \A token, quantity, uris : Whole(SaveNFT(d, from, token, quantity, uris))
  BY SaveKeepsEntries
<1>10. \A key, delta, allowNew : Kept(AddToESDTBalance(d, from, key, delta, allowNew))
  BY AddKeepsEntries
<1>11. \A t : Len(<<t>>) \in Nat
  BY ListOne DEF IsList
<1>12. ESDTNFTBurn(d, from, to, value, args) =
         CalledOnItself(from, to, value, args, 2,
           CheckAllowedToExecute(d, from, args[1], "ESDTRoleNFTBurn",
             CheckBalance(d, from, KeyWithNonce(args[1], GetArgUInt(args, 2)), GetArgUInt(args, 3),
               Succeeds({RemoveEmptyNft(e, from, KeyWithNonce(args[1], GetArgUInt(args, 2))) :
                           e \in AddToESDTBalance(d, from, KeyWithNonce(args[1], GetArgUInt(args, 2)),
                                                  -GetArgUInt(args, 3), FALSE)}))))
  BY DEF ESDTNFTBurn
<1>13. \A key, results : Kept(results) => Kept({RemoveEmptyNft(e, from, key) : e \in results})
  BY RemoveKeepsEntries
<1>14. Whole(ESDTNFTAddURI(d, from, to, value, args))
  <2> DEFINE key == KeyWithNonce(args[1], GetArgUInt(args, 2))
             entry == EntryOrNew(d, from, key)
             uris == RangeTotal(args, 3)
             Added(m) == SetEntry(d, from, key,
                                  [entry EXCEPT !.metadata = {[m EXCEPT !.uris = @ \o uris]}])
             rest == IF entry.metadata = {} THEN Raises("UserError")
                     ELSE Succeeds({Added(m) : m \in entry.metadata})
  <2>1. ESDTNFTAddURI(d, from, to, value, args) =
          CalledOnItself(from, to, value, args, 3,
            CheckAllowedToExecute(d, from, args[1], "ESDTRoleNFTAddURI", rest))
    BY DEF ESDTNFTAddURI
  <2>2. ASSUME NEW m PROVE AllEntries(Added(m)) /\ DOMAIN Added(m) = DOMAIN d
    <3> DEFINE more == {[m EXCEPT !.uris = @ \o uris]}
               extended == [entry EXCEPT !.metadata = more]
    <3>1. DOMAIN entry = EntryFields
      BY EntryHasFields
    <3> HIDE DEF entry, more, key, uris
    <3>2. DOMAIN extended = EntryFields
      BY <3>1
    <3>3. Added(m) = SetEntry(d, from, key, extended)
      BY DEF more
    <3> HIDE DEF extended, Added
    <3> QED  BY <3>2, <3>3, SetEntryKeeps
  <2> HIDE DEF Added
  <2>3. Kept({Added(m) : m \in entry.metadata})
    BY <2>2
  <2>4. Whole(rest)
    <3> HIDE DEF Whole, Kept, entry
    <3> QED  BY <1>1, <1>3, <2>3
  <2> HIDE DEF Whole, rest
  <2> QED  BY <1>5, <1>7, <2>1, <2>4
<1> HIDE DEF Whole, Kept
<1>15. Whole(ESDTLocalMint(d, from, to, value, args))
  BY <1>3, <1>5, <1>7, <1>10 DEF ESDTLocalMint
<1>16. Whole(ESDTLocalBurn(d, from, to, value, args))
  BY <1>3, <1>5, <1>6, <1>7, <1>10 DEF ESDTLocalBurn
<1>17. Whole(ESDTNFTBurn(d, from, to, value, args))
  BY <1>3, <1>5, <1>6, <1>7, <1>10, <1>12, <1>13
<1>18. Whole(ESDTTransfer(d, from, to, value, args))
  BY <1>4, <1>8, <1>11 DEF ESDTTransfer
<1>19. Whole(MultiESDTNFTTransfer(d, from, to, value, args))
  <2> DEFINE num == GetArgUInt(args, 2)
             list == [i \in 1..num |-> [token |-> args[3 * i], nonce |-> GetArgUInt(args, 3 * i + 1),
                                        value |-> GetArgUInt(args, 3 * i + 2)]]
  <2>1. num \in Nat
    BY DEF GetArgUInt
  <2>2. Len(list) \in Nat
    <3> HIDE DEF num
    <3> QED  BY <2>1, FunctionIsList DEF IsList
  <2> HIDE DEF list
  <2>3. Whole(TransferAndCall(d, from, args[1], list, args, num * 3 + 3))
    BY <1>8, <2>2
  <2>4. MultiESDTNFTTransfer(d, from, to, value, args) =
          CalledOnItself(from, to, value, args, 4,
            CheckBool(num > 0 /\ Len(args) >= num * 3 + 2,
              TransferAndCall(d, from, args[1], list, args, num * 3 + 3)))
    BY DEF MultiESDTNFTTransfer, list
  <2> HIDE DEF num
  <2> QED  BY <1>4, <1>7, <2>3, <2>4
<1>20. Whole(ESDTNFTTransfer(d, from, to, value, args))
  BY <1>7, <1>8, <1>11 DEF ESDTNFTTransfer
<1>21. Whole(ESDTNFTCreate(d, from, to, value, args))
  BY <1>4, <1>5, <1>7, <1>9 DEF ESDTNFTCreate
<1>22. Whole(ESDTNFTAddQuantity(d, from, to, value, args))
  BY <1>3, <1>4, <1>5, <1>7, <1>10 DEF ESDTNFTAddQuantity
<1>23. Whole(ProcessBuiltinFunction(d, func, from, to, value, args))
  BY <1>14, <1>15, <1>16, <1>17, <1>18, <1>19, <1>20, <1>21, <1>22
     DEF ProcessBuiltinFunction, Builtins
<1> QED  BY <1>23 DEF Whole

(* A call that ended without an exception left whole entries.                *)
EndsWhole(e) == e.status = "OK" => HaveEntries(e.config.accounts)

LEMMA MkCallKeepsEntries ==
  ASSUME NEW c, IsConfig(c), HaveEntries(c.accounts), NEW to, NEW func, NEW args,
         NEW e \in MkCall(c, to, func, args)
  PROVE  EndsWhole(e)
<1> DEFINE stored == ContractStores(c.accounts, to, Argument(args))
           d == [c EXCEPT !.accounts = stored]
<1>1. SameTokens(c.accounts, stored)
  <2>1. \A a \in DOMAIN c.accounts : DOMAIN c.accounts[a] = AccountFields
    BY DEF IsConfig, AreAccounts, IsAccountRecord
  <2> QED  BY <2>1 DEF SameTokens, ContractStores, AccountFields
<1>2. HaveEntries(stored)
  BY <1>1, SameTokensKeep
<1> HIDE DEF stored
<1>3. HaveEntries(d.accounts)
  BY <1>2 DEF IsConfig, ConfigFields
<1> HIDE DEF d
<1>4. \/ e \in Fails("FunctionNotFound") \/ e \in Fails("UserError")
      \/ e.config \in {c, d}
  BY DEF MkCall, Ends, d, stored
<1> QED  BY <1>3, <1>4 DEF EndsWhole, Fails

LEMMA AuxKeepsEntries ==
  ASSUME NEW c, IsConfig(c), HaveEntries(c.accounts), NEW from \in DOMAIN c.accounts, NEW to,
         NEW value, NEW func, NEW args, NEW e \in CallContractAux(c, from, to, value, func, args)
  PROVE  EndsWhole(e)
<1>1. \/ func \in Builtins /\ e \in BuiltinOutcomes(c, from, to, value, func, args)
      \/ e \in Fails("ExecutionFailed") \/ e \in Fails("ContractNotFound")
      \/ e \in MkCall(c, to, func, args)
  BY DEF CallContractAux
<1>2. ASSUME func \in Builtins, e \in BuiltinOutcomes(c, from, to, value, func, args),
             e.status = "OK"
      PROVE  HaveEntries(e.config.accounts)
  <2>1. PICK o \in ProcessBuiltinFunction(EsdtOf(c), func, from, to, value, args) :
          e \in IF o.status = "OK" THEN DetermineIsSCCallAfter(WithEsdt(c, o.data), o)
                ELSE Fails(o.status)
    BY <1>2 DEF BuiltinOutcomes
  <2>2. o.status = "OK"
    BY <1>2, <2>1 DEF Fails
  <2>3. AllEntries(EsdtOf(c)) /\ DOMAIN EsdtOf(c) = DOMAIN c.accounts
    BY EntriesOf DEF EsdtOf
  <2>4. AllEntries(o.data) /\ DOMAIN o.data = DOMAIN c.accounts
    BY <1>2, <2>2, <2>3, BuiltinKeepsEntries DEF BuiltinHasEntries
  <2> DEFINE m == WithEsdt(c, o.data)
  <2>5. HaveEntries(m.accounts) /\ Keeps(c, m, 0) /\ e \in DetermineIsSCCallAfter(m, o)
    BY <2>1, <2>2, <2>4, WithEsdtHasEntries, WithEsdtKeeps
  <2> HIDE DEF m
  <2>6. \/ e \in Ends(m, o.out)
        \/ \E call \in o.call : e \in MkCall(m, call.to, call.func, call.args)
    BY <2>5 DEF DetermineIsSCCallAfter
  <2>7. EndsWhole(e)
    BY <2>5, <2>6, KeepsIsConfig, MkCallKeepsEntries DEF Ends, EndsWhole
  <2> QED  BY <1>2, <2>7 DEF EndsWhole
<1> QED  BY <1>1, <1>2, MkCallKeepsEntries DEF EndsWhole, Fails

LEMMA PaymentKeepsEntries ==
  ASSUME NEW c, IsConfig(c), HaveEntries(c.accounts), NEW from, NEW to, NEW value,
         NEW esdt, Len(esdt) \in Nat, NEW p \in Payments(c, from, to, value, esdt)
  PROVE  HaveEntries(p.accounts) /\ DOMAIN p.accounts = DOMAIN c.accounts
<1>1. PICK e \in TransferESDTs(EsdtOf(c), from, to, esdt) :
        p = [WithEsdt(c, e) EXCEPT !.accounts = MoveEgld(@, from, to, value)]
  BY DEF Payments
<1> DEFINE m == WithEsdt(c, e)
           paid == MoveEgld(m.accounts, from, to, value)
<1>2. AllEntries(EsdtOf(c)) /\ DOMAIN EsdtOf(c) = DOMAIN c.accounts
  BY EntriesOf DEF EsdtOf
<1>3. AllEntries(e) /\ DOMAIN e = DOMAIN c.accounts
  BY <1>2, TransfersKeepEntries
<1>4. HaveEntries(m.accounts) /\ Keeps(c, m, 0) /\ DOMAIN m.accounts = DOMAIN c.accounts
  BY <1>3, WithEsdtHasEntries, WithEsdtKeeps
<1>5. p = [m EXCEPT !.accounts = paid]
  BY <1>1
<1> HIDE DEF m
<1>6. IsConfig(m)
  BY <1>4, KeepsIsConfig
<1>7. SameTokens(m.accounts, paid)
  BY <1>6, MoveKeepsTokens DEF IsConfig
<1>8. HaveEntries(paid) /\ DOMAIN paid = DOMAIN c.accounts
  BY <1>4, <1>7, SameTokensKeep DEF SameTokens
<1> HIDE DEF paid
<1> QED  BY <1>5, <1>6, <1>8 DEF IsConfig, ConfigFields

LEMMA CallKeepsEntries ==
  ASSUME NEW c, IsConfig(c), HaveEntries(c.accounts), NEW from, NEW to, NEW value \in Int,
         NEW esdt, Len(esdt) \in Nat, NEW func, NEW args,
         NEW d \in CallContract(c, from, to, value, esdt, func, args)
  PROVE  HaveEntries(d.accounts)
<1>1. PICK e \in CallOutcomes(c, from, to, value, esdt, func, args) :
        d = [(IF e.status = "OK" THEN e.config ELSE c) EXCEPT !.vmOutput = Output(e, c.txCount)]
  BY DEF CallContract
<1>2. CASE e.status = "OK"
  <2>1. /\ {from, to} \subseteq DOMAIN c.accounts
        /\ \E p \in Payments(c, from, to, value, esdt) :
             e \in CallContractAux(p, from, to, value, func, args)
    BY <1>2 DEF CallOutcomes, Fails
  <2>2. PICK p \in Payments(c, from, to, value, esdt) :
          e \in CallContractAux(p, from, to, value, func, args)
    BY <2>1
  <2>3. HaveEntries(p.accounts) /\ from \in DOMAIN p.accounts
    BY <2>1, PaymentKeepsEntries
  <2>4. IsConfig(p)
    BY <2>1, PaymentKeeps, KeepsIsConfig
  <2>5. HaveEntries(e.config.accounts)
    BY <1>2, <2>2, <2>3, <2>4, AuxKeepsEntries DEF EndsWhole
  <2>6. DOMAIN e.config = ConfigFields
    BY <1>2, OutcomeKeeps DEF EndsKeeping, Keeps
  <2> QED  BY <1>1, <1>2, <2>5, <2>6 DEF ConfigFields
<1>3. CASE e.status # "OK"
  BY <1>1, <1>3 DEF IsConfig, ConfigFields
<1> QED  BY <1>2, <1>3

LEMMA SentKeepsEntries ==
  ASSUME NEW c, IsConfig(c), HaveEntries(c.accounts), NEW from \in DOMAIN c.accounts, NEW fee
  PROVE  HaveEntries(Sent(c, from, fee).accounts)
<1>1. \A a \in DOMAIN c.accounts : DOMAIN c.accounts[a] = AccountFields
  BY DEF IsConfig, AreAccounts, IsAccountRecord
<1>2. SameTokens(c.accounts, Sent(c, from, fee).accounts)
  BY <1>1 DEF Sent, SameTokens, IsConfig, ConfigFields, AccountFields
<1> QED  BY <1>2, SameTokensKeep

LEMMA TransactionsKeepEntries ==
  ASSUME NEW c, IsConfig(c), HaveEntries(c.accounts), NEW s, LegalStep(s), s.op \in CallOps,
         NEW d \in StepResults(c, s)
  PROVE  HaveEntries(d.accounts)
<1>0. Len(<<>>) \in Nat
  BY EmptyList
<1>1. CASE s.op = "queryTx"
  <2> DEFINE sent == [c EXCEPT !.txCount = c.txCount + 1]
  <2>1. d \in CallContract(sent, s.to, s.to, 0, <<>>, s.func, s.args)
    BY <1>1 DEF StepResults, QueryTx
  <2>2. sent.accounts = c.accounts /\ IsConfig(sent)
    BY DEF IsConfig, ConfigFields
  <2> HIDE DEF sent
  <2> QED  BY <1>0, <2>1, <2>2, CallKeepsEntries
<1>2. CASE s.op = "callTx"
  <2> DEFINE sent == Sent(c, s.from, s.fee)
  <2>1. s.fee \in Int /\ s.value \in Int /\ Len(s.esdt) \in Nat /\ d \in CallTx(c, s)
    BY <1>2 DEF LegalStep, IsList, StepResults
  <2>2. s.from \in DOMAIN c.accounts
        /\ d \in CallContract(sent, s.from, s.to, s.value, s.esdt, s.func, s.args)
    BY <2>1 DEF CallTx, IsAccount
  <2>3. IsConfig(sent) /\ HaveEntries(sent.accounts)
    BY <2>1, <2>2, SentKeeps, SentKeepsEntries
  <2> HIDE DEF sent
  <2> QED  BY <2>1, <2>2, <2>3, CallKeepsEntries
<1>3. CASE s.op = "deployTx"
  <2> DEFINE new == c.newAddresses[<<s.from, c.accounts[s.from].nonce>>]
             sent == Sent(c, s.from, s.fee)
             old == CreateAccount(sent.accounts, new)[new]
             acct == [old EXCEPT !.owner = s.from, !.code = {s.module}]
             made == [sent EXCEPT !.accounts = Put(sent.accounts, new, acct)]
  <2>1. s.fee \in Int /\ s.value \in Int /\ d \in DeployTx(c, s)
    BY <1>3 DEF LegalStep, StepResults
  <2>2. s.from \in DOMAIN c.accounts
        /\ d \in CallContract(made, s.from, new, s.value, <<>>, "init", s.args)
    BY <2>1 DEF DeployTx, IsAccount
  <2>3. IsConfig(sent) /\ HaveEntries(sent.accounts) /\ AreAccounts(sent.accounts)
    BY <2>1, <2>2, SentKeeps, SentKeepsEntries DEF IsConfig
  <2> HIDE DEF sent, new
  <2>4. IsAccountRecord(old) /\ AreEntries(old.esdt)
    BY <2>3, Created, CreatedHasEntries
  <2> HIDE DEF old
  <2>5. IsAccountRecord(acct) /\ acct.esdt = old.esdt
    BY <2>4 DEF IsAccountRecord, AccountFields
  <2> HIDE DEF acct
  <2>6. DOMAIN made = ConfigFields /\ made.txCount = sent.txCount
        /\ made.accounts = Put(sent.accounts, new, acct)
    BY <2>3 DEF IsConfig, ConfigFields
  <2> HIDE DEF made
  <2>7. IsConfig(made)
    <3>1. Earn(sent.accounts, Put(sent.accounts, new, acct),
               acct.balance - (IF new \in DOMAIN sent.accounts THEN sent.accounts[new].balance
                               ELSE 0))
      BY <2>3, <2>5, PutAccount
    <3> QED  BY <2>3, <2>6, <3>1 DEF IsConfig, Earn
  <2>8. HaveEntries(made.accounts)
    BY <2>3, <2>4, <2>5, <2>6, PutKeepsEntries
  <2> QED  BY <1>0, <2>1, <2>2, <2>7, <2>8, CallKeepsEntries
<1> QED  BY <1>1, <1>2, <1>3 DEF CallOps

LEMMA StepsKeepEntries ==
  ASSUME NEW c, IsConfig(c), HaveEntries(c.accounts), NEW s, LegalStep(s),
         NEW d \in StepResults(c, s)
  PROVE  HaveEntries(d.accounts)
<1>1. CASE s.op = "setAccount"
  BY <1>1, SetAccountKeepsEntries DEF StepResults
<1>2. CASE s.op \in {"newAddress", "setBlockInfo"}
  <2>1. d.accounts = c.accounts
    BY <1>2 DEF StepResults, NewAddress, SetBlockInfo, IsConfig, ConfigFields
  <2> QED  BY <2>1
<1>3. CASE s.op \in {"setEsdtBalance", "setEsdtLastNonce", "setEsdtRoles"}
  <2>1. AllEntries(EsdtOf(c))
    BY EntriesOf
  <2>2. \A a, key : DOMAIN Entry(c, a, key) = EntryFields
    BY <2>1, EntryHasFields DEF Entry
  <2>3. \E a, key, entry : DOMAIN entry = EntryFields /\ d \in UpdateEntry(c, a, key, entry)
    <3>1. CASE s.op = "setEsdtBalance"
      <4> DEFINE key == KeyWithNonce(s.token, s.instance.nonce)
                 old == Entry(c, s.addr, key)
                 entry == [old EXCEPT !.balance = s.instance.amount,
                                      !.metadata = s.instance.metadata]
      <4>1. DOMAIN entry = EntryFields
        BY <2>2
      <4>2. d \in UpdateEntry(c, s.addr, key, entry)
        BY <3>1 DEF StepResults, SetEsdtBalance
      <4> HIDE DEF entry, key
      <4> QED  BY <4>1, <4>2
    <3>2. CASE s.op = "setEsdtLastNonce"
      <4> DEFINE key == KeyWithNonce(s.token, 0)
                 entry == [Entry(c, s.addr, key) EXCEPT !.lastNonce = s.nonce]
      <4>1. DOMAIN entry = EntryFields
        BY <2>2
      <4>2. d \in UpdateEntry(c, s.addr, key, entry)
        BY <3>2 DEF StepResults, SetEsdtLastNonce
      <4> HIDE DEF entry, key
      <4> QED  BY <4>1, <4>2
    <3>3. CASE s.op = "setEsdtRoles"
      <4> DEFINE key == KeyWithNonce(s.token, 0)
                 entry == [Entry(c, s.addr, key) EXCEPT !.roles = s.roles]
      <4>1. DOMAIN entry = EntryFields
        BY <2>2
      <4>2. d \in UpdateEntry(c, s.addr, key, entry)
        BY <3>3 DEF StepResults, SetEsdtRoles
      <4> HIDE DEF entry, key
      <4> QED  BY <4>1, <4>2
    <3> QED  BY <1>3, <3>1, <3>2, <3>3
  <2> QED  BY <2>3, UpdateKeepsEntries
<1>4. CASE s.op \in CheckingOps
  <2>1. Holding(c, c.accounts)
    BY DEF Holding, IsConfig
  <2>2. d.accounts = c.accounts
    BY <1>4, <2>1, CheckingKeepsAccounts DEF Holding
  <2> QED  BY <2>2
<1>5. CASE s.op \in ExpectOps
  BY <1>5, CheckingHasEffect DEF StepEffect
<1>6. CASE s.op \in CallOps
  BY <1>6, TransactionsKeepEntries
<1>7. CASE s.op = "transfer"
  <2> DEFINE moved == MoveEgld(c.accounts, s.from, s.to, s.value)
             after == UseNonce(moved, s.from)
  <2>1. d = [c EXCEPT !.accounts = after] /\ {s.from, s.to} \subseteq DOMAIN c.accounts
    BY <1>7 DEF StepResults, TransferTx
  <2>2. s.value \in Int
    BY <1>7 DEF LegalStep
  <2>3. SameTokens(c.accounts, moved)
    BY MoveKeepsTokens DEF IsConfig
  <2>4. AreAccounts(moved)
    BY <2>1, <2>2, MovesEgld DEF IsConfig, Earn
  <2> HIDE DEF moved
  <2>5. \A a \in DOMAIN moved : DOMAIN moved[a] = AccountFields
    BY <2>4 DEF AreAccounts, IsAccountRecord
  <2>6. SameTokens(moved, after)
    BY <2>5 DEF SameTokens, UseNonce, AccountFields
  <2> HIDE DEF after
  <2>7. d.accounts = after
    BY <2>1 DEF IsConfig, ConfigFields
  <2> QED  BY <2>3, <2>6, <2>7, SameTokensKeep
<1>8. CASE s.op = "validatorReward"
  <2> DEFINE paid == Reward(c.accounts[s.to], s.value)
  <2>1. s.to \in DOMAIN c.accounts /\ d.accounts = [c.accounts EXCEPT ![s.to] = paid]
    BY <1>8 DEF StepResults, ValidatorRewardTx, IsAccount, IsConfig, ConfigFields
  <2>2. DOMAIN c.accounts[s.to] = AccountFields
    BY <2>1 DEF IsConfig, AreAccounts, IsAccountRecord
  <2>3. paid.esdt = c.accounts[s.to].esdt
    BY <2>2 DEF Reward, AccountFields
  <2> HIDE DEF paid
  <2>4. SameTokens(c.accounts, d.accounts)
    BY <2>1, <2>3 DEF SameTokens
  <2> QED  BY <2>4, SameTokensKeep
<1> QED
  <2>1. s.op \in Ops
    BY DEF LegalStep
  <2> QED  BY <1>1, <1>2, <1>3, <1>4, <1>5, <1>6, <1>7, <1>8, <2>1 DEF Ops, SetOps

(* The invariant of a run, with whole entries.                               *)
EntriesInv == Inv /\ HaveEntries(config.accounts)

LEMMA TemplateHasEntries == HaveEntries(TemplateConfig.accounts)
<1> DEFINE s == [addr |-> SystemAccount, nonce |-> 0, balance |-> 0, code |-> {SystemModule},
                 owner |-> NoAddress, storage |-> EmptyMap]
<1>1. IsConfig(InitialConfig) /\ HaveEntries(InitialConfig.accounts)
  BY FS_EmptySet DEF IsConfig, InitialConfig, ConfigFields, AreAccounts, EmptyMap, HaveEntries
<1>2. TemplateConfig \in SetAccount(InitialConfig, s)
  BY DEF TemplateConfig, SetAccount
<1> HIDE DEF s
<1> QED  BY <1>1, <1>2, SetAccountKeepsEntries

LEMMA EntriesKept == EntriesInv /\ [Next]_vars => EntriesInv'
<1> SUFFICES ASSUME EntriesInv, [Next]_vars PROVE EntriesInv'
  OBVIOUS
<1>1. Inv'
  BY ScenarioNext DEF EntriesInv
<1>2. HaveEntries(config'.accounts)
  <2>1. CASE MandosStep
    <3>1. LegalStep(Head(k))
      BY <2>1, TailList DEF MandosStep, EntriesInv, Inv, StepsInv, Legal, IsList
    <3> QED  BY <2>1, <3>1, StepsKeepEntries DEF MandosStep, EntriesInv, Inv, ConfigInv
  <2>2. CASE EndOfTestFile
    BY <2>2, TemplateHasEntries DEF EndOfTestFile
  <2>3. CASE UNCHANGED config
    BY <2>3 DEF EntriesInv
  <2> QED
    BY <2>1, <2>2, <2>3 DEF Next, vars, StartTest, ReadStep, ReadExternalSteps, ReadFails,
       EndOfExternalFile, StartKrun, KrunStuck, KrunEnds, TestPasses, RunPasses
<1> QED  BY <1>1, <1>2 DEF EntriesInv

LEMMA EntriesInvariant == Spec => []EntriesInv
<1>1. Init => EntriesInv
  BY ScenarioInit, TemplateHasEntries DEF Init, EntriesInv
<1> QED  BY <1>1, EntriesKept, PTL DEF Spec

(* ------------------------ Following a list of steps ---------------------- *)

(* What follows a list that leads to one configuration goes on from there.   *)
LEMMA AfterConcat ==
  ASSUME NEW c, NEW s, NEW t, IsList(s), IsList(t), NEW e, AfterSteps(c, s) = {e}
  PROVE  AfterSteps(c, s \o t) = AfterSteps(e, t)
<1> DEFINE st == s \o t
           m == Len(s)
           n == Len(t)
           f == After(c, s)
           g == After(e, t)
           h == After(c, st)
<1>1. /\ m \in Nat /\ n \in Nat /\ Len(st) = m + n
      /\ \A i \in 1..(m + n) : st[i] = IF i <= m THEN s[i] ELSE t[i - m]
  BY ConcatList DEF IsList
<1>2. /\ AfterSteps(c, s) = f[m] /\ f[0] = {c}
      /\ \A i \in 1..m : f[i] = UNION {StepResults(d, s[i]) : d \in f[i - 1]}
  BY <1>1, AfterIs
<1>3. /\ AfterSteps(e, t) = g[n] /\ g[0] = {e}
      /\ \A i \in 1..n : g[i] = UNION {StepResults(d, t[i]) : d \in g[i - 1]}
  BY <1>1, AfterIs
<1> HIDE DEF st, m, n
<1>40. Len(st) \in Nat /\ Len(st) = m + n
  BY <1>1
<1>41. /\ AfterSteps(c, st) = h[Len(st)] /\ h[0] = {c}
       /\ \A i \in 1..Len(st) : h[i] = UNION {StepResults(d, st[i]) : d \in h[i - 1]}
  BY <1>40, AfterIs
<1> HIDE DEF f, g, h
<1>4. /\ AfterSteps(c, st) = h[m + n] /\ h[0] = {c}
      /\ \A i \in 1..(m + n) : h[i] = UNION {StepResults(d, st[i]) : d \in h[i - 1]}
  BY <1>40, <1>41
<1>5. \A i \in 0..m : h[i] = f[i]
  <2> DEFINE Bad == {i \in 0..m : h[i] # f[i]}
  <2> SUFFICES ASSUME Bad # {} PROVE FALSE
    OBVIOUS
  <2>1. PICK i \in Bad : \A j \in Bad : i <= j
    <3>1. Bad \in SUBSET Nat
      BY <1>1
    <3> HIDE DEF Bad
    <3> QED  BY <3>1, LeastNat
  <2>2. i \in 0..m /\ h[i] # f[i] /\ i # 0
    BY <1>2, <1>4
  <2>3. i \in 1..m /\ i \in 1..(m + n) /\ i <= m /\ i - 1 \in 0..m /\ i - 1 \notin Bad
    BY <1>1, <2>1, <2>2
  <2>4. h[i - 1] = f[i - 1] /\ st[i] = s[i]
    BY <1>1, <2>3
  <2>5. h[i] = UNION {StepResults(d, st[i]) : d \in h[i - 1]}
    BY <1>4, <2>3
  <2>6. f[i] = UNION {StepResults(d, s[i]) : d \in f[i - 1]}
    BY <1>2, <2>3
  <2> QED  BY <2>2, <2>4, <2>5, <2>6
<1>6. h[m] = {e}
  BY <1>1, <1>2, <1>5
<1>7. \A i \in 0..n : h[m + i] = g[i]
  <2> DEFINE Bad == {i \in 0..n : h[m + i] # g[i]}
  <2> SUFFICES ASSUME Bad # {} PROVE FALSE
    OBVIOUS
  <2>1. PICK i \in Bad : \A j \in Bad : i <= j
    <3>1. Bad \in SUBSET Nat
      BY <1>1
    <3> HIDE DEF Bad
    <3> QED  BY <3>1, LeastNat
  <2>0. h[m + 0] = g[0]
    <3>1. m + 0 = m
      BY <1>1
    <3> QED  BY <1>3, <1>6, <3>1
  <2>2. i \in 0..n /\ h[m + i] # g[i] /\ i # 0
    BY <2>0
  <2>3. /\ i \in 1..n /\ m + i \in 1..(m + n) /\ ~ (m + i <= m) /\ (m + i) - m = i
        /\ (m + i) - 1 = m + (i - 1) /\ i - 1 \in 0..n /\ i - 1 \notin Bad
    BY <1>1, <2>1, <2>2
  <2>4. h[m + (i - 1)] = g[i - 1] /\ st[m + i] = t[i]
    BY <1>1, <2>3
  <2>5. h[m + i] = UNION {StepResults(d, st[m + i]) : d \in h[m + (i - 1)]}
    BY <1>4, <2>3
  <2>6. g[i] = UNION {StepResults(d, t[i]) : d \in g[i - 1]}
    BY <1>3, <2>3
  <2> QED  BY <2>2, <2>4, <2>5, <2>6
<1>8. n \in 0..n
  BY <1>1
<1> QED  BY <1>3, <1>4, <1>7, <1>8 DEF st

LEMMA AfterOne ==
  ASSUME NEW c, NEW x
  PROVE  AfterSteps(c, <<x>>) = StepResults(c, x)
<1> DEFINE s == <<x>>
           g == After(c, s)
<1>0. Len(s) \in Nat
  OBVIOUS
<1>1. Len(s) = 1 /\ s[1] = x
  OBVIOUS
<1> HIDE DEF s
<1>2. /\ AfterSteps(c, s) = g[Len(s)] /\ g[0] = {c}
      /\ \A i \in 1..Len(s) : g[i] = UNION {StepResults(d, s[i]) : d \in g[i - 1]}
  BY <1>0, AfterIs
<1> HIDE DEF g
<1>3. g[1] = UNION {StepResults(d, s[1]) : d \in g[0]}
  <2>1. 1 \in 1..Len(s) /\ 1 - 1 = 0
    BY <1>1
  <2> QED  BY <1>2, <2>1
<1> QED  BY <1>1, <1>2, <1>3 DEF s

(* Checks that hold, all of them, leave the configuration as it is.          *)
LEMMA AfterChecks ==
  ASSUME NEW c, NEW s, IsList(s), \A x \in Values(s) : StepResults(c, x) = {c}
  PROVE  AfterSteps(c, s) = {c}
<1> DEFINE n == Len(s)
           g == After(c, s)
<1>1. n \in Nat /\ DOMAIN s = 1..n
  BY DEF IsList
<1>2. /\ AfterSteps(c, s) = g[n] /\ g[0] = {c}
      /\ \A i \in 1..n : g[i] = UNION {StepResults(d, s[i]) : d \in g[i - 1]}
  BY <1>1, AfterIs
<1>3. \A i \in 1..n : StepResults(c, s[i]) = {c}
  BY <1>1 DEF Values
<1> HIDE DEF n, g
<1>4. \A i \in 0..n : g[i] = {c}
  <2> DEFINE Bad == {i \in 0..n : g[i] # {c}}
  <2> SUFFICES ASSUME Bad # {} PROVE FALSE
    OBVIOUS
  <2>1. PICK i \in Bad : \A j \in Bad : i <= j
    <3>1. Bad \in SUBSET Nat
      BY <1>1
    <3> HIDE DEF Bad
    <3> QED  BY <3>1, LeastNat
  <2>2. i \in 0..n /\ g[i] # {c} /\ i # 0
    BY <1>2
  <2>3. i \in 1..n /\ i - 1 \in 0..n /\ i - 1 \notin Bad
    BY <1>1, <2>1, <2>2
  <2>4. g[i] = UNION {StepResults(d, s[i]) : d \in {c}}
    BY <1>2, <2>3
  <2> QED  BY <1>3, <2>2, <2>3, <2>4
<1> QED  BY <1>1, <1>2, <1>4

(* ----------------------- What a set step leaves ------------------------- *)

TokenOps == {"setEsdtBalance", "setEsdtLastNonce", "setEsdtRoles"}
KeyOf(s) == KeyWithNonce(s.token, IF s.op = "setEsdtBalance" THEN s.instance.nonce ELSE 0)

(* A configuration with the account a, its entries whole.                    *)
Whole(e, a) ==
  /\ DOMAIN e = ConfigFields /\ a \in DOMAIN e.accounts
  /\ DOMAIN e.accounts[a] = AccountFields /\ AreEntries(e.accounts[a].esdt)

SameFields(acct, new) ==
  /\ new.nonce = acct.nonce /\ new.balance = acct.balance
  /\ new.code = acct.code /\ new.storage = acct.storage

(* What a step on the token data does to the entries of its account.         *)
SetsEntry(esdt, s, new) ==
  /\ DOMAIN new = DOMAIN esdt \cup {KeyOf(s)}
  /\ \A key \in DOMAIN esdt : key # KeyOf(s) => new[key] = esdt[key]
  /\ IF s.op = "setEsdtBalance" THEN new[KeyOf(s)].balance = s.instance.amount
     ELSE KeyOf(s) \in DOMAIN esdt => new[KeyOf(s)].balance = esdt[KeyOf(s)].balance
  /\ IF s.op = "setEsdtRoles" THEN new[KeyOf(s)].roles = s.roles
     ELSE KeyOf(s) \in DOMAIN esdt => new[KeyOf(s)].roles = esdt[KeyOf(s)].roles

LEMMA UpdateOne ==
  ASSUME NEW e, NEW a, Whole(e, a), NEW key, NEW entry, DOMAIN entry = EntryFields
  PROVE  \E f : /\ UpdateEntry(e, a, key, entry) = {f} /\ Whole(f, a) /\ f.checked = e.checked
                /\ SameFields(e.accounts[a], f.accounts[a])
                /\ f.accounts[a].esdt = Put(e.accounts[a].esdt, key, entry)
<1> DEFINE data == EsdtOf(e)
           row == Put(e.accounts[a].esdt, key, entry)
           new == SetEntry(data, a, key, entry)
           after == [x \in DOMAIN e.accounts |-> [e.accounts[x] EXCEPT !.esdt = new[x]]]
           f == WithEsdt(e, new)
<1>1. UpdateEntry(e, a, key, entry) = {f}
  BY DEF UpdateEntry, IsAccount, Whole
<1>2. new[a] = row
  BY DEF SetEntry, EsdtOf, Whole
<1>3. AreEntries(row)
  BY DEF Put, Whole, AreEntries
<1> HIDE DEF new, row
<1>4. f = [e EXCEPT !.accounts = after]
  BY DEF WithEsdt
<1>5. a \in DOMAIN after /\ after[a] = [e.accounts[a] EXCEPT !.esdt = row]
  BY <1>2 DEF Whole
<1> HIDE DEF f, after
<1>6. DOMAIN f = ConfigFields /\ f.accounts = after /\ f.checked = e.checked
  BY <1>4 DEF Whole, ConfigFields
<1>7. /\ DOMAIN after[a] = AccountFields /\ after[a].esdt = row
      /\ SameFields(e.accounts[a], after[a])
  BY <1>5 DEF Whole, AccountFields, SameFields
<1>8. Whole(f, a)
  BY <1>3, <1>5, <1>6, <1>7 DEF Whole
<1> QED  BY <1>1, <1>6, <1>7, <1>8 DEF row

LEMMA TokenStepSets ==
  ASSUME NEW e, NEW a, Whole(e, a), NEW s, s.op \in TokenOps, s.addr = a
  PROVE  \E f : /\ StepResults(e, s) = {f} /\ Whole(f, a) /\ f.checked = e.checked
                /\ SameFields(e.accounts[a], f.accounts[a])
                /\ SetsEntry(e.accounts[a].esdt, s, f.accounts[a].esdt)
<1> DEFINE esdt == e.accounts[a].esdt
           key == KeyOf(s)
           old == Entry(e, a, key)
<1>1. old = IF key \in DOMAIN esdt THEN esdt[key] ELSE NewEntry
  BY DEF Entry, EntryOrNew, Holds, EsdtOf, Whole
<1>2. DOMAIN old = EntryFields
  BY <1>1 DEF Whole, AreEntries, NewEntry, EntryFields
<1>3. \E entry : /\ StepResults(e, s) = UpdateEntry(e, a, key, entry)
                 /\ DOMAIN entry = EntryFields
                 /\ entry.balance = IF s.op = "setEsdtBalance" THEN s.instance.amount
                                    ELSE old.balance
                 /\ entry.roles = IF s.op = "setEsdtRoles" THEN s.roles ELSE old.roles
  <2>1. CASE s.op = "setEsdtBalance"
    <3> DEFINE entry == [old EXCEPT !.balance = s.instance.amount,
                                    !.metadata = s.instance.metadata]
    <3>1. StepResults(e, s) = UpdateEntry(e, a, key, entry)
      BY <2>1 DEF StepResults, SetEsdtBalance, KeyOf
    <3> HIDE DEF old
    <3>2. /\ DOMAIN entry = EntryFields
          /\ entry.balance = s.instance.amount /\ entry.roles = old.roles
      BY <1>2 DEF EntryFields
    <3> HIDE DEF entry
    <3> QED  BY <2>1, <3>1, <3>2
  <2>2. CASE s.op = "setEsdtLastNonce"
    <3> DEFINE entry == [old EXCEPT !.lastNonce = s.nonce]
    <3>1. StepResults(e, s) = UpdateEntry(e, a, key, entry)
      BY <2>2 DEF StepResults, SetEsdtLastNonce, KeyOf
    <3> HIDE DEF old
    <3>2. /\ DOMAIN entry = EntryFields
          /\ entry.balance = old.balance /\ entry.roles = old.roles
      BY <1>2 DEF EntryFields
    <3> HIDE DEF entry
    <3> QED  BY <2>2, <3>1, <3>2
  <2>3. CASE s.op = "setEsdtRoles"
    <3> DEFINE entry == [old EXCEPT !.roles = s.roles]
    <3>1. StepResults(e, s) = UpdateEntry(e, a, key, entry)
      BY <2>3 DEF StepResults, SetEsdtRoles, KeyOf
    <3> HIDE DEF old
    <3>2. /\ DOMAIN entry = EntryFields
          /\ entry.balance = old.balance /\ entry.roles = s.roles
      BY <1>2 DEF EntryFields
    <3> HIDE DEF entry
    <3> QED  BY <2>3, <3>1, <3>2
  <2> QED  BY <2>1, <2>2, <2>3 DEF TokenOps
<1> HIDE DEF old, key
<1>4. PICK entry : /\ StepResults(e, s) = UpdateEntry(e, a, key, entry)
                   /\ DOMAIN entry = EntryFields
                   /\ entry.balance = IF s.op = "setEsdtBalance" THEN s.instance.amount
                                      ELSE old.balance
                   /\ entry.roles = IF s.op = "setEsdtRoles" THEN s.roles ELSE old.roles
  BY <1>3
<1>5. PICK f : /\ UpdateEntry(e, a, key, entry) = {f} /\ Whole(f, a) /\ f.checked = e.checked
               /\ SameFields(e.accounts[a], f.accounts[a])
               /\ f.accounts[a].esdt = Put(esdt, key, entry)
  BY <1>4, UpdateOne
<1>6. SetsEntry(esdt, s, Put(esdt, key, entry))
  BY <1>1, <1>4 DEF SetsEntry, Put, key
<1> QED  BY <1>4, <1>5, <1>6

(* The entries of an account after the first n steps of a list: every key    *)
(* that was set has the balance, and the roles, of some step that set it.    *)
Told(esdt, s, n) ==
  \A i \in 1..n :
    /\ s[i].op = "setEsdtBalance" =>
         /\ KeyOf(s[i]) \in DOMAIN esdt
         /\ \E j \in 1..n : /\ s[j].op = "setEsdtBalance" /\ KeyOf(s[j]) = KeyOf(s[i])
                            /\ esdt[KeyOf(s[i])].balance = s[j].instance.amount
    /\ s[i].op = "setEsdtRoles" =>
         /\ KeyOf(s[i]) \in DOMAIN esdt
         /\ \E j \in 1..n : /\ s[j].op = "setEsdtRoles" /\ KeyOf(s[j]) = KeyOf(s[i])
                            /\ esdt[KeyOf(s[i])].roles = s[j].roles

LEMMA ToldOn ==
  ASSUME NEW esdt, NEW s, NEW n \in Nat, n # 0, Told(esdt, s, n - 1),
         NEW new, SetsEntry(esdt, s[n], new)
  PROVE  Told(new, s, n)
<1>1. n \in 1..n /\ \A i \in 1..n : i = n \/ i \in 1..(n - 1)
  OBVIOUS
<1>2. ASSUME NEW i \in 1..n, s[i].op = "setEsdtBalance"
      PROVE  /\ KeyOf(s[i]) \in DOMAIN new
             /\ \E j \in 1..n : /\ s[j].op = "setEsdtBalance" /\ KeyOf(s[j]) = KeyOf(s[i])
                                /\ new[KeyOf(s[i])].balance = s[j].instance.amount
  <2>1. CASE i = n
    BY <1>1, <1>2, <2>1 DEF SetsEntry
  <2>2. CASE i # n
    <3>1. i \in 1..(n - 1)
      BY <1>1, <2>2
    <3>2. KeyOf(s[i]) \in DOMAIN esdt
      BY <1>2, <3>1 DEF Told
    <3>3. PICK j \in 1..(n - 1) : /\ s[j].op = "setEsdtBalance" /\ KeyOf(s[j]) = KeyOf(s[i])
                                  /\ esdt[KeyOf(s[i])].balance = s[j].instance.amount
      BY <1>2, <3>1 DEF Told
    <3>4. j \in 1..n
      OBVIOUS
    <3>5. CASE KeyOf(s[i]) = KeyOf(s[n]) /\ s[n].op = "setEsdtBalance"
      <4>1. new[KeyOf(s[n])].balance = s[n].instance.amount /\ KeyOf(s[n]) \in DOMAIN new
        BY <3>5 DEF SetsEntry
      <4> QED  BY <1>1, <3>5, <4>1
    <3>6. CASE ~ (KeyOf(s[i]) = KeyOf(s[n]) /\ s[n].op = "setEsdtBalance")
      <4>1. KeyOf(s[i]) \in DOMAIN new /\ new[KeyOf(s[i])].balance = esdt[KeyOf(s[i])].balance
        BY <3>2, <3>6 DEF SetsEntry
      <4> QED  BY <3>3, <3>4, <4>1
    <3> QED  BY <3>5, <3>6
  <2> QED  BY <2>1, <2>2
<1>3. ASSUME NEW i \in 1..n, s[i].op = "setEsdtRoles"
      PROVE  /\ KeyOf(s[i]) \in DOMAIN new
             /\ \E j \in 1..n : /\ s[j].op = "setEsdtRoles" /\ KeyOf(s[j]) = KeyOf(s[i])
                                /\ new[KeyOf(s[i])].roles = s[j].roles
  <2>1. CASE i = n
    BY <1>1, <1>3, <2>1 DEF SetsEntry
  <2>2. CASE i # n
    <3>1. i \in 1..(n - 1)
      BY <1>1, <2>2
    <3>2. KeyOf(s[i]) \in DOMAIN esdt
      BY <1>3, <3>1 DEF Told
    <3>3. PICK j \in 1..(n - 1) : /\ s[j].op = "setEsdtRoles" /\ KeyOf(s[j]) = KeyOf(s[i])
                                  /\ esdt[KeyOf(s[i])].roles = s[j].roles
      BY <1>3, <3>1 DEF Told
    <3>4. j \in 1..n
      OBVIOUS
    <3>5. CASE KeyOf(s[i]) = KeyOf(s[n]) /\ s[n].op = "setEsdtRoles"
      <4>1. new[KeyOf(s[n])].roles = s[n].roles /\ KeyOf(s[n]) \in DOMAIN new
        BY <3>5 DEF SetsEntry
      <4> QED  BY <1>1, <3>5, <4>1
    <3>6. CASE ~ (KeyOf(s[i]) = KeyOf(s[n]) /\ s[n].op = "setEsdtRoles")
      <4>1. KeyOf(s[i]) \in DOMAIN new /\ new[KeyOf(s[i])].roles = esdt[KeyOf(s[i])].roles
        BY <3>2, <3>6 DEF SetsEntry
      <4> QED  BY <3>3, <3>4, <4>1
    <3> QED  BY <3>5, <3>6
  <2> QED  BY <2>1, <2>2
<1> QED  BY <1>2, <1>3 DEF Told

LEMMA TokensSet ==
  ASSUME NEW c, NEW a, Whole(c, a), NEW s, IsList(s),
         \A i \in 1..Len(s) : s[i].op \in TokenOps /\ s[i].addr = a
  PROVE  \E e : /\ AfterSteps(c, s) = {e} /\ Whole(e, a) /\ e.checked = c.checked
                /\ SameFields(c.accounts[a], e.accounts[a])
                /\ Told(e.accounts[a].esdt, s, Len(s))
<1> DEFINE n == Len(s)
           g == After(c, s)
           Fine(e, i) == /\ Whole(e, a) /\ e.checked = c.checked
                         /\ SameFields(c.accounts[a], e.accounts[a])
                         /\ Told(e.accounts[a].esdt, s, i)
           Bad == {i \in 0..n : ~ \E e : g[i] = {e} /\ Fine(e, i)}
<1>1. n \in Nat
  BY DEF IsList
<1>2. /\ AfterSteps(c, s) = g[n] /\ g[0] = {c}
      /\ \A i \in 1..n : g[i] = UNION {StepResults(d, s[i]) : d \in g[i - 1]}
  BY <1>1, AfterIs
<1>3. \A i \in 1..n : s[i].op \in TokenOps /\ s[i].addr = a
  OBVIOUS
<1> HIDE DEF n, g
<1>4. Fine(c, 0)
  <2>1. 1..0 = {}
    OBVIOUS
  <2> QED  BY <2>1 DEF SameFields, Told
<1>5. Bad = {}
  <2> SUFFICES ASSUME Bad # {} PROVE FALSE
    OBVIOUS
  <2>1. PICK i \in Bad : \A j \in Bad : i <= j
    <3>1. Bad \in SUBSET Nat
      BY <1>1
    <3> HIDE DEF Bad
    <3> QED  BY <3>1, LeastNat
  <2> HIDE DEF Fine
  <2>2. i \in 0..n /\ i # 0 /\ ~ \E e : g[i] = {e} /\ Fine(e, i)
    BY <1>2, <1>4
  <2>3. i \in 1..n /\ i \in Nat /\ i - 1 \in 0..n /\ i - 1 \notin Bad
    BY <1>1, <2>1, <2>2
  <2>4. PICK e : g[i - 1] = {e} /\ Fine(e, i - 1)
    BY <2>3
  <2>5. PICK f : /\ StepResults(e, s[i]) = {f} /\ Whole(f, a) /\ f.checked = e.checked
                 /\ SameFields(e.accounts[a], f.accounts[a])
                 /\ SetsEntry(e.accounts[a].esdt, s[i], f.accounts[a].esdt)
    BY <1>3, <2>3, <2>4, TokenStepSets DEF Fine
  <2>6. g[i] = {f}
    <3>1. g[i] = UNION {StepResults(d, s[i]) : d \in {e}}
      BY <1>2, <2>3, <2>4
    <3> QED  BY <2>5, <3>1
  <2>7. Told(f.accounts[a].esdt, s, i)
    BY <2>2, <2>3, <2>4, <2>5, ToldOn DEF Fine
  <2>8. Fine(f, i)
    BY <2>4, <2>5, <2>7 DEF Fine, SameFields
  <2> QED  BY <2>2, <2>6, <2>8
<1>6. n \in 0..n
  BY <1>1
<1> QED  BY <1>2, <1>5, <1>6 DEF n

(* ----------------------- Where joined steps come from --------------------- *)

From(x, results) == \E p \in results : x \in Values(p)

LEMMA ConcatFrom ==
  ASSUME NEW s, NEW t, IsList(s), IsList(t)
  PROVE  Values(s \o t) \subseteq Values(s) \cup Values(t)
<1> SUFFICES ASSUME NEW x \in Values(s \o t) PROVE x \in Values(s) \cup Values(t)
  OBVIOUS
<1>1. /\ DOMAIN (s \o t) = 1..(Len(s) + Len(t)) /\ Len(s) \in Nat /\ Len(t) \in Nat
      /\ DOMAIN s = 1..Len(s) /\ DOMAIN t = 1..Len(t)
      /\ \A i \in 1..(Len(s) + Len(t)) :
           (s \o t)[i] = IF i <= Len(s) THEN s[i] ELSE t[i - Len(s)]
  BY ConcatList DEF IsList
<1>2. PICK i \in 1..(Len(s) + Len(t)) : x = (s \o t)[i]
  BY <1>1 DEF Values
<1>3. CASE i <= Len(s)
  <2>1. i \in DOMAIN s /\ x = s[i]
    BY <1>1, <1>2, <1>3
  <2> QED  BY <2>1 DEF Values
<1>4. CASE ~ (i <= Len(s))
  <2>1. i - Len(s) \in DOMAIN t /\ x = t[i - Len(s)]
    BY <1>1, <1>2, <1>4
  <2> QED  BY <2>1 DEF Values
<1> QED  BY <1>3, <1>4

LEMMA JoinedFrom ==
  ASSUME NEW r, IsList(r), \A i \in DOMAIN r : Lists(r[i]), NEW n \in 0..Len(r),
         NEW s \in JoinedTo(r, n)
  PROVE  IsList(s) /\ \A x \in Values(s) : \E i \in 1..n : From(x, r[i])
<1> DEFINE All(t, m) == IsList(t) /\ \A x \in Values(t) : \E i \in 1..m : From(x, r[i])
           Bad == {m \in 0..Len(r) : ~ \A t \in JoinedTo(r, m) : All(t, m)}
<1>1. Len(r) \in Nat /\ DOMAIN r = 1..Len(r)
  BY DEF IsList
<1>2. Bad = {}
  <2> SUFFICES ASSUME Bad # {} PROVE FALSE
    OBVIOUS
  <2>1. PICK m \in Bad : \A j \in Bad : m <= j
    <3>1. Bad \in SUBSET Nat
      BY <1>1
    <3> HIDE DEF Bad
    <3> QED  BY <3>1, LeastNat
  <2>2. PICK t \in JoinedTo(r, m) : ~ All(t, m)
    OBVIOUS
  <2>3. All(<<>>, 0)
    BY EmptyList DEF Values
  <2> HIDE DEF All
  <2>4. m \in 0..Len(r) /\ m # 0
    BY <2>2, <2>3, JoinedSteps
  <2>5. m \in 1..Len(r) /\ m - 1 \in 0..Len(r) /\ m - 1 \notin Bad
    BY <1>1, <2>1, <2>4
  <2>6. t \in Pairs(JoinedTo(r, m - 1), r[m])
    BY <2>2, <2>5, JoinedSteps
  <2>7. PICK a \in JoinedTo(r, m - 1), b \in r[m] : t = a \o b
    BY <2>6, PairsAre
  <2>8. All(a, m - 1) /\ IsList(b)
    BY <1>1, <2>5 DEF Lists
  <2>9. IsList(t) /\ Values(t) \subseteq Values(a) \cup Values(b)
    BY <2>7, <2>8, ConcatFrom, ConcatList DEF All
  <2>10. ASSUME NEW x \in Values(t) PROVE \E i \in 1..m : From(x, r[i])
    <3>1. CASE x \in Values(b)
      <4>1. m \in 1..m
        BY <1>1, <2>5
      <4> QED  BY <3>1, <4>1 DEF From
    <3>2. CASE x \in Values(a)
      <4>1. PICK i \in 1..(m - 1) : From(x, r[i])
        BY <2>8, <3>2 DEF All
      <4>2. i \in 1..m
        BY <1>1, <2>5
      <4> QED  BY <4>1, <4>2
    <3> QED  BY <2>9, <3>1, <3>2
  <2> QED  BY <2>2, <2>9, <2>10 DEF All
<1> QED  BY <1>2

LEMMA PairsSome == \A A, B : Pairs(A, B) # {} <=> A # {} /\ B # {}
<1> SUFFICES ASSUME NEW A, NEW B PROVE Pairs(A, B) # {} <=> A # {} /\ B # {}
  OBVIOUS
<1>1. ASSUME NEW x \in Pairs(A, B) PROVE A # {} /\ B # {}
  <2>1. \E a \in A : \E b \in B : x = a \o b
    BY InPairs
  <2> QED  BY <2>1
<1>2. ASSUME NEW a \in A, NEW b \in B PROVE a \o b \in Pairs(A, B)
  BY PairsAre
<1> QED  BY <1>1, <1>2

(* Something is joined exactly if there is something of every part.          *)
LEMMA JoinedSome ==
  ASSUME NEW r, IsList(r)
  PROVE  Joined(r) # {} <=> \A i \in DOMAIN r : r[i] # {}
<1> DEFINE Some(n) == JoinedTo(r, n) # {} <=> \A i \in 1..n : r[i] # {}
           Bad == {n \in 0..Len(r) : ~ Some(n)}
<1>1. Len(r) \in Nat /\ DOMAIN r = 1..Len(r)
  BY DEF IsList
<1>2. Bad = {}
  <2> SUFFICES ASSUME Bad # {} PROVE FALSE
    OBVIOUS
  <2>1. PICK n \in Bad : \A j \in Bad : n <= j
    <3>1. Bad \in SUBSET Nat
      BY <1>1
    <3> HIDE DEF Bad
    <3> QED  BY <3>1, LeastNat
  <2>2. n \in 0..Len(r) /\ ~ Some(n)
    OBVIOUS
  <2>3. Some(0)
    <3>1. 1..0 = {}
      OBVIOUS
    <3> QED  BY <3>1, JoinedSteps
  <2> HIDE DEF Some
  <2>4. n \in 1..Len(r) /\ n - 1 \in 0..Len(r) /\ n - 1 \notin Bad
    <3>1. n # 0
      BY <2>2, <2>3
    <3> QED  BY <1>1, <2>1, <2>2, <3>1
  <2>5. Some(n - 1)
    BY <2>4
  <2>6. JoinedTo(r, n) # {} <=> JoinedTo(r, n - 1) # {} /\ r[n] # {}
    <3>1. JoinedTo(r, n) = Pairs(JoinedTo(r, n - 1), r[n])
      BY <2>4, JoinedSteps
    <3> QED  BY <3>1, PairsSome
  <2>7. \A i \in 1..n : i = n \/ i \in 1..(n - 1)
    BY <1>1, <2>4
  <2>8. n \in 1..n /\ \A i \in 1..(n - 1) : i \in 1..n
    BY <1>1, <2>4
  <2> QED  BY <2>2, <2>5, <2>6, <2>7, <2>8 DEF Some
<1>3. Len(r) \in 0..Len(r)
  BY <1>1
<1> QED  BY <1>1, <1>2, <1>3, JoinedSteps

LEMMA JoinedOverFrom ==
  ASSUME NEW r, IsFiniteSet(DOMAIN r), \A x \in DOMAIN r : Lists(r[x]), NEW s \in JoinedOver(r)
  PROVE  IsList(s) /\ \A x \in Values(s) : \E y \in DOMAIN r : From(x, r[y])
<1>1. PICK u : /\ IsList(u) /\ JoinedOver(r) = Joined(u)
               /\ \A i \in DOMAIN u : \E x \in DOMAIN r : u[i] = r[x]
               /\ \A x \in DOMAIN r : \E i \in DOMAIN u : u[i] = r[x]
  BY JoinedOverIs
<1>2. Len(u) \in 0..Len(u) /\ DOMAIN u = 1..Len(u)
  BY <1>1 DEF IsList
<1>3. s \in JoinedTo(u, Len(u)) /\ \A i \in DOMAIN u : Lists(u[i])
  BY <1>1, JoinedSteps
<1>4. IsList(s) /\ \A x \in Values(s) : \E i \in 1..Len(u) : From(x, u[i])
  BY <1>1, <1>2, <1>3, JoinedFrom
<1> QED  BY <1>1, <1>2, <1>4

LEMMA JoinedOverSome ==
  ASSUME NEW r, IsFiniteSet(DOMAIN r)
  PROVE  JoinedOver(r) # {} <=> \A x \in DOMAIN r : r[x] # {}
<1>1. PICK u : /\ IsList(u) /\ JoinedOver(r) = Joined(u)
               /\ \A i \in DOMAIN u : \E x \in DOMAIN r : u[i] = r[x]
               /\ \A x \in DOMAIN r : \E i \in DOMAIN u : u[i] = r[x]
  BY JoinedOverIs
<1>2. Joined(u) # {} <=> \A i \in DOMAIN u : u[i] # {}
  BY <1>1, JoinedSome
<1> QED  BY <1>1, <1>2

(* -------------------- What a set step of an account is -------------------- *)

SetCommand(l, d, code) ==
  [op |-> "setAccount", addr |-> AddressBytes[l], nonce |-> Get(d, "nonce", 0),
   balance |-> Get(d, "balance", 0), code |-> code, owner |-> GetAddress(d, "owner"),
   storage |-> Get(d, "storage", EmptyMap)]
EsdtSets(a, d) ==
  JoinedOver([token \in DOMAIN d.esdt |-> SetEsdtSteps(a, token, d.esdt[token])])

SetBalanceStep(a, token, instance) ==
  [op |-> "setEsdtBalance", addr |-> a, token |-> TokenBytes(token), instance |-> instance]
CheckBalanceStep(a, token, instance) ==
  [op |-> "checkAccountESDTBalance", addr |-> a, token |-> TokenBytes(token),
   nonce |-> instance.nonce, balance |-> instance.amount]
RolesStep(op, a, token, v) ==
  [op |-> op, addr |-> a, token |-> TokenBytes(token), roles |-> v.roles]
LastNonceStep(a, token, v) ==
  [op |-> "setEsdtLastNonce", addr |-> a, token |-> TokenBytes(token), nonce |-> v.lastNonce]

LEMMA SetAccountPairs ==
  ASSUME NEW l, NEW d
  PROVE  MandosToSetAccount(l, d) =
           Pairs({<<SetCommand(l, d, code)>> : code \in CodeOf(d)},
                 Optional(d, "esdt", EsdtSets(AddressBytes[l], d)))
<1> DEFINE set == {<<SetCommand(l, d, code)>> : code \in CodeOf(d)}
           esdt == Optional(d, "esdt", EsdtSets(AddressBytes[l], d))
<1>1. MandosToSetAccount(l, d) = Joined(<<set, esdt>>)
  BY DEF MandosToSetAccount, SetCommand, EsdtSets
<1>2. \A x \in set : IsList(x)
  BY ListOne
<1> HIDE DEF set, esdt
<1>3. Joined(<<set, esdt>>) = Pairs(set, esdt)
  BY <1>2, JoinedTwoIs
<1> QED  BY <1>1, <1>3 DEF set, esdt

LEMMA RolesFrom ==
  ASSUME NEW op, NEW a, NEW token, NEW v
  PROVE  /\ MandosToEsdtRoles(op, a, token, v) =
              IF "roles" \notin DOMAIN v THEN {<<>>}
              ELSE IF v.roles \subseteq ESDT_ROLES THEN {<<RolesStep(op, a, token, v)>>} ELSE {}
         /\ Lists(MandosToEsdtRoles(op, a, token, v))
<1>1. MandosToEsdtRoles(op, a, token, v) =
        IF "roles" \notin DOMAIN v THEN {<<>>}
        ELSE IF v.roles \subseteq ESDT_ROLES THEN {<<RolesStep(op, a, token, v)>>} ELSE {}
  BY DEF MandosToEsdtRoles, RolesStep
<1>2. IsList(<<>>) /\ IsList(<<RolesStep(op, a, token, v)>>)
  BY EmptyList, ListOne
<1> QED  BY <1>1, <1>2 DEF Lists

LEMMA OneFrom == \A x, y : From(x, {<<y>>}) <=> x = y
<1> SUFFICES ASSUME NEW x, NEW y PROVE From(x, {<<y>>}) <=> x = y
  OBVIOUS
<1>1. Values(<<y>>) = {y}
  BY ListOne DEF Values
<1> QED  BY <1>1 DEF From

LEMMA NoneFrom == \A x : ~ From(x, {<<>>}) /\ ~ From(x, {})
BY EmptyList DEF From, Values

LEMMA RolesGive ==
  ASSUME NEW op, NEW a, NEW token, NEW v, NEW x,
         From(x, MandosToEsdtRoles(op, a, token, v))
  PROVE  "roles" \in DOMAIN v /\ x = RolesStep(op, a, token, v)
<1> DEFINE y == RolesStep(op, a, token, v)
           roles == MandosToEsdtRoles(op, a, token, v)
<1>1. roles = {<<>>} \/ roles = {} \/ ("roles" \in DOMAIN v /\ roles = {<<y>>})
  BY RolesFrom
<1> HIDE DEF y, roles
<1>2. From(x, roles)
  BY DEF roles
<1>3. "roles" \in DOMAIN v /\ roles = {<<y>>}
  BY <1>1, <1>2, NoneFrom
<1>4. x = y
  BY <1>2, <1>3, OneFrom
<1> QED  BY <1>3, <1>4 DEF y

(* The steps of one token: one for every instance, and the others.           *)
LEMMA SetTokenIs ==
  ASSUME NEW a, NEW token, NEW v, IsList(Get(v, "instances", <<>>)),
         NEW p \in SetEsdtSteps(a, token, v)
  PROVE  /\ IsList(p) /\ ("roles" \in DOMAIN v => v.roles \subseteq ESDT_ROLES)
         /\ \A i \in DOMAIN MandosToEsdtInstances(v) :
              SetBalanceStep(a, token, MandosToEsdtInstances(v)[i]) \in Values(p)
         /\ "roles" \in DOMAIN v => RolesStep("setEsdtRoles", a, token, v) \in Values(p)
         /\ \A x \in Values(p) :
              \/ \E i \in DOMAIN MandosToEsdtInstances(v) :
                   x = SetBalanceStep(a, token, MandosToEsdtInstances(v)[i])
              \/ "roles" \in DOMAIN v /\ x = RolesStep("setEsdtRoles", a, token, v)
              \/ x = LastNonceStep(a, token, v)
<1> DEFINE inst == MandosToEsdtInstances(v)
           balances == [i \in DOMAIN inst |-> SetBalanceStep(a, token, inst[i])]
           roles == MandosToEsdtRoles("setEsdtRoles", a, token, v)
           last == Optional(v, "lastNonce", {<<LastNonceStep(a, token, v)>>})
           r == <<{balances}, roles, last>>
<1>1. IsList(inst)
  BY InstancesList
<1>2. /\ DOMAIN balances = DOMAIN inst
      /\ \A i \in DOMAIN inst : balances[i] = SetBalanceStep(a, token, inst[i])
      /\ balances = [i \in DOMAIN inst |-> balances[i]]
  OBVIOUS
<1>3. SetEsdtSteps(a, token, v) = Joined(r)
  BY DEF SetEsdtSteps, SetBalanceStep, LastNonceStep
<1> HIDE DEF inst, balances
<1>4. IsList(balances)
  <2>1. DOMAIN inst = 1..Len(inst) /\ Len(inst) \in Nat
    BY <1>1 DEF IsList
  <2> QED  BY <1>2, <2>1, FunctionIsList
<1>5. Lists(roles)
  BY RolesFrom
<1>6. Lists(last) /\ \A x : From(x, last) => x = LastNonceStep(a, token, v)
  <2> DEFINE y == LastNonceStep(a, token, v)
  <2>1. last \in {{<<y>>}, {<<>>}}
    BY DEF Optional
  <2> HIDE DEF y, last
  <2>2. Lists({<<y>>}) /\ Lists({<<>>})
    BY ListOne, EmptyList DEF Lists
  <2>3. ASSUME NEW x, From(x, last) PROVE x = y
    <3>1. last # {<<>>}
      BY <2>3, NoneFrom
    <3>2. From(x, {<<y>>})
      BY <2>1, <2>3, <3>1
    <3> QED  BY <3>2, OneFrom
  <2>4. Lists(last)
    BY <2>1, <2>2
  <2> QED  BY <2>3, <2>4 DEF y
<1> HIDE DEF roles, last
<1>7. IsList(r) /\ Len(r) = 3 /\ r[1] = {balances} /\ r[2] = roles /\ r[3] = last
      /\ DOMAIN r = {1, 2, 3}
  BY ListThree
<1> HIDE DEF r
<1>8. \A i \in DOMAIN r : Lists(r[i])
  BY <1>4, <1>5, <1>6, <1>7 DEF Lists
<1>90. Joined(r) = JoinedTo(r, Len(r))
  BY <1>7, JoinedSteps
<1>9. p \in Joined(r) /\ p \in JoinedTo(r, 3) /\ 3 \in 0..Len(r)
  BY <1>3, <1>7, <1>90
<1>10. IsList(p) /\ \A x \in Values(p) : \E i \in 1..3 : From(x, r[i])
  BY <1>7, <1>8, <1>9, JoinedFrom
<1>11. \A i \in DOMAIN r : HasPart(p, r[i])
  BY <1>7, <1>8, <1>9, JoinedParts DEF Lists
<1>12. \A i \in DOMAIN inst : SetBalanceStep(a, token, inst[i]) \in Values(p)
  <2>1. HasPart(p, {balances})
    BY <1>7, <1>11
  <2>2. Values(balances) \subseteq Values(p)
    BY <2>1 DEF HasPart
  <2> QED  BY <1>2, <2>2 DEF Values
<1>13. HasPart(p, roles)
  BY <1>7, <1>11
<1>14. "roles" \in DOMAIN v => v.roles \subseteq ESDT_ROLES
  <2>1. roles # {}
    BY <1>13 DEF HasPart
  <2> QED  BY <2>1, RolesFrom DEF roles
<1>15. "roles" \in DOMAIN v => RolesStep("setEsdtRoles", a, token, v) \in Values(p)
  <2> SUFFICES ASSUME "roles" \in DOMAIN v
               PROVE  RolesStep("setEsdtRoles", a, token, v) \in Values(p)
    OBVIOUS
  <2> DEFINE y == RolesStep("setEsdtRoles", a, token, v)
  <2>1. roles = {<<y>>}
    BY <1>14, RolesFrom DEF roles
  <2> HIDE DEF y
  <2>2. HasPart(p, {<<y>>})
    BY <1>13, <2>1
  <2>3. y \in Values(p)
    BY <2>2, StepSeen
  <2> QED  BY <2>3 DEF y
<1>16. ASSUME NEW x \in Values(p)
       PROVE  \/ \E i \in DOMAIN inst : x = SetBalanceStep(a, token, inst[i])
              \/ "roles" \in DOMAIN v /\ x = RolesStep("setEsdtRoles", a, token, v)
              \/ x = LastNonceStep(a, token, v)
  <2>1. From(x, {balances}) \/ From(x, roles) \/ From(x, last)
    <3>1. PICK i \in 1..3 : From(x, r[i])
      BY <1>10
    <3>2. i = 1 \/ i = 2 \/ i = 3
      OBVIOUS
    <3> QED  BY <1>7, <3>1, <3>2
  <2>2. CASE From(x, {balances})
    BY <1>2, <2>2 DEF From, Values
  <2>3. CASE From(x, roles)
    BY <2>3, RolesGive DEF roles
  <2> QED  BY <1>6, <2>1, <2>2, <2>3
<1> QED  BY <1>10, <1>12, <1>14, <1>15, <1>16 DEF inst

(* The checks of one token: the same ones.                                   *)
LEMMA CheckTokenIs ==
  ASSUME NEW a, NEW token, NEW v, IsList(Get(v, "instances", <<>>))
  PROVE  /\ ("roles" \in DOMAIN v => v.roles \subseteq ESDT_ROLES) =>
               CheckEsdtSteps(a, token, v) # {}
         /\ \A p \in CheckEsdtSteps(a, token, v) :
              /\ IsList(p)
              /\ \A x \in Values(p) :
                   \/ \E i \in DOMAIN MandosToEsdtInstances(v) :
                        x = CheckBalanceStep(a, token, MandosToEsdtInstances(v)[i])
                   \/ "roles" \in DOMAIN v /\ x = RolesStep("checkEsdtRoles", a, token, v)
<1> DEFINE inst == MandosToEsdtInstances(v)
           balances == [i \in DOMAIN inst |-> CheckBalanceStep(a, token, inst[i])]
           roles == MandosToEsdtRoles("checkEsdtRoles", a, token, v)
           r == <<{balances}, roles>>
<1>1. IsList(inst)
  BY InstancesList
<1>2. /\ DOMAIN balances = DOMAIN inst
      /\ \A i \in DOMAIN inst : balances[i] = CheckBalanceStep(a, token, inst[i])
      /\ balances = [i \in DOMAIN inst |-> balances[i]]
  OBVIOUS
<1>3. CheckEsdtSteps(a, token, v) = Joined(r)
  BY DEF CheckEsdtSteps, CheckBalanceStep
<1> HIDE DEF inst, balances
<1>4. IsList(balances)
  <2>1. DOMAIN inst = 1..Len(inst) /\ Len(inst) \in Nat
    BY <1>1 DEF IsList
  <2> QED  BY <1>2, <2>1, FunctionIsList
<1>5. Lists(roles)
  BY RolesFrom
<1> HIDE DEF roles
<1>6. IsList(r) /\ Len(r) = 2 /\ r[1] = {balances} /\ r[2] = roles /\ DOMAIN r = {1, 2}
  BY ListTwo
<1> HIDE DEF r
<1>7. \A i \in DOMAIN r : Lists(r[i])
  BY <1>4, <1>5, <1>6 DEF Lists
<1>8. ("roles" \in DOMAIN v => v.roles \subseteq ESDT_ROLES) => Joined(r) # {}
  <2> SUFFICES ASSUME "roles" \in DOMAIN v => v.roles \subseteq ESDT_ROLES PROVE Joined(r) # {}
    OBVIOUS
  <2>1. roles # {}
    BY RolesFrom DEF roles
  <2>2. \A i \in DOMAIN r : r[i] # {}
    BY <1>6, <2>1
  <2> QED  BY <1>6, <2>2, JoinedSome
<1>9. ASSUME NEW p \in Joined(r)
      PROVE  /\ IsList(p)
             /\ \A x \in Values(p) :
                  \/ \E i \in DOMAIN inst : x = CheckBalanceStep(a, token, inst[i])
                  \/ "roles" \in DOMAIN v /\ x = RolesStep("checkEsdtRoles", a, token, v)
  <2>0. Joined(r) = JoinedTo(r, Len(r))
    BY <1>6, JoinedSteps
  <2>1. p \in JoinedTo(r, 2) /\ 2 \in 0..Len(r)
    BY <1>6, <2>0
  <2>2. IsList(p) /\ \A x \in Values(p) : \E i \in 1..2 : From(x, r[i])
    BY <1>6, <1>7, <2>1, JoinedFrom
  <2>3. ASSUME NEW x \in Values(p)
        PROVE  \/ \E i \in DOMAIN inst : x = CheckBalanceStep(a, token, inst[i])
               \/ "roles" \in DOMAIN v /\ x = RolesStep("checkEsdtRoles", a, token, v)
    <3>1. From(x, {balances}) \/ From(x, roles)
      <4>1. PICK i \in 1..2 : From(x, r[i])
        BY <2>2
      <4>2. i = 1 \/ i = 2
        OBVIOUS
      <4> QED  BY <1>6, <4>1, <4>2
    <3>2. CASE From(x, {balances})
      BY <1>2, <3>2 DEF From, Values
    <3>3. CASE From(x, roles)
      BY <3>3, RolesGive DEF roles
    <3> QED  BY <3>1, <3>2, <3>3
  <2> QED  BY <2>2, <2>3
<1> QED  BY <1>3, <1>8, <1>9 DEF inst

LEMMA AppendOne ==
  ASSUME NEW x, NEW y
  PROVE  /\ Len(<<x>>) = 1 /\ <<x>>[1] = x /\ Len(Append(<<x>>, y)) = 2
         /\ Append(<<x>>, y)[1] = x /\ Append(<<x>>, y)[2] = y
<1>1. <<x>> \in Seq({x, y}) /\ y \in {x, y} /\ Len(<<x>>) = 1 /\ <<x>>[1] = x
  OBVIOUS
<1> DEFINE s == <<x>>
           S == {x, y}
<1>2. s \in Seq(S) /\ y \in S /\ Len(s) = 1 /\ s[1] = x
  BY <1>1
<1> HIDE DEF s, S
<1>3. Len(Append(s, y)) = 2 /\ Append(s, y)[2] = y
  <2>1. Append(s, y)[Len(s) + 1] = y
    BY <1>2, AppendProperties, Zenon
  <2>2. Len(s) + 1 = 2
    BY <1>2
  <2>3. Append(s, y)[2] = y
    BY <2>1, <2>2, Zenon
  <2>4. Len(Append(s, y)) = 2
    BY <1>2
  <2> QED  BY <2>3, <2>4
<1>4. Append(s, y)[1] = x
  BY <1>2
<1>5. Len(Append(s, y)) = 2 /\ Append(s, y)[1] = x /\ Append(s, y)[2] = y
  BY <1>3, <1>4
<1> QED  BY <1>1, <1>5 DEF s

(* Different instances have different keys, of whatever tokens.              *)
LEMMA KeysDiffer ==
  ASSUME NEW t, NEW m, NEW u, NEW n,
         KeyWithNonce(TokenBytes(t), m) = KeyWithNonce(TokenBytes(u), n)
  PROVE  t = u /\ m = n
<1>1. \A y : /\ Len(<<t>>) = 1 /\ <<t>>[1] = t /\ Len(Append(<<t>>, y)) = 2
             /\ Append(<<t>>, y)[1] = t /\ Append(<<t>>, y)[2] = y
  BY AppendOne
<1>2. \A y : /\ Len(<<u>>) = 1 /\ <<u>>[1] = u /\ Len(Append(<<u>>, y)) = 2
             /\ Append(<<u>>, y)[1] = u /\ Append(<<u>>, y)[2] = y
  BY AppendOne
<1> DEFINE T == TokenBytes(t)
           U == TokenBytes(u)
<1>3. /\ Len(T) = 1 /\ T[1] = t
      /\ \A y : Len(Append(T, y)) = 2 /\ Append(T, y)[1] = t /\ Append(T, y)[2] = y
  BY <1>1 DEF TokenBytes
<1>4. /\ Len(U) = 1 /\ U[1] = u
      /\ \A y : Len(Append(U, y)) = 2 /\ Append(U, y)[1] = u /\ Append(U, y)[2] = y
  BY <1>2 DEF TokenBytes
<1>5. (IF m = 0 THEN T ELSE Append(T, m)) = IF n = 0 THEN U ELSE Append(U, n)
  BY DEF KeyWithNonce
<1> HIDE DEF T, U
<1> DEFINE A == Append(T, m)
           B == Append(U, n)
<1>6. Len(A) = 2 /\ A[1] = t /\ A[2] = m
  BY <1>3
<1>7. Len(B) = 2 /\ B[1] = u /\ B[2] = n
  BY <1>4
<1> HIDE DEF A, B
<1>8. (IF m = 0 THEN T ELSE A) = IF n = 0 THEN U ELSE B
  BY <1>5 DEF A, B
<1>9. CASE m = 0 /\ n = 0
  BY <1>3, <1>4, <1>8, <1>9
<1>10. CASE m = 0 /\ n # 0
  BY <1>3, <1>7, <1>8, <1>10
<1>11. CASE m # 0 /\ n = 0
  BY <1>4, <1>6, <1>8, <1>11
<1>12. CASE m # 0 /\ n # 0
  BY <1>6, <1>7, <1>8, <1>12
<1> QED  BY <1>9, <1>10, <1>11, <1>12

(* What a description says of the tokens, the last instance of those listed  *)
(* twice aside: the entries that the set step of an account leaves.          *)
Kept(esdt, d) ==
  \A token \in DOMAIN d.esdt :
    LET v == d.esdt[token]
        instances == MandosToEsdtInstances(v)
    IN  /\ \A i \in DOMAIN instances :
             LET key == KeyWithNonce(TokenBytes(token), instances[i].nonce)
             IN  /\ key \in DOMAIN esdt
                 /\ \E j \in DOMAIN instances : /\ instances[j].nonce = instances[i].nonce
                                                /\ esdt[key].balance = instances[j].amount
        /\ "roles" \in DOMAIN v =>
             /\ v.roles \subseteq ESDT_ROLES
             /\ KeyWithNonce(TokenBytes(token), 0) \in DOMAIN esdt
             /\ esdt[KeyWithNonce(TokenBytes(token), 0)].roles = v.roles

(* The steps that set the tokens of an account.                              *)
TokenStep(a, d, x) ==
  \E token \in DOMAIN d.esdt :
    \/ \E i \in DOMAIN MandosToEsdtInstances(d.esdt[token]) :
         x = SetBalanceStep(a, token, MandosToEsdtInstances(d.esdt[token])[i])
    \/ "roles" \in DOMAIN d.esdt[token] /\ x = RolesStep("setEsdtRoles", a, token, d.esdt[token])
    \/ x = LastNonceStep(a, token, d.esdt[token])

LEMMA SetTokensAre ==
  ASSUME NEW a, NEW d, IsTokens(d.esdt), NEW t \in EsdtSets(a, d)
  PROVE  /\ IsList(t)
         /\ \A x \in Values(t) : TokenStep(a, d, x)
         /\ \A token \in DOMAIN d.esdt :
              /\ "roles" \in DOMAIN d.esdt[token] =>
                   /\ d.esdt[token].roles \subseteq ESDT_ROLES
                   /\ RolesStep("setEsdtRoles", a, token, d.esdt[token]) \in Values(t)
              /\ \A i \in DOMAIN MandosToEsdtInstances(d.esdt[token]) :
                   SetBalanceStep(a, token, MandosToEsdtInstances(d.esdt[token])[i]) \in Values(t)
<1> DEFINE r == [token \in DOMAIN d.esdt |-> SetEsdtSteps(a, token, d.esdt[token])]
<1>1. /\ IsFiniteSet(DOMAIN r) /\ DOMAIN r = DOMAIN d.esdt
      /\ \A token \in DOMAIN r : r[token] = SetEsdtSteps(a, token, d.esdt[token])
  BY DEF IsTokens
<1>2. \A token \in DOMAIN d.esdt : IsList(Get(d.esdt[token], "instances", <<>>))
  BY DEF IsTokens
<1>3. t \in JoinedOver(r)
  BY DEF EsdtSets
<1> HIDE DEF r
<1>4. \A token \in DOMAIN r : Lists(r[token])
  BY <1>1, <1>2, SetTokenIs DEF Lists
<1>5. IsList(t) /\ \A x \in Values(t) : \E token \in DOMAIN r : From(x, r[token])
  BY <1>1, <1>3, <1>4, JoinedOverFrom
<1>6. \A token \in DOMAIN r : HasPart(t, r[token])
  BY <1>1, <1>3, <1>4, JoinedOverParts DEF Lists
<1>7. ASSUME NEW x \in Values(t) PROVE TokenStep(a, d, x)
  <2>1. PICK token \in DOMAIN r : From(x, r[token])
    BY <1>5
  <2>2. token \in DOMAIN d.esdt /\ r[token] = SetEsdtSteps(a, token, d.esdt[token])
    BY <1>1
  <2>3. PICK p \in SetEsdtSteps(a, token, d.esdt[token]) : x \in Values(p)
    BY <2>1, <2>2 DEF From
  <2> DEFINE v == d.esdt[token]
  <2>4. IsList(Get(v, "instances", <<>>)) /\ p \in SetEsdtSteps(a, token, v)
    BY <1>2, <2>2
  <2> HIDE DEF v
  <2>5. \/ \E i \in DOMAIN MandosToEsdtInstances(v) :
             x = SetBalanceStep(a, token, MandosToEsdtInstances(v)[i])
        \/ "roles" \in DOMAIN v /\ x = RolesStep("setEsdtRoles", a, token, v)
        \/ x = LastNonceStep(a, token, v)
    BY <2>3, <2>4, SetTokenIs
  <2> QED  BY <2>2, <2>5 DEF TokenStep, v
<1>8. ASSUME NEW token \in DOMAIN d.esdt
      PROVE  /\ "roles" \in DOMAIN d.esdt[token] =>
                  /\ d.esdt[token].roles \subseteq ESDT_ROLES
                  /\ RolesStep("setEsdtRoles", a, token, d.esdt[token]) \in Values(t)
             /\ \A i \in DOMAIN MandosToEsdtInstances(d.esdt[token]) :
                  SetBalanceStep(a, token, MandosToEsdtInstances(d.esdt[token])[i]) \in Values(t)
  <2> DEFINE v == d.esdt[token]
  <2>1. HasPart(t, SetEsdtSteps(a, token, v))
    BY <1>1, <1>6
  <2>2. IsList(Get(v, "instances", <<>>))
    BY <1>2
  <2> HIDE DEF v
  <2>3. PICK p \in SetEsdtSteps(a, token, v) : Values(p) \subseteq Values(t)
    BY <2>1 DEF HasPart
  <2>4. /\ "roles" \in DOMAIN v => v.roles \subseteq ESDT_ROLES
        /\ \A i \in DOMAIN MandosToEsdtInstances(v) :
             SetBalanceStep(a, token, MandosToEsdtInstances(v)[i]) \in Values(p)
        /\ "roles" \in DOMAIN v => RolesStep("setEsdtRoles", a, token, v) \in Values(p)
    BY <2>2, <2>3, SetTokenIs
  <2>5. /\ "roles" \in DOMAIN v =>
             /\ v.roles \subseteq ESDT_ROLES
             /\ RolesStep("setEsdtRoles", a, token, v) \in Values(t)
        /\ \A i \in DOMAIN MandosToEsdtInstances(v) :
             SetBalanceStep(a, token, MandosToEsdtInstances(v)[i]) \in Values(t)
    BY <2>3, <2>4
  <2> QED  BY <2>5 DEF v
<1> QED  BY <1>5, <1>7, <1>8

LEMMA StepFields ==
  ASSUME NEW a, NEW token
  PROVE  /\ \A instance :
              LET x == SetBalanceStep(a, token, instance)
              IN  /\ x.op = "setEsdtBalance" /\ x.addr = a /\ x.instance = instance
                  /\ KeyOf(x) = KeyWithNonce(TokenBytes(token), instance.nonce)
         /\ \A v : LET x == RolesStep("setEsdtRoles", a, token, v)
                   IN  /\ x.op = "setEsdtRoles" /\ x.addr = a /\ x.roles = v.roles
                       /\ KeyOf(x) = KeyWithNonce(TokenBytes(token), 0)
         /\ \A v : LET x == LastNonceStep(a, token, v)
                   IN  x.op = "setEsdtLastNonce" /\ x.addr = a
BY DEF SetBalanceStep, RolesStep, LastNonceStep, KeyOf

LEMMA TokenStepOps ==
  ASSUME NEW a, NEW d, NEW x, TokenStep(a, d, x)
  PROVE  /\ x.op \in TokenOps /\ x.addr = a
         /\ x.op = "setEsdtBalance" =>
              \E token \in DOMAIN d.esdt : \E i \in DOMAIN MandosToEsdtInstances(d.esdt[token]) :
                x = SetBalanceStep(a, token, MandosToEsdtInstances(d.esdt[token])[i])
         /\ x.op = "setEsdtRoles" =>
              \E token \in DOMAIN d.esdt : x = RolesStep("setEsdtRoles", a, token, d.esdt[token])
<1>1. PICK token \in DOMAIN d.esdt :
        \/ \E i \in DOMAIN MandosToEsdtInstances(d.esdt[token]) :
             x = SetBalanceStep(a, token, MandosToEsdtInstances(d.esdt[token])[i])
        \/ "roles" \in DOMAIN d.esdt[token]
           /\ x = RolesStep("setEsdtRoles", a, token, d.esdt[token])
        \/ x = LastNonceStep(a, token, d.esdt[token])
  BY DEF TokenStep
<1>2. CASE \E i \in DOMAIN MandosToEsdtInstances(d.esdt[token]) :
             x = SetBalanceStep(a, token, MandosToEsdtInstances(d.esdt[token])[i])
  <2>1. x.op = "setEsdtBalance" /\ x.addr = a
    BY <1>2, StepFields
  <2> QED  BY <1>2, <2>1 DEF TokenOps
<1>3. CASE x = RolesStep("setEsdtRoles", a, token, d.esdt[token])
  <2>1. x.op = "setEsdtRoles" /\ x.addr = a
    BY <1>3, StepFields
  <2> QED  BY <1>3, <2>1 DEF TokenOps
<1>4. CASE x = LastNonceStep(a, token, d.esdt[token])
  <2>1. x.op = "setEsdtLastNonce" /\ x.addr = a
    BY <1>4, StepFields
  <2> QED  BY <2>1 DEF TokenOps
<1> QED  BY <1>1, <1>2, <1>3, <1>4

LEMMA ToldIsKept ==
  ASSUME NEW a, NEW d, IsTokens(d.esdt), NEW t \in EsdtSets(a, d),
         NEW esdt, Told(esdt, t, Len(t))
  PROVE  Kept(esdt, d)
<1>1. DOMAIN t = 1..Len(t)
  BY SetTokensAre DEF IsList
<1>2. \A x \in Values(t) : TokenStep(a, d, x)
  BY SetTokensAre
<1>3. ASSUME NEW token \in DOMAIN d.esdt, NEW i \in DOMAIN MandosToEsdtInstances(d.esdt[token])
      PROVE  LET instances == MandosToEsdtInstances(d.esdt[token])
                 key == KeyWithNonce(TokenBytes(token), instances[i].nonce)
             IN  /\ key \in DOMAIN esdt
                 /\ \E j \in DOMAIN instances : /\ instances[j].nonce = instances[i].nonce
                                                /\ esdt[key].balance = instances[j].amount
  <2> DEFINE instances == MandosToEsdtInstances(d.esdt[token])
             key == KeyWithNonce(TokenBytes(token), instances[i].nonce)
             x == SetBalanceStep(a, token, instances[i])
  <2>1. x \in Values(t)
    BY SetTokensAre
  <2>2. x.op = "setEsdtBalance" /\ KeyOf(x) = key
    BY StepFields
  <2> HIDE DEF x, key
  <2>3. PICK n \in 1..Len(t) : x = t[n]
    BY <1>1, <2>1 DEF Values
  <2>4. /\ key \in DOMAIN esdt
        /\ \E m \in 1..Len(t) : /\ t[m].op = "setEsdtBalance" /\ KeyOf(t[m]) = key
                                /\ esdt[key].balance = t[m].instance.amount
    BY <2>2, <2>3 DEF Told
  <2>5. PICK y \in Values(t) : /\ y.op = "setEsdtBalance" /\ KeyOf(y) = key
                               /\ esdt[key].balance = y.instance.amount
    BY <1>1, <2>4 DEF Values
  <2>50. TokenStep(a, d, y)
    BY <1>2, <2>5
  <2>6. PICK other \in DOMAIN d.esdt :
          \E j \in DOMAIN MandosToEsdtInstances(d.esdt[other]) :
            y = SetBalanceStep(a, other, MandosToEsdtInstances(d.esdt[other])[j])
    BY <2>5, <2>50, TokenStepOps
  <2>60. PICK j \in DOMAIN MandosToEsdtInstances(d.esdt[other]) :
          y = SetBalanceStep(a, other, MandosToEsdtInstances(d.esdt[other])[j])
    BY <2>6
  <2> DEFINE got == MandosToEsdtInstances(d.esdt[other])[j]
  <2>7. y.instance = got /\ KeyOf(y) = KeyWithNonce(TokenBytes(other), got.nonce)
    BY <2>60, StepFields
  <2>8. KeyWithNonce(TokenBytes(token), instances[i].nonce)
          = KeyWithNonce(TokenBytes(other), got.nonce)
    BY <2>5, <2>7 DEF key
  <2> HIDE DEF got, instances
  <2>9. token = other /\ got.nonce = instances[i].nonce
    BY <2>8, KeysDiffer
  <2>10. j \in DOMAIN instances /\ instances[j] = got
    BY <2>60, <2>9 DEF got, instances
  <2>11. instances[j].nonce = instances[i].nonce /\ esdt[key].balance = instances[j].amount
    BY <2>5, <2>7, <2>9, <2>10
  <2> QED  BY <2>4, <2>10, <2>11 DEF instances, key
<1>4. ASSUME NEW token \in DOMAIN d.esdt, "roles" \in DOMAIN d.esdt[token]
      PROVE  /\ d.esdt[token].roles \subseteq ESDT_ROLES
             /\ KeyWithNonce(TokenBytes(token), 0) \in DOMAIN esdt
             /\ esdt[KeyWithNonce(TokenBytes(token), 0)].roles = d.esdt[token].roles
  <2> DEFINE zero == 0
             key == KeyWithNonce(TokenBytes(token), zero)
             x == RolesStep("setEsdtRoles", a, token, d.esdt[token])
  <2>1. x \in Values(t) /\ d.esdt[token].roles \subseteq ESDT_ROLES
    BY <1>4, SetTokensAre
  <2>2. x.op = "setEsdtRoles" /\ KeyOf(x) = key
    BY StepFields
  <2> HIDE DEF x, key
  <2>3. PICK n \in 1..Len(t) : x = t[n]
    BY <1>1, <2>1 DEF Values
  <2>4. /\ key \in DOMAIN esdt
        /\ \E m \in 1..Len(t) : /\ t[m].op = "setEsdtRoles" /\ KeyOf(t[m]) = key
                                /\ esdt[key].roles = t[m].roles
    BY <2>2, <2>3 DEF Told
  <2>5. PICK y \in Values(t) : /\ y.op = "setEsdtRoles" /\ KeyOf(y) = key
                               /\ esdt[key].roles = y.roles
    BY <1>1, <2>4 DEF Values
  <2>6. PICK other \in DOMAIN d.esdt : y = RolesStep("setEsdtRoles", a, other, d.esdt[other])
    BY <1>2, <2>5, TokenStepOps
  <2>7. y.roles = d.esdt[other].roles /\ KeyOf(y) = KeyWithNonce(TokenBytes(other), zero)
    BY <2>6, StepFields
  <2>8. KeyWithNonce(TokenBytes(token), zero) = KeyWithNonce(TokenBytes(other), zero)
    BY <2>5, <2>7 DEF key
  <2> HIDE DEF zero
  <2>9. token = other
    BY <2>8, KeysDiffer
  <2> QED  BY <2>1, <2>4, <2>5, <2>7, <2>9 DEF key, zero
<1> QED  BY <1>3, <1>4 DEF Kept

(* The account that a set step leaves, as the description says.              *)
SetAs(acct, l, d) ==
  /\ acct.nonce = Get(d, "nonce", 0) /\ acct.balance = Get(d, "balance", 0)
  /\ acct.storage = Get(d, "storage", EmptyMap) /\ acct.code \in CodeOf(d)
  /\ "esdt" \in DOMAIN d => Kept(acct.esdt, d)

LEMMA SetAccountOne ==
  ASSUME NEW c, IsConfig(c), HaveEntries(c.accounts), NEW s, s.op = "setAccount"
  PROVE  \E e : /\ StepResults(c, s) = {e} /\ Whole(e, s.addr) /\ e.checked = c.checked
                /\ e.accounts[s.addr].nonce = s.nonce /\ e.accounts[s.addr].balance = s.balance
                /\ e.accounts[s.addr].code = s.code /\ e.accounts[s.addr].storage = s.storage
<1> DEFINE old == CreateAccount(c.accounts, s.addr)[s.addr]
           acct == [old EXCEPT !.nonce = s.nonce, !.balance = s.balance, !.code = s.code,
                               !.owner = s.owner, !.storage = s.storage]
           after == Put(c.accounts, s.addr, acct)
           e == [c EXCEPT !.accounts = after]
<1>1. IsAccountRecord(old) /\ AreEntries(old.esdt)
  BY Created, CreatedHasEntries DEF IsConfig
<1>2. StepResults(c, s) = {e}
  BY DEF StepResults, SetAccount
<1> HIDE DEF old
<1>3. /\ DOMAIN acct = AccountFields /\ acct.esdt = old.esdt
      /\ acct.nonce = s.nonce /\ acct.balance = s.balance
      /\ acct.code = s.code /\ acct.storage = s.storage
  BY <1>1 DEF IsAccountRecord, AccountFields
<1> HIDE DEF acct
<1>4. s.addr \in DOMAIN after /\ after[s.addr] = acct
  BY DEF Put
<1> HIDE DEF after
<1>5. DOMAIN e = ConfigFields /\ e.checked = c.checked /\ e.accounts = after
  BY DEF IsConfig, ConfigFields
<1> HIDE DEF e
<1> QED  BY <1>1, <1>2, <1>3, <1>4, <1>5 DEF Whole

LEMMA SetAccountSets ==
  ASSUME NEW c, IsConfig(c), HaveEntries(c.accounts), NEW l, NEW d,
         "esdt" \in DOMAIN d => IsTokens(d.esdt), NEW s \in MandosToSetAccount(l, d)
  PROVE  /\ IsList(s)
         /\ \E e : /\ AfterSteps(c, s) = {e} /\ DOMAIN e = ConfigFields
                   /\ e.checked = c.checked /\ AddressBytes[l] \in DOMAIN e.accounts
                   /\ SetAs(e.accounts[AddressBytes[l]], l, d)
<1> DEFINE a == AddressBytes[l]
           sets == {<<SetCommand(l, d, code)>> : code \in CodeOf(d)}
           esdts == Optional(d, "esdt", EsdtSets(a, d))
<1>1. s \in Pairs(sets, esdts)
  BY SetAccountPairs
<1>2. PICK u \in sets, t \in esdts : s = u \o t
  <2> HIDE DEF sets, esdts
  <2> QED  BY <1>1, PairsAre
<1>3. PICK code \in CodeOf(d) : u = <<SetCommand(l, d, code)>>
  OBVIOUS
<1> DEFINE x == SetCommand(l, d, code)
<1>4. /\ x.op = "setAccount" /\ x.addr = a /\ x.nonce = Get(d, "nonce", 0)
      /\ x.balance = Get(d, "balance", 0) /\ x.code = code
      /\ x.storage = Get(d, "storage", EmptyMap)
  BY DEF SetCommand
<1>5. u = <<x>>
  BY <1>3
<1> HIDE DEF x, sets
<1>6. IsList(u) /\ AfterSteps(c, u) = StepResults(c, x)
  BY <1>5, ListOne, AfterOne
<1>7. PICK e : /\ StepResults(c, x) = {e} /\ Whole(e, a) /\ e.checked = c.checked
               /\ e.accounts[a].nonce = x.nonce /\ e.accounts[a].balance = x.balance
               /\ e.accounts[a].code = x.code /\ e.accounts[a].storage = x.storage
  <2>1. x.op = "setAccount"
    BY <1>4
  <2>2. \E f : /\ StepResults(c, x) = {f} /\ Whole(f, x.addr) /\ f.checked = c.checked
               /\ f.accounts[x.addr].nonce = x.nonce /\ f.accounts[x.addr].balance = x.balance
               /\ f.accounts[x.addr].code = x.code /\ f.accounts[x.addr].storage = x.storage
    BY <2>1, SetAccountOne
  <2>3. x.addr = a
    BY <1>4
  <2> HIDE DEF a
  <2> QED  BY <2>2, <2>3
<1>8. /\ IsList(t) /\ \A i \in 1..Len(t) : t[i].op \in TokenOps /\ t[i].addr = a
      /\ "esdt" \in DOMAIN d => t \in EsdtSets(a, d)
  <2>1. CASE "esdt" \in DOMAIN d
    <3>1. t \in EsdtSets(a, d)
      BY <2>1 DEF Optional
    <3>2. IsList(t) /\ \A y \in Values(t) : TokenStep(a, d, y)
      BY <2>1, <3>1, SetTokensAre
    <3>3. \A i \in 1..Len(t) : TokenStep(a, d, t[i])
      BY <3>2 DEF IsList, Values
    <3> QED  BY <2>1, <3>1, <3>2, <3>3, TokenStepOps
  <2>2. CASE "esdt" \notin DOMAIN d
    <3>1. t = <<>>
      BY <2>2 DEF Optional
    <3>2. IsList(t) /\ 1..Len(t) = {}
      BY <3>1, EmptyList
    <3> QED  BY <2>2, <3>2
  <2> QED  BY <2>1, <2>2
<1> HIDE DEF a, esdts
<1>9. PICK f : /\ AfterSteps(e, t) = {f} /\ Whole(f, a) /\ f.checked = e.checked
               /\ SameFields(e.accounts[a], f.accounts[a])
               /\ Told(f.accounts[a].esdt, t, Len(t))
  BY <1>7, <1>8, TokensSet
<1>10. IsList(s) /\ AfterSteps(c, s) = {f}
  <2>1. AfterSteps(c, u) = {e}
    BY <1>6, <1>7
  <2>2. AfterSteps(c, u \o t) = AfterSteps(e, t)
    BY <1>6, <1>8, <2>1, AfterConcat
  <2> QED  BY <1>2, <1>6, <1>8, <1>9, <2>2, ConcatList
<1>11. "esdt" \in DOMAIN d => Kept(f.accounts[a].esdt, d)
  BY <1>8, <1>9, ToldIsKept
<1>12. SetAs(f.accounts[a], l, d)
  BY <1>3, <1>4, <1>7, <1>9, <1>11 DEF SetAs, SameFields
<1> QED  BY <1>7, <1>9, <1>10, <1>12 DEF Whole, a

(* ------------------- A description that is set and checked ---------------- *)

NoStar(d) == \A key \in DOMAIN d : d[key] # Star

LEMMA NoStarCompared == \A d, key : NoStar(d) => (Compared(d, key) <=> key \in DOMAIN d)
BY DEF NoStar, Compared

LEMMA StorageRestored ==
  ASSUME NEW m
  PROVE  RemoveReservedKeys(m) = RemoveEmptyBytes(m)
           <=> \A key \in DOMAIN m : m[key] = 0 <=> key \in ReservedKeys
<1> DEFINE A == DOMAIN m \ ReservedKeys
           B == {key \in DOMAIN m : m[key] # 0}
<1>1. RemoveReservedKeys(m) = [key \in A |-> m[key]] /\ RemoveEmptyBytes(m) = [key \in B |-> m[key]]
  BY DEF RemoveReservedKeys, RemoveEmptyBytes
<1>2. A = B <=> \A key \in DOMAIN m : m[key] = 0 <=> key \in ReservedKeys
  OBVIOUS
<1> HIDE DEF A, B
<1>3. [key \in A |-> m[key]] = [key \in B |-> m[key]] <=> A = B
  <2>1. DOMAIN [key \in A |-> m[key]] = A /\ DOMAIN [key \in B |-> m[key]] = B
    OBVIOUS
  <2> QED  BY <2>1
<1> QED  BY <1>1, <1>2, <1>3

LEMMA CodeRestored ==
  ASSUME NEW d, "code" \in DOMAIN d, NEW code \in CodeOf(d), NEW path \in GetContractCode(d.code)
  PROVE  code = {SourceName(f) : f \in path}
           <=> d.code.scheme = "" \/ d.code.file \notin WatFiles
<1> DEFINE Loaded(q) == IF q = {} THEN {{}}
                        ELSE {{module} : module \in UNION {FileToModuleDecl(f) : f \in q}}
<1>1. CodeOf(d) = UNION {Loaded(q) : q \in GetContractCode(d.code)}
  BY DEF CodeOf
<1>2. CASE d.code.scheme = ""
  <2>1. GetContractCode(d.code) = {{}}
    BY <1>2 DEF GetContractCode
  <2>2. path = {} /\ code \in Loaded({})
    BY <1>1, <2>1
  <2> QED  BY <1>2, <2>2
<1>3. CASE d.code.scheme # ""
  <2> DEFINE file == d.code.file
             dir == IF file \in WatFiles THEN "output" ELSE "source"
             module == [file |-> file, dir |-> dir]
  <2>1. GetContractCode(d.code) = {{file}}
    BY <1>3 DEF GetContractCode
  <2> HIDE DEF file
  <2>2. path = {file} /\ code \in Loaded({file})
    BY <1>1, <2>1
  <2>3. code \in {{x} : x \in FileToModuleDecl(file)}
    BY <2>2
  <2>4. FileToModuleDecl(file) \subseteq {module}
    BY DEF FileToModuleDecl
  <2>5. code = {module}
    BY <2>3, <2>4
  <2>6. {SourceName(f) : f \in path} = {SourceName(file)}
    BY <2>2
  <2>7. module = SourceName(file) <=> file \notin WatFiles
    <3>1. SourceName(file) = [file |-> file, dir |-> "source"]
      BY DEF SourceName
    <3>2. module.dir = dir /\ SourceName(file).dir = "source"
      BY <3>1
    <3>3. dir = "source" <=> file \notin WatFiles
      OBVIOUS
    <3>4. dir = "source" => module = SourceName(file)
      BY <3>1
    <3> HIDE DEF module, dir
    <3> QED  BY <3>2, <3>3, <3>4
  <2> HIDE DEF module
  <2> QED  BY <1>3, <2>5, <2>6, <2>7 DEF file
<1> QED  BY <1>2, <1>3

(* Only what can be restored passes the checks.                              *)
LEMMA PassedRestorable ==
  ASSUME NEW l, NEW d, NoStar(d), "esdt" \in DOMAIN d => IsTokens(d.esdt),
         NEW accounts, SetAs(accounts[AddressBytes[l]], l, d),
         NEW s \in MandosToCheckAccount(l, d), Passed(accounts, s)
  PROVE  Restorable(d)
<1> DEFINE a == AddressBytes[l]
           acct == accounts[a]
<1>1. \A key : Compared(d, key) <=> key \in DOMAIN d
  BY NoStarCompared
<1>2. /\ HasPart(s, CheckIfGiven(d, "storage", FieldCheck("checkAccountStorage", a, d.storage)))
      /\ HasPart(s, CheckIfGiven(d, "code", CodeChecks(a, d)))
      /\ HasPart(s, CheckIfGiven(d, "esdt", EsdtChecks(a, d)))
  BY <1>1, FieldsSeen
<1> HIDE DEF a
<1>3. SetAs(acct, l, d)
  BY DEF a
<1>4. ASSUME "storage" \in DOMAIN d
      PROVE  \A key \in DOMAIN d.storage : d.storage[key] = 0 <=> key \in ReservedKeys
  <2>1. [op |-> "checkAccountStorage", addr |-> a, value |-> d.storage] \in Values(s)
    BY <1>1, <1>2, <1>4, FieldSeen
  <2>2. PICK e, x : /\ Holding(e, accounts) /\ StepResults(e, x) # {}
                    /\ x.op = "checkAccountStorage" /\ x.addr = a /\ x.value = d.storage
    BY <2>1, FieldPassed
  <2>3. CheckAccountStorage(e, x) # {}
    BY <2>2 DEF StepResults
  <2>4. RemoveReservedKeys(acct.storage) = RemoveEmptyBytes(d.storage)
    BY <2>2, <2>3, CheckHolds DEF CheckAccountStorage, Holding
  <2>5. acct.storage = d.storage
    BY <1>3, <1>4 DEF SetAs, Get
  <2> QED  BY <2>4, <2>5, StorageRestored
<1>5. ASSUME "code" \in DOMAIN d
      PROVE  d.code.scheme = "" \/ d.code.file \notin WatFiles
  <2>1. HasPart(s, CodeChecks(a, d))
    BY <1>1, <1>2, <1>5 DEF CheckIfGiven
  <2>2. PICK path \in GetContractCode(d.code) :
          [op |-> "checkAccountCode", addr |-> a, value |-> path] \in Values(s)
    BY <2>1, PathSeen
  <2>3. PICK e, x : /\ Holding(e, accounts) /\ StepResults(e, x) # {}
                    /\ x.op = "checkAccountCode" /\ x.addr = a /\ x.value = path
    BY <2>2, FieldPassed
  <2>4. acct.code = {SourceName(f) : f \in path}
    BY <2>3, CodeChecked
  <2>5. acct.code \in CodeOf(d)
    BY <1>3 DEF SetAs
  <2> QED  BY <1>5, <2>4, <2>5, CodeRestored
<1>6. ASSUME "esdt" \in DOMAIN d, NEW token \in DOMAIN d.esdt,
             NEW i \in DOMAIN MandosToEsdtInstances(d.esdt[token]),
             NEW j \in DOMAIN MandosToEsdtInstances(d.esdt[token]),
             MandosToEsdtInstances(d.esdt[token])[i].nonce =
               MandosToEsdtInstances(d.esdt[token])[j].nonce
      PROVE  MandosToEsdtInstances(d.esdt[token])[i].amount =
               MandosToEsdtInstances(d.esdt[token])[j].amount
  <2>1. HasPart(s, EsdtChecks(a, d))
    BY <1>1, <1>2, <1>6 DEF CheckIfGiven
  <2>2. HasPart(s, CheckEsdtSteps(a, token, d.esdt[token]))
    BY <1>6, <2>1, TokenSeen
  <2> DEFINE v == d.esdt[token]
  <2>3. IsList(Get(v, "instances", <<>>)) /\ HasPart(s, CheckEsdtSteps(a, token, v))
    BY <1>6, <2>2 DEF IsTokens
  <2>4. /\ i \in DOMAIN MandosToEsdtInstances(v) /\ j \in DOMAIN MandosToEsdtInstances(v)
        /\ MandosToEsdtInstances(v)[i].nonce = MandosToEsdtInstances(v)[j].nonce
    BY <1>6
  <2> HIDE DEF v, acct
  <2>5. EsdtBalance(accounts[a], token, MandosToEsdtInstances(v)[i].nonce) =
          MandosToEsdtInstances(v)[i].amount
    BY <2>3, <2>4, InstancePassed
  <2>6. EsdtBalance(accounts[a], token, MandosToEsdtInstances(v)[j].nonce) =
          MandosToEsdtInstances(v)[j].amount
    BY <2>3, <2>4, InstancePassed
  <2>7. MandosToEsdtInstances(v)[i].amount = MandosToEsdtInstances(v)[j].amount
    BY <2>4, <2>5, <2>6
  <2> QED  BY <2>7 DEF v
<1> QED  BY <1>4, <1>5, <1>6 DEF Restorable

LEMMA FieldFrom ==
  ASSUME NEW d, NEW key, NEW op, NEW a, NEW v, NEW x,
         From(x, CheckIfGiven(d, key, FieldCheck(op, a, v)))
  PROVE  Compared(d, key) /\ x.op = op /\ x.addr = a /\ x.value = v
<1> DEFINE y == [op |-> op, addr |-> a, value |-> v]
           given == CheckIfGiven(d, key, FieldCheck(op, a, v))
<1>1. given = {<<>>} \/ (Compared(d, key) /\ given = {<<y>>})
  BY DEF CheckIfGiven, FieldCheck
<1>2. y.op = op /\ y.addr = a /\ y.value = v
  OBVIOUS
<1> HIDE DEF y, given
<1>3. From(x, given)
  BY DEF given
<1>4. Compared(d, key) /\ given = {<<y>>}
  BY <1>1, <1>3, NoneFrom
<1>5. x = y
  BY <1>3, <1>4, OneFrom
<1> QED  BY <1>2, <1>4, <1>5

LEMMA CodeFrom ==
  ASSUME NEW d, NEW a, NEW x, From(x, CheckIfGiven(d, "code", CodeChecks(a, d)))
  PROVE  /\ Compared(d, "code") /\ x.op = "checkAccountCode" /\ x.addr = a
         /\ x.value \in GetContractCode(d.code)
<1> DEFINE given == CheckIfGiven(d, "code", CodeChecks(a, d))
<1>1. given = {<<>>} \/ (Compared(d, "code") /\ given = CodeChecks(a, d))
  BY DEF CheckIfGiven
<1> HIDE DEF given
<1>2. From(x, given)
  BY DEF given
<1>3. Compared(d, "code") /\ From(x, CodeChecks(a, d))
  BY <1>1, <1>2, NoneFrom
<1>4. PICK p \in CodeChecks(a, d) : x \in Values(p)
  BY <1>3 DEF From
<1>5. PICK path \in GetContractCode(d.code) : p \in FieldCheck("checkAccountCode", a, path)
  BY <1>4 DEF CodeChecks
<1> DEFINE y == [op |-> "checkAccountCode", addr |-> a, value |-> path]
<1>6. p \in {<<y>>}
  BY <1>5 DEF FieldCheck
<1>7. y.op = "checkAccountCode" /\ y.addr = a /\ y.value = path
  OBVIOUS
<1> HIDE DEF y
<1>8. x = y
  BY <1>4, <1>6, OneFrom DEF From
<1> QED  BY <1>3, <1>5, <1>7, <1>8

LEMMA TokenCheckFrom ==
  ASSUME NEW d, NEW a, Compared(d, "esdt") => IsTokens(d.esdt),
         NEW x, From(x, CheckIfGiven(d, "esdt", EsdtChecks(a, d)))
  PROVE  /\ Compared(d, "esdt")
         /\ \E token \in DOMAIN d.esdt :
              \/ \E i \in DOMAIN MandosToEsdtInstances(d.esdt[token]) :
                   x = CheckBalanceStep(a, token, MandosToEsdtInstances(d.esdt[token])[i])
              \/ "roles" \in DOMAIN d.esdt[token]
                 /\ x = RolesStep("checkEsdtRoles", a, token, d.esdt[token])
<1> DEFINE given == CheckIfGiven(d, "esdt", EsdtChecks(a, d))
           r == [token \in DOMAIN d.esdt |-> CheckEsdtSteps(a, token, d.esdt[token])]
<1>1. given = {<<>>} \/ (Compared(d, "esdt") /\ given = EsdtChecks(a, d))
  BY DEF CheckIfGiven
<1> HIDE DEF given
<1>2. From(x, given)
  BY DEF given
<1>3. Compared(d, "esdt") /\ From(x, EsdtChecks(a, d))
  BY <1>1, <1>2, NoneFrom
<1>4. /\ IsFiniteSet(DOMAIN r) /\ DOMAIN r = DOMAIN d.esdt
      /\ \A token \in DOMAIN r : r[token] = CheckEsdtSteps(a, token, d.esdt[token])
      /\ EsdtChecks(a, d) = JoinedOver(r)
  BY <1>3 DEF IsTokens, EsdtChecks
<1> HIDE DEF r
<1>5. \A token \in DOMAIN d.esdt : IsList(Get(d.esdt[token], "instances", <<>>))
  BY <1>3 DEF IsTokens
<1>6. \A token \in DOMAIN r : Lists(r[token])
  BY <1>4, <1>5, CheckTokenIs DEF Lists
<1>7. PICK p \in JoinedOver(r) : x \in Values(p)
  BY <1>3, <1>4 DEF From
<1>8. PICK token \in DOMAIN r : From(x, r[token])
  BY <1>4, <1>6, <1>7, JoinedOverFrom
<1> DEFINE v == d.esdt[token]
<1>9. PICK q \in CheckEsdtSteps(a, token, v) : x \in Values(q)
  BY <1>4, <1>8 DEF From
<1>10. token \in DOMAIN d.esdt /\ IsList(Get(v, "instances", <<>>))
  BY <1>4, <1>5, <1>8
<1> HIDE DEF v
<1>11. \/ \E i \in DOMAIN MandosToEsdtInstances(v) :
            x = CheckBalanceStep(a, token, MandosToEsdtInstances(v)[i])
       \/ "roles" \in DOMAIN v /\ x = RolesStep("checkEsdtRoles", a, token, v)
  BY <1>9, <1>10, CheckTokenIs
<1> QED  BY <1>3, <1>10, <1>11 DEF v

(* Every check of what can be restored holds, ...                            *)
LEMMA RestoredPasses ==
  ASSUME NEW l, NEW d, "esdt" \in DOMAIN d => IsTokens(d.esdt), Restorable(d),
         NEW e, AddressBytes[l] \in DOMAIN e.accounts,
         SetAs(e.accounts[AddressBytes[l]], l, d)
  PROVE  \A i \in 1..5 : \A x :
           From(x, CheckLists(AddressBytes[l], d)[i]) => StepResults(e, x) = {e}
<1> DEFINE a == AddressBytes[l]
<1>9. a \in DOMAIN e.accounts /\ SetAs(e.accounts[a], l, d)
  OBVIOUS
<1> SUFFICES ASSUME NEW i \in 1..5, NEW x, From(x, CheckLists(a, d)[i])
             PROVE  StepResults(e, x) = {e}
  OBVIOUS
<1> HIDE DEF a
<1> DEFINE acct == e.accounts[a]
           r == CheckLists(a, d)
<1>0. IsAccount(e, a) /\ \A key : Compared(d, key) => key \in DOMAIN d
  BY <1>9 DEF IsAccount, Compared
<1>1. /\ r[1] = CheckIfGiven(d, "nonce", FieldCheck("checkAccountNonce", a, d.nonce))
      /\ r[2] = CheckIfGiven(d, "balance", FieldCheck("checkAccountBalance", a, d.balance))
      /\ r[3] = CheckIfGiven(d, "storage", FieldCheck("checkAccountStorage", a, d.storage))
      /\ r[4] = CheckIfGiven(d, "code", CodeChecks(a, d))
      /\ r[5] = CheckIfGiven(d, "esdt", EsdtChecks(a, d))
  BY DEF CheckLists
<1> HIDE DEF r
<1>2. From(x, r[i])
  BY DEF r
<1>3. CASE i = 1
  <2>1. From(x, r[1])
    BY <1>2, <1>3
  <2>2. "nonce" \in DOMAIN d /\ x.op = "checkAccountNonce" /\ x.addr = a /\ x.value = d.nonce
    BY <1>0, <1>1, <2>1, FieldFrom
  <2>3. acct.nonce = d.nonce
    BY <1>9, <2>2 DEF SetAs, Get
  <2>4. StepResults(e, x) = CheckAccountNonce(e, x)
    BY <2>2 DEF StepResults
  <2> QED  BY <1>0, <2>2, <2>3, <2>4 DEF CheckAccountNonce, CheckAccount, Check
<1>4. CASE i = 2
  <2>1. From(x, r[2])
    BY <1>2, <1>4
  <2>2. "balance" \in DOMAIN d /\ x.op = "checkAccountBalance" /\ x.addr = a
        /\ x.value = d.balance
    BY <1>0, <1>1, <2>1, FieldFrom
  <2>3. acct.balance = d.balance
    BY <1>9, <2>2 DEF SetAs, Get
  <2>4. StepResults(e, x) = CheckAccountBalance(e, x)
    BY <2>2 DEF StepResults
  <2> QED  BY <1>0, <2>2, <2>3, <2>4 DEF CheckAccountBalance, CheckAccount, Check
<1>5. CASE i = 3
  <2>1. From(x, r[3])
    BY <1>2, <1>5
  <2>2. "storage" \in DOMAIN d /\ x.op = "checkAccountStorage" /\ x.addr = a
        /\ x.value = d.storage
    BY <1>0, <1>1, <2>1, FieldFrom
  <2>3. acct.storage = d.storage
    BY <1>9, <2>2 DEF SetAs, Get
  <2>4. RemoveReservedKeys(d.storage) = RemoveEmptyBytes(d.storage)
    BY <2>2, StorageRestored DEF Restorable
  <2>5. StepResults(e, x) = CheckAccountStorage(e, x)
    BY <2>2 DEF StepResults
  <2> QED  BY <1>0, <2>2, <2>3, <2>4, <2>5 DEF CheckAccountStorage, CheckAccount, Check
<1>6. CASE i = 4
  <2>1. From(x, r[4])
    BY <1>2, <1>6
  <2>2. /\ "code" \in DOMAIN d /\ x.op = "checkAccountCode" /\ x.addr = a
        /\ x.value \in GetContractCode(d.code)
    BY <1>0, <1>1, <2>1, CodeFrom
  <2>3. acct.code \in CodeOf(d)
    BY <1>9 DEF SetAs
  <2>4. d.code.scheme = "" \/ d.code.file \notin WatFiles
    BY <2>2 DEF Restorable
  <2>5. acct.code = {SourceName(f) : f \in x.value}
    BY <2>2, <2>3, <2>4, CodeRestored
  <2>6. StepResults(e, x) = CheckAccountCode(e, x)
    BY <2>2 DEF StepResults
  <2> QED  BY <1>0, <2>2, <2>5, <2>6 DEF CheckAccountCode, CheckAccount, Check
<1>7. CASE i = 5
  <2>1. From(x, r[5])
    BY <1>2, <1>7
  <2>0. Compared(d, "esdt") => IsTokens(d.esdt)
    BY DEF Compared
  <2>2. /\ "esdt" \in DOMAIN d
        /\ \E token \in DOMAIN d.esdt :
             \/ \E j \in DOMAIN MandosToEsdtInstances(d.esdt[token]) :
                  x = CheckBalanceStep(a, token, MandosToEsdtInstances(d.esdt[token])[j])
             \/ "roles" \in DOMAIN d.esdt[token]
                /\ x = RolesStep("checkEsdtRoles", a, token, d.esdt[token])
    BY <1>0, <1>1, <2>0, <2>1, TokenCheckFrom
  <2>3. PICK token \in DOMAIN d.esdt :
          \/ \E j \in DOMAIN MandosToEsdtInstances(d.esdt[token]) :
               x = CheckBalanceStep(a, token, MandosToEsdtInstances(d.esdt[token])[j])
          \/ "roles" \in DOMAIN d.esdt[token]
             /\ x = RolesStep("checkEsdtRoles", a, token, d.esdt[token])
    BY <2>2
  <2> DEFINE v == d.esdt[token]
             inst == MandosToEsdtInstances(v)
             esdt == acct.esdt
  <2>4. Kept(esdt, d)
    BY <1>9, <2>2 DEF SetAs
  <2>5. CASE \E j \in DOMAIN inst : x = CheckBalanceStep(a, token, inst[j])
    <3>1. PICK j \in DOMAIN inst : x = CheckBalanceStep(a, token, inst[j])
      BY <2>5
    <3> DEFINE key == KeyWithNonce(TokenBytes(token), inst[j].nonce)
    <3>2. /\ key \in DOMAIN esdt
          /\ \E n \in DOMAIN inst : inst[n].nonce = inst[j].nonce /\ esdt[key].balance = inst[n].amount
      BY <2>4, <3>1 DEF Kept
    <3>3. \A n \in DOMAIN inst : inst[n].nonce = inst[j].nonce => inst[n].amount = inst[j].amount
      BY <2>2, <2>3, <3>1 DEF Restorable
    <3>4. /\ x.op = "checkAccountESDTBalance" /\ x.addr = a /\ x.token = TokenBytes(token)
          /\ x.nonce = inst[j].nonce /\ x.balance = inst[j].amount
      BY <3>1 DEF CheckBalanceStep
    <3> HIDE DEF inst, v
    <3>5. key \in DOMAIN esdt /\ esdt[key].balance = x.balance /\ key = KeyWithNonce(x.token, x.nonce)
      BY <3>2, <3>3, <3>4
    <3> HIDE DEF key
    <3>6. StepResults(e, x) = CheckAccountESDTBalance(e, x)
      BY <3>4 DEF StepResults
    <3> QED  BY <1>0, <3>4, <3>5, <3>6 DEF CheckAccountESDTBalance, CheckAccount, Check
  <2>6. CASE "roles" \in DOMAIN v /\ x = RolesStep("checkEsdtRoles", a, token, v)
    <3> DEFINE zero == 0
               key == KeyWithNonce(TokenBytes(token), zero)
    <3>1. key \in DOMAIN esdt /\ esdt[key].roles = v.roles
      BY <2>4, <2>6 DEF Kept
    <3>2. /\ x.op = "checkEsdtRoles" /\ x.addr = a /\ x.token = TokenBytes(token)
          /\ x.roles = v.roles
      BY <2>6 DEF RolesStep
    <3>3. key = KeyWithNonce(x.token, zero)
      BY <3>2
    <3> HIDE DEF key, v
    <3>4. StepResults(e, x) = CheckEsdtRoles(e, x)
      BY <3>2 DEF StepResults
    <3> QED  BY <1>0, <3>1, <3>2, <3>3, <3>4 DEF CheckEsdtRoles, CheckAccount, Check
  <2> QED  BY <2>3, <2>5, <2>6
<1> QED
  <2>1. i = 1 \/ i = 2 \/ i = 3 \/ i = 4 \/ i = 5
    OBVIOUS
  <2> QED  BY <1>3, <1>4, <1>5, <1>6, <1>7, <2>1

(* ... and there are checks of whatever was set.                             *)
LEMMA ChecksExist ==
  ASSUME NEW l, NEW d, "esdt" \in DOMAIN d => IsTokens(d.esdt), NEW acct, SetAs(acct, l, d),
         NEW a
  PROVE  \A i \in 1..6 : CheckLists(a, d)[i] # {} /\ Lists(CheckLists(a, d)[i])
<1> DEFINE r == CheckLists(a, d)
           last == [op |-> "checkedAccount", addr |-> a]
<1>1. /\ r[1] = CheckIfGiven(d, "nonce", FieldCheck("checkAccountNonce", a, d.nonce))
      /\ r[2] = CheckIfGiven(d, "balance", FieldCheck("checkAccountBalance", a, d.balance))
      /\ r[3] = CheckIfGiven(d, "storage", FieldCheck("checkAccountStorage", a, d.storage))
      /\ r[4] = CheckIfGiven(d, "code", CodeChecks(a, d))
      /\ r[5] = CheckIfGiven(d, "esdt", EsdtChecks(a, d))
      /\ r[6] = {<<last>>}
  BY DEF CheckLists
<1> HIDE DEF r, last
<1>2. \A key, A : (key \in DOMAIN d => A # {} /\ Lists(A)) =>
                    CheckIfGiven(d, key, A) # {} /\ Lists(CheckIfGiven(d, key, A))
  BY EmptyList DEF CheckIfGiven, Compared, Lists
<1>3. \A op, v : FieldCheck(op, a, v) # {} /\ Lists(FieldCheck(op, a, v))
  BY ListOne DEF FieldCheck, Lists
<1>4. r[1] # {} /\ Lists(r[1]) /\ r[2] # {} /\ Lists(r[2]) /\ r[3] # {} /\ Lists(r[3])
  BY <1>1, <1>2, <1>3
<1>5. r[4] # {} /\ Lists(r[4])
  <2>1. ASSUME "code" \in DOMAIN d PROVE CodeChecks(a, d) # {} /\ Lists(CodeChecks(a, d))
    <3>1. GetContractCode(d.code) # {}
      BY <2>1 DEF SetAs, CodeOf
    <3> QED  BY <1>3, <3>1 DEF CodeChecks, Lists
  <2> QED  BY <1>1, <1>2, <2>1
<1>6. r[5] # {} /\ Lists(r[5])
  <2>1. ASSUME "esdt" \in DOMAIN d PROVE EsdtChecks(a, d) # {} /\ Lists(EsdtChecks(a, d))
    <3> DEFINE u == [token \in DOMAIN d.esdt |-> CheckEsdtSteps(a, token, d.esdt[token])]
    <3>1. /\ IsFiniteSet(DOMAIN u) /\ DOMAIN u = DOMAIN d.esdt
          /\ \A token \in DOMAIN u : u[token] = CheckEsdtSteps(a, token, d.esdt[token])
          /\ EsdtChecks(a, d) = JoinedOver(u)
      BY <2>1 DEF IsTokens, EsdtChecks
    <3> HIDE DEF u
    <3>2. ASSUME NEW token \in DOMAIN u PROVE u[token] # {} /\ Lists(u[token])
      <4> DEFINE v == d.esdt[token]
      <4>1. /\ IsList(Get(v, "instances", <<>>)) /\ u[token] = CheckEsdtSteps(a, token, v)
            /\ "roles" \in DOMAIN v => v.roles \subseteq ESDT_ROLES
        BY <2>1, <3>1 DEF IsTokens, SetAs, Kept
      <4> HIDE DEF v
      <4> QED  BY <4>1, CheckTokenIs DEF Lists
    <3>3. JoinedOver(u) # {}
      BY <3>1, <3>2, JoinedOverSome
    <3>4. Lists(JoinedOver(u))
      BY <3>1, <3>2, JoinedOverFrom DEF Lists
    <3> QED  BY <3>1, <3>3, <3>4
  <2> QED  BY <1>1, <1>2, <2>1
<1>7. r[6] # {} /\ Lists(r[6])
  BY <1>1, ListOne DEF Lists
<1> QED
  <2>1. \A i \in 1..6 : i = 1 \/ i = 2 \/ i = 3 \/ i = 4 \/ i = 5 \/ i = 6
    OBVIOUS
  <2> QED  BY <1>4, <1>5, <1>6, <1>7, <2>1 DEF r

(* Checks that hold, with the mark of the account behind them, are executed. *)
LEMMA ChecksRun ==
  ASSUME NEW l, NEW d, NEW e, AddressBytes[l] \notin e.checked,
         \A i \in 1..6 : CheckLists(AddressBytes[l], d)[i] # {}
                         /\ Lists(CheckLists(AddressBytes[l], d)[i]),
         \A i \in 1..5 : \A x :
           From(x, CheckLists(AddressBytes[l], d)[i]) => StepResults(e, x) = {e}
  PROVE  \E t \in MandosToCheckAccount(l, d) : IsList(t) /\ AfterSteps(e, t) # {}
<1> DEFINE a == AddressBytes[l]
           r == CheckLists(a, d)
           last == [op |-> "checkedAccount", addr |-> a]
<1>1. IsList(r) /\ DOMAIN r = {1, 2, 3, 4, 5, 6} /\ Len(r) = 6
  BY ListSix DEF CheckLists
<1>2. \A i \in 1..6 : r[i] # {} /\ Lists(r[i])
  OBVIOUS
<1>3. \A i \in 1..5 : \A x : From(x, r[i]) => StepResults(e, x) = {e}
  OBVIOUS
<1>4. r[6] = {<<last>>}
  BY DEF CheckLists
<1>5. MandosToCheckAccount(l, d) = Joined(r)
  BY CheckAccountIs
<1>6. StepResults(e, last) # {}
  <2>1. last.op = "checkedAccount" /\ last.addr = a
    OBVIOUS
  <2> HIDE DEF last
  <2>2. StepResults(e, last) = CheckedAccount(e, last)
    BY <2>1 DEF StepResults
  <2> QED  BY <2>1, <2>2 DEF CheckedAccount
<1> HIDE DEF r, last
<1>7. \A i \in DOMAIN r : i \in 1..6
  BY <1>1
<1>8. Joined(r) # {}
  BY <1>1, <1>2, <1>7, JoinedSome
<1>9. Joined(r) = JoinedTo(r, Len(r))
      /\ \A n \in 1..Len(r) : JoinedTo(r, n) = Pairs(JoinedTo(r, n - 1), r[n])
  BY <1>1, JoinedSteps
<1>10. Joined(r) = Pairs(JoinedTo(r, 5), r[6]) /\ 5 \in 0..Len(r)
  <2>1. 6 \in 1..Len(r) /\ 6 - 1 = 5 /\ 5 \in 0..Len(r)
    BY <1>1
  <2>2. JoinedTo(r, 6) = Pairs(JoinedTo(r, 6 - 1), r[6])
    BY <1>9, <2>1
  <2> QED  BY <1>1, <1>9, <2>1, <2>2
<1>11. PICK t \in Pairs(JoinedTo(r, 5), r[6]) : t \in Joined(r)
  BY <1>8, <1>10
<1>12. PICK q \in JoinedTo(r, 5), b \in r[6] : t = q \o b
  BY <1>11, PairsAre
<1>13. IsList(q) /\ \A x \in Values(q) : \E i \in 1..5 : From(x, r[i])
  BY <1>1, <1>2, <1>7, <1>10, <1>12, JoinedFrom
<1>14. AfterSteps(e, q) = {e}
  BY <1>3, <1>13, AfterChecks
<1>15. b = <<last>> /\ IsList(b) /\ AfterSteps(e, b) = StepResults(e, last)
  BY <1>4, <1>12, ListOne, AfterOne
<1>16. AfterSteps(e, t) # {} /\ IsList(t)
  <2>1. AfterSteps(e, q \o b) = AfterSteps(e, b)
    BY <1>13, <1>14, <1>15, AfterConcat
  <2>2. IsList(q \o b)
    BY <1>13, <1>15, ConcatList
  <2> QED  BY <1>6, <1>12, <1>15, <2>1, <2>2
<1> QED  BY <1>5, <1>11, <1>16

LEMMA RestoredChecks ==
  ASSUME NEW l, NEW d, "esdt" \in DOMAIN d => IsTokens(d.esdt), Restorable(d),
         NEW e, AddressBytes[l] \in DOMAIN e.accounts, AddressBytes[l] \notin e.checked,
         SetAs(e.accounts[AddressBytes[l]], l, d)
  PROVE  \E t \in MandosToCheckAccount(l, d) : IsList(t) /\ AfterSteps(e, t) # {}
<1> DEFINE a == AddressBytes[l]
<1>1. \A i \in 1..6 : CheckLists(a, d)[i] # {} /\ Lists(CheckLists(a, d)[i])
  BY ChecksExist
<1>2. \A i \in 1..5 : \A x : From(x, CheckLists(a, d)[i]) => StepResults(e, x) = {e}
  <2> DEFINE r == CheckLists(a, d)
  <2>1. /\ \A x : From(x, r[1]) => StepResults(e, x) = {e}
        /\ \A x : From(x, r[2]) => StepResults(e, x) = {e}
        /\ \A x : From(x, r[3]) => StepResults(e, x) = {e}
        /\ \A x : From(x, r[4]) => StepResults(e, x) = {e}
        /\ \A x : From(x, r[5]) => StepResults(e, x) = {e}
    BY RestoredPasses
  <2>2. \A i \in 1..5 : i = 1 \/ i = 2 \/ i = 3 \/ i = 4 \/ i = 5
    OBVIOUS
  <2> HIDE DEF r
  <2>3. \A i \in 1..5 : \A x : From(x, r[i]) => StepResults(e, x) = {e}
    BY <2>1, <2>2
  <2> QED  BY <2>3 DEF r
<1> QED  BY <1>1, <1>2, ChecksRun

LEMMA SetAndChecked ==
  ASSUME NEW c, IsConfig(c), HaveEntries(c.accounts), c.checked = {}, NEW l, NEW d, NoStar(d),
         "esdt" \in DOMAIN d => IsTokens(d.esdt), MandosToSetAccount(l, d) # {}
  PROVE  (\E t \in Joined(<<MandosToSetAccount(l, d), MandosToCheckAccount(l, d)>>) :
            AfterSteps(c, t) # {}) <=> Restorable(d)
<1> DEFINE S == MandosToSetAccount(l, d)
           C == MandosToCheckAccount(l, d)
           a == AddressBytes[l]
           Settled(e) == /\ DOMAIN e = ConfigFields /\ e.checked = c.checked
                         /\ a \in DOMAIN e.accounts /\ SetAs(e.accounts[a], l, d)
<1>1. \A s \in S : IsList(s) /\ \E e : AfterSteps(c, s) = {e} /\ Settled(e)
  BY SetAccountSets
<1>2. \A t \in C : OnlyOps(t, CheckingOps) /\ IsList(t)
  <2>1. Compared(d, "esdt") => IsTokens(d.esdt)
    BY DEF Compared
  <2> QED  BY <2>1, CheckAccountOnly DEF OnlyOps
<1>3. Joined(<<S, C>>) = Pairs(S, C)
  BY <1>1, JoinedTwoIs
<1>4. ASSUME NEW u \in Pairs(S, C), AfterSteps(c, u) # {} PROVE Restorable(d)
  <2>1. PICK s \in S, t \in C : u = s \o t
    BY PairsAre
  <2>2. PICK e : AfterSteps(c, s) = {e} /\ Settled(e)
    BY <1>1
  <2>3. AfterSteps(e, t) # {}
    <3>1. IsList(s) /\ IsList(t) /\ AfterSteps(c, s) = {e}
      BY <1>1, <1>2, <2>1, <2>2
    <3>2. AfterSteps(c, s \o t) = AfterSteps(e, t)
      BY <3>1, AfterConcat
    <3> QED  BY <1>4, <2>1, <3>2
  <2>4. Holding(e, e.accounts) /\ OnlyOps(t, CheckingOps)
    BY <1>2, <2>2 DEF Holding
  <2>5. Passed(e.accounts, t)
    BY <2>3, <2>4, ChecksPassed DEF Passed
  <2> QED  BY <2>2, <2>5, PassedRestorable
<1>5. ASSUME Restorable(d) PROVE \E u \in Pairs(S, C) : AfterSteps(c, u) # {}
  <2>1. PICK s \in S : TRUE
    OBVIOUS
  <2>2. PICK e : AfterSteps(c, s) = {e} /\ Settled(e)
    BY <1>1
  <2>3. a \notin e.checked
    BY <2>2
  <2>4. PICK t \in C : IsList(t) /\ AfterSteps(e, t) # {}
    BY <1>5, <2>2, <2>3, RestoredChecks
  <2>5. AfterSteps(c, s \o t) # {}
    BY <1>1, <2>2, <2>4, AfterConcat
  <2>6. s \o t \in Pairs(S, C)
    BY PairsAre
  <2> QED  BY <2>5, <2>6
<1> HIDE DEF S, C
<1> QED  BY <1>3, <1>4, <1>5 DEF S, C

(* An account that a setState step describes passes a checkState step with   *)
(* the same description exactly if the description can be restored, whatever *)
(* the state before: for every configuration that a run of any scenario      *)
(* files reaches, with any accounts and any token data, and for every        *)
(* description, with any number of storage keys, tokens and instances        *)
(* (scenario.py:295-333 and 404-442, mandos.md:143-300 and 390-550).                     *)
THEOREM SetStateRestores == Spec => []SetStateChecksBack
<1>1. EntriesInv => SetStateChecksBack
  <2> SUFFICES ASSUME EntriesInv, NEW l \in DOMAIN AddressBytes, NEW d \in Descriptions,
                      \A key \in DOMAIN d : d[key] # Star, MandosToSetAccount(l, d) # {}
               PROVE  Passes(config, Joined(<<MandosToSetAccount(l, d),
                                              MandosToCheckAccount(l, d)>>)) <=> Restorable(d)
    BY DEF SetStateChecksBack
  <2> DEFINE c == Unchecked(config)
  <2>1. IsConfig(c) /\ HaveEntries(c.accounts) /\ c.checked = {}
    <3>1. IsConfig(config) /\ HaveEntries(config.accounts)
      BY DEF EntriesInv, Inv, ConfigInv
    <3> QED  BY <3>1 DEF Unchecked, IsConfig, ConfigFields
  <2>2. NoStar(d)
    BY DEF NoStar
  <2>3. "esdt" \in DOMAIN d => IsTokens(d.esdt)
    BY <2>2, NoStarCompared, DescriptionsAssumption
  <2> HIDE DEF c
  <2>4. (\E t \in Joined(<<MandosToSetAccount(l, d), MandosToCheckAccount(l, d)>>) :
           AfterSteps(c, t) # {}) <=> Restorable(d)
    BY <2>1, <2>2, <2>3, SetAndChecked
  <2> QED  BY <2>4 DEF Passes, c
<1> QED  BY <1>1, EntriesInvariant, PTL

(* ----------------------- What a checkState step decides ------------------- *)

(* A step that compares something of the account with a field described.     *)
Compares(x, a, d) ==
  \/ Compared(d, "nonce") /\ x.op = "checkAccountNonce" /\ x.addr = a /\ x.value = d.nonce
  \/ Compared(d, "balance") /\ x.op = "checkAccountBalance" /\ x.addr = a /\ x.value = d.balance
  \/ Compared(d, "storage") /\ x.op = "checkAccountStorage" /\ x.addr = a /\ x.value = d.storage
  \/ /\ Compared(d, "code") /\ x.op = "checkAccountCode" /\ x.addr = a
     /\ x.value \in GetContractCode(d.code)
  \/ /\ Compared(d, "esdt")
     /\ \E token \in DOMAIN d.esdt :
          \/ \E i \in DOMAIN MandosToEsdtInstances(d.esdt[token]) :
               x = CheckBalanceStep(a, token, MandosToEsdtInstances(d.esdt[token])[i])
          \/ "roles" \in DOMAIN d.esdt[token]
             /\ x = RolesStep("checkEsdtRoles", a, token, d.esdt[token])

LEMMA ChecksCompare ==
  ASSUME NEW a, NEW d, Compared(d, "esdt") => IsTokens(d.esdt),
         NEW i \in 1..5, NEW x, From(x, CheckLists(a, d)[i])
  PROVE  Compares(x, a, d)
<1> DEFINE r == CheckLists(a, d)
<1>1. /\ r[1] = CheckIfGiven(d, "nonce", FieldCheck("checkAccountNonce", a, d.nonce))
      /\ r[2] = CheckIfGiven(d, "balance", FieldCheck("checkAccountBalance", a, d.balance))
      /\ r[3] = CheckIfGiven(d, "storage", FieldCheck("checkAccountStorage", a, d.storage))
      /\ r[4] = CheckIfGiven(d, "code", CodeChecks(a, d))
      /\ r[5] = CheckIfGiven(d, "esdt", EsdtChecks(a, d))
  BY DEF CheckLists
<1>2. From(x, r[i])
  OBVIOUS
<1> HIDE DEF r
<1>3. CASE i = 1
  BY <1>1, <1>2, <1>3, FieldFrom DEF Compares
<1>4. CASE i = 2
  BY <1>1, <1>2, <1>4, FieldFrom DEF Compares
<1>5. CASE i = 3
  BY <1>1, <1>2, <1>5, FieldFrom DEF Compares
<1>6. CASE i = 4
  BY <1>1, <1>2, <1>6, CodeFrom DEF Compares
<1>7. CASE i = 5
  BY <1>1, <1>2, <1>7, TokenCheckFrom DEF Compares
<1> QED
  <2>1. i = 1 \/ i = 2 \/ i = 3 \/ i = 4 \/ i = 5
    OBVIOUS
  <2> QED  BY <1>3, <1>4, <1>5, <1>6, <1>7, <2>1

LEMMA BalanceAgrees ==
  ASSUME NEW acct, NEW token, NEW v, AgreesOnToken(acct, token, v),
         NEW i \in DOMAIN MandosToEsdtInstances(v)
  PROVE  EsdtBalance(acct, token, MandosToEsdtInstances(v)[i].nonce) =
           MandosToEsdtInstances(v)[i].amount
<1>1. CASE "plain" \in DOMAIN v
  <2> DEFINE x == [nonce |-> 0, amount |-> v.plain, metadata |-> {}]
  <2>1. MandosToEsdtInstances(v) = <<x>>
    BY <1>1 DEF MandosToEsdtInstances
  <2>2. x.nonce = 0 /\ x.amount = v.plain
    OBVIOUS
  <2>3. EsdtBalance(acct, token, 0) = v.plain
    BY <1>1 DEF AgreesOnToken
  <2> HIDE DEF x
  <2>4. MandosToEsdtInstances(v)[i] = x
    BY <2>1, ListOne
  <2> QED  BY <2>2, <2>3, <2>4
<1>2. CASE "plain" \notin DOMAIN v
  <2>1. /\ i \in DOMAIN Get(v, "instances", <<>>)
        /\ MandosToEsdtInstances(v)[i].nonce = Get(v.instances[i], "nonce", 0)
        /\ MandosToEsdtInstances(v)[i].amount = v.instances[i].balance
    BY <1>2 DEF MandosToEsdtInstances
  <2>2. EsdtBalance(acct, token, Get(v.instances[i], "nonce", 0)) = v.instances[i].balance
    BY <1>2, <2>1 DEF AgreesOnToken
  <2> QED  BY <2>1, <2>2
<1> QED  BY <1>1, <1>2

(* A step that compares what agrees leaves the configuration as it is.       *)
LEMMA AgreedPasses ==
  ASSUME NEW a, NEW d, NEW e, a \in DOMAIN e.accounts, Agrees(e.accounts[a], d),
         NEW x, Compares(x, a, d)
  PROVE  StepResults(e, x) = {e}
<1> DEFINE acct == e.accounts[a]
<1>0. IsAccount(e, a) /\ Agrees(acct, d)
  BY DEF IsAccount
<1>1. CASE Compared(d, "nonce") /\ x.op = "checkAccountNonce" /\ x.addr = a /\ x.value = d.nonce
  <2>1. StepResults(e, x) = CheckAccountNonce(e, x)
    BY <1>1 DEF StepResults
  <2> QED  BY <1>0, <1>1, <2>1 DEF CheckAccountNonce, CheckAccount, Check, Agrees
<1>2. CASE /\ Compared(d, "balance") /\ x.op = "checkAccountBalance" /\ x.addr = a
           /\ x.value = d.balance
  <2>1. StepResults(e, x) = CheckAccountBalance(e, x)
    BY <1>2 DEF StepResults
  <2> QED  BY <1>0, <1>2, <2>1 DEF CheckAccountBalance, CheckAccount, Check, Agrees
<1>3. CASE /\ Compared(d, "storage") /\ x.op = "checkAccountStorage" /\ x.addr = a
           /\ x.value = d.storage
  <2>1. StepResults(e, x) = CheckAccountStorage(e, x)
    BY <1>3 DEF StepResults
  <2>2. RemoveReservedKeys(acct.storage) = RemoveEmptyBytes(d.storage)
    BY <1>0, <1>3, StorageAgrees DEF Agrees
  <2> QED  BY <1>0, <1>3, <2>1, <2>2 DEF CheckAccountStorage, CheckAccount, Check
<1>4. CASE /\ Compared(d, "code") /\ x.op = "checkAccountCode" /\ x.addr = a
           /\ x.value \in GetContractCode(d.code)
  <2>1. StepResults(e, x) = CheckAccountCode(e, x)
    BY <1>4 DEF StepResults
  <2>2. acct.code = Described(d.code)
    BY <1>0, <1>4 DEF Agrees, Described
  <2>3. acct.code = {SourceName(f) : f \in x.value}
    BY <1>4, <2>2, CodeOfPath
  <2> QED  BY <1>0, <1>4, <2>1, <2>3 DEF CheckAccountCode, CheckAccount, Check
<1>5. ASSUME Compared(d, "esdt"), NEW token \in DOMAIN d.esdt,
             \/ \E i \in DOMAIN MandosToEsdtInstances(d.esdt[token]) :
                  x = CheckBalanceStep(a, token, MandosToEsdtInstances(d.esdt[token])[i])
             \/ "roles" \in DOMAIN d.esdt[token]
                /\ x = RolesStep("checkEsdtRoles", a, token, d.esdt[token])
      PROVE  StepResults(e, x) = {e}
  <2> DEFINE v == d.esdt[token]
             inst == MandosToEsdtInstances(v)
             esdt == acct.esdt
             zero == 0
  <2>1. AgreesOnToken(acct, token, v)
    BY <1>0, <1>5 DEF Agrees
  <2>2. CASE \E i \in DOMAIN inst : x = CheckBalanceStep(a, token, inst[i])
    <3>1. PICK i \in DOMAIN inst : x = CheckBalanceStep(a, token, inst[i])
      BY <2>2
    <3>2. EsdtBalance(acct, token, inst[i].nonce) = inst[i].amount
      BY <2>1, <3>1, BalanceAgrees
    <3>3. /\ x.op = "checkAccountESDTBalance" /\ x.addr = a /\ x.token = TokenBytes(token)
          /\ x.nonce = inst[i].nonce /\ x.balance = inst[i].amount
      BY <3>1 DEF CheckBalanceStep
    <3> HIDE DEF inst, v
    <3> DEFINE key == KeyWithNonce(x.token, x.nonce)
    <3>4. IF key \in DOMAIN esdt THEN esdt[key].balance = x.balance ELSE x.balance = 0
      BY <3>2, <3>3 DEF EsdtBalance
    <3> HIDE DEF key
    <3>5. StepResults(e, x) = CheckAccountESDTBalance(e, x)
      BY <3>3 DEF StepResults
    <3> QED  BY <1>0, <3>3, <3>4, <3>5 DEF CheckAccountESDTBalance, CheckAccount, Check, key
  <2>3. CASE "roles" \in DOMAIN v /\ x = RolesStep("checkEsdtRoles", a, token, v)
    <3> DEFINE key == KeyWithNonce(TokenBytes(token), zero)
    <3>1. key \in DOMAIN esdt /\ esdt[key].roles = v.roles
      BY <2>1, <2>3 DEF AgreesOnToken
    <3>2. /\ x.op = "checkEsdtRoles" /\ x.addr = a /\ x.token = TokenBytes(token)
          /\ x.roles = v.roles
      BY <2>3 DEF RolesStep
    <3>3. key = KeyWithNonce(x.token, zero)
      BY <3>2
    <3> HIDE DEF key, v
    <3>4. StepResults(e, x) = CheckEsdtRoles(e, x)
      BY <3>2 DEF StepResults
    <3> QED  BY <1>0, <3>1, <3>2, <3>3, <3>4 DEF CheckEsdtRoles, CheckAccount, Check
  <2> QED  BY <1>5, <2>2, <2>3
<1> QED  BY <1>1, <1>2, <1>3, <1>4, <1>5 DEF Compares

LEMMA ComparesIs ==
  ASSUME NEW a, NEW d, NEW x, Compares(x, a, d)
  PROVE  ComparesSomething(d)
<1>1. ASSUME Compared(d, "esdt"), NEW token \in DOMAIN d.esdt,
             NEW i \in DOMAIN MandosToEsdtInstances(d.esdt[token])
      PROVE  ComparesSomething(d)
  <2> DEFINE list == Get(d.esdt[token], "instances", <<>>)
  <2>1. "plain" \in DOMAIN d.esdt[token] \/ i \in DOMAIN list
    BY <1>1 DEF MandosToEsdtInstances
  <2> HIDE DEF list
  <2>2. i \in DOMAIN list => list # <<>>
    BY EmptyList DEF IsList
  <2> QED  BY <1>1, <2>1, <2>2 DEF ComparesSomething, list
<1> QED  BY <1>1 DEF Compares, ComparesSomething

(* The checks of a description that can be translated.                       *)
LEMMA ListsOfChecks ==
  ASSUME NEW l, NEW d, Compared(d, "esdt") => IsTokens(d.esdt), MandosToCheckAccount(l, d) # {}
  PROVE  \A i \in 1..6 : CheckLists(AddressBytes[l], d)[i] # {}
                         /\ Lists(CheckLists(AddressBytes[l], d)[i])
<1> DEFINE a == AddressBytes[l]
           nonces == CheckIfGiven(d, "nonce", FieldCheck("checkAccountNonce", a, d.nonce))
           balances == CheckIfGiven(d, "balance", FieldCheck("checkAccountBalance", a, d.balance))
           storages == CheckIfGiven(d, "storage", FieldCheck("checkAccountStorage", a, d.storage))
           codes == CheckIfGiven(d, "code", CodeChecks(a, d))
           esdts == CheckIfGiven(d, "esdt", EsdtChecks(a, d))
           last == {<<[op |-> "checkedAccount", addr |-> a]>>}
<1>1. \A t \in nonces \cup balances \cup storages : OnlyOps(t, CheckingOps)
  BY FieldCheckOnly, IfGivenOnly
<1>2. \A t \in codes : OnlyOps(t, CheckingOps)
  <2>1. \A t \in CodeChecks(a, d) : OnlyOps(t, CheckingOps)
    BY FieldCheckOnly DEF CodeChecks
  <2> QED  BY <2>1, IfGivenOnly
<1>3. \A t \in esdts : OnlyOps(t, CheckingOps)
  BY EsdtChecksOnly, IfGivenOnly
<1>4. \A t \in last : OnlyOps(t, CheckingOps)
  BY PlainLegal, SingleStep DEF PlainOps, CheckingOps
<1>5. CheckLists(a, d) = <<nonces, balances, storages, codes, esdts, last>>
  BY DEF CheckLists
<1> HIDE DEF nonces, balances, storages, codes, esdts, last
<1> DEFINE r == <<nonces, balances, storages, codes, esdts, last>>
<1>6. IsList(r) /\ DOMAIN r = {1, 2, 3, 4, 5, 6}
  BY ListSix
<1>7. \A i \in DOMAIN r : \A t \in r[i] : IsList(t)
  BY <1>1, <1>2, <1>3, <1>4, <1>6 DEF OnlyOps
<1>8. Joined(r) # {} /\ r = CheckLists(a, d)
  BY <1>5, CheckAccountIs
<1> HIDE DEF r
<1>9. \A i \in DOMAIN r : r[i] # {}
  BY <1>6, <1>8, JoinedSome
<1>10. \A i \in 1..6 : i \in DOMAIN r
  BY <1>6
<1> QED  BY <1>7, <1>8, <1>9, <1>10 DEF Lists

LEMMA ChecksAreDecided ==
  ASSUME NEW c, IsConfig(c), c.checked = {}, NEW l, NEW d,
         Compared(d, "esdt") => IsTokens(d.esdt)
  PROVE  (\E s \in MandosToCheckAccount(l, d) : AfterSteps(c, s) # {}) <=>
           /\ MandosToCheckAccount(l, d) # {}
           /\ IF AddressBytes[l] \in DOMAIN c.accounts THEN Agrees(c.accounts[AddressBytes[l]], d)
              ELSE ~ComparesSomething(d)
<1> DEFINE a == AddressBytes[l]
           C == MandosToCheckAccount(l, d)
           Decided == IF a \in DOMAIN c.accounts THEN Agrees(c.accounts[a], d)
                      ELSE ~ComparesSomething(d)
<1>1. Holding(c, c.accounts)
  BY DEF Holding, IsConfig
<1>2. ASSUME NEW s \in C, AfterSteps(c, s) # {} PROVE Decided
  <2>1. OnlyOps(s, CheckingOps)
    BY CheckAccountOnly
  <2>2. Passed(c.accounts, s)
    BY <1>1, <1>2, <2>1, ChecksPassed DEF Passed
  <2>3. Agrees(c.accounts[a], d) /\ (ComparesSomething(d) => a \in DOMAIN c.accounts)
    BY <2>2, ChecksAgree
  <2> QED  BY <2>3
<1>3. ASSUME C # {}, Decided PROVE \E s \in C : AfterSteps(c, s) # {}
  <2> DEFINE r == CheckLists(a, d)
  <2>1. \A i \in 1..6 : r[i] # {} /\ Lists(r[i])
    BY <1>3, ListsOfChecks
  <2>2. ASSUME NEW i \in 1..5, NEW x, From(x, r[i]) PROVE StepResults(c, x) = {c}
    <3>1. Compares(x, a, d)
      BY <2>2, ChecksCompare
    <3>2. a \in DOMAIN c.accounts /\ Agrees(c.accounts[a], d)
      BY <1>3, <3>1, ComparesIs
    <3> QED  BY <3>1, <3>2, AgreedPasses
  <2>3. a \notin c.checked
    OBVIOUS
  <2> HIDE DEF r, C, Decided
  <2>4. \A i \in 1..5 : \A x : From(x, r[i]) => StepResults(c, x) = {c}
    BY <2>2
  <2>5. \E t \in MandosToCheckAccount(l, d) : IsList(t) /\ AfterSteps(c, t) # {}
    BY <2>1, <2>3, <2>4, ChecksRun DEF r
  <2> QED  BY <2>5 DEF C
<1> HIDE DEF C, Decided
<1>4. (\E s \in C : AfterSteps(c, s) # {}) <=> C # {} /\ Decided
  BY <1>2, <1>3
<1> QED  BY <1>4 DEF C, Decided

(* A checkState step that can be translated accepts an account exactly if    *)
(* what it describes of the nonce, the balance, the storage, the code and    *)
(* the balances and roles of tokens agrees with the account, and looks at    *)
(* nothing else: for every state that a run of any scenario files reaches    *)
(* and every description. No field of these is skipped or compared with the  *)
(* value of another account, and none of the others is compared at all       *)
(* (scenario.py:404-442, mandos.md:390-550).                                 *)
THEOREM ChecksDecide == Spec => []ChecksAreExact
<1>1. Inv => ChecksAreExact
  <2> SUFFICES ASSUME Inv, NEW l \in DOMAIN AddressBytes, NEW d \in Descriptions
               PROVE  Passes(config, MandosToCheckAccount(l, d)) <=>
                        /\ MandosToCheckAccount(l, d) # {}
                        /\ IF IsAccount(config, AddressBytes[l])
                           THEN Agrees(config.accounts[AddressBytes[l]], d)
                           ELSE ~ComparesSomething(d)
    BY DEF ChecksAreExact
  <2> DEFINE c == Unchecked(config)
  <2>1. IsConfig(c) /\ c.checked = {} /\ c.accounts = config.accounts
    <3>1. IsConfig(config)
      BY DEF Inv, ConfigInv
    <3> QED  BY <3>1 DEF Unchecked, IsConfig, ConfigFields
  <2>2. Compared(d, "esdt") => IsTokens(d.esdt)
    BY DescriptionsAssumption
  <2> HIDE DEF c
  <2>3. (\E s \in MandosToCheckAccount(l, d) : AfterSteps(c, s) # {}) <=>
          /\ MandosToCheckAccount(l, d) # {}
          /\ IF AddressBytes[l] \in DOMAIN c.accounts
             THEN Agrees(c.accounts[AddressBytes[l]], d)
             ELSE ~ComparesSomething(d)
    BY <2>1, <2>2, ChecksAreDecided
  <2> QED  BY <2>1, <2>3 DEF Passes, IsAccount, c
<1> QED  BY <1>1, ScenarioInvariant, PTL
===============================================================================
