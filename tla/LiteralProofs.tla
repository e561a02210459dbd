---------------------------- MODULE LiteralProofs ----------------------------
(***************************************************************************)
(* Proofs of what the encodings of literals promise, for numbers of any    *)
(* size and lists of any length.  Functions on numbers and lists are       *)
(* defined by recursion: each has a lemma that says what it is for 0 or    *)
(* the empty list and how it goes on; all else is a smallest               *)
(* counterexample.                                                         *)
(***************************************************************************)
EXTENDS LiteralProperties, Sums, SequenceTheorems

(* -------------------------------- Recursion ------------------------------ *)

(* f is 0 |-> b and n |-> G of n and of the value for a smaller number.      *)
Recurs(G, P, b, D, f) == f = [n \in D |-> IF n = 0 THEN b ELSE G[<<n, f[P[n]]>>]]

Decreases(P) == P \in [Nat -> Nat] /\ \A n \in Nat : n # 0 => P[n] < n

UpToRecurs(G, P, b, k, f) == Recurs(G, P, b, 0..k, f)

LEMMA RecursBelow ==
  ASSUME NEW G, NEW P, Decreases(P), NEW b,
         NEW k \in Nat
  PROVE  \E f : Recurs(G, P, b, 0..k, f)
<1> DEFINE Missing == {m \in Nat : ~ \E f : Recurs(G, P, b, 0..m, f)}
<1> SUFFICES ASSUME Missing # {} PROVE FALSE
  OBVIOUS
<1>1. PICK m \in Missing : \A j \in Missing : m <= j
  <2>1. Missing \in SUBSET Nat
    OBVIOUS
  <2> HIDE DEF Missing
  <2> QED  BY <2>1, LeastNat
<1>2. CASE m = 0
  <2>1. 0..0 = {0}
    OBVIOUS
  <2>2. Recurs(G, P, b, 0..0, [n \in 0..0 |-> b])
    BY <2>1 DEF Recurs
  <2> QED  BY <1>1, <1>2, <2>2
<1>3. CASE m # 0
  <2>1. m - 1 \in Nat /\ m - 1 \notin Missing
    BY <1>1, <1>3
  <2>2. PICK g : Recurs(G, P, b, 0..(m - 1), g)
    BY <2>1
  <2> DEFINE h == [n \in 0..m |-> IF n = 0 THEN b ELSE G[<<n, g[P[n]]>>]]
  <2>3. \A n \in 0..m : n # 0 => P[n] \in 0..(m - 1) /\ P[n] \in 0..m
    BY <1>1 DEF Decreases
  <2>4. \A n \in 0..(m - 1) : n \in 0..m
    BY <1>1
  <2>5. \A n \in 0..(m - 1) : h[n] = g[n]
    BY <2>2, <2>4 DEF Recurs
  <2>6. \A n \in 0..m : n # 0 => g[P[n]] = h[P[n]]
    BY <2>3, <2>5
  <2>7. Recurs(G, P, b, 0..m, h)
    BY <2>6 DEF Recurs
  <2> QED  BY <1>1, <2>7
<1> QED  BY <1>2, <1>3

LEMMA RecursAlike ==
  ASSUME NEW G, NEW P, Decreases(P), NEW b,
         NEW k \in Nat, NEW f, UpToRecurs(G, P, b, k, f),
         NEW l \in Nat, NEW g, UpToRecurs(G, P, b, l, g),
         NEW i, i \in 0..k, i \in 0..l
  PROVE  f[i] = g[i]
<1> DEFINE Bad == {n \in 0..k : n \in 0..l /\ f[n] # g[n]}
<1> SUFFICES ASSUME Bad # {} PROVE FALSE
  OBVIOUS
<1>1. PICK n \in Bad : \A j \in Bad : n <= j
  <2>1. Bad \in SUBSET Nat
    OBVIOUS
  <2> HIDE DEF Bad
  <2> QED  BY <2>1, LeastNat
<1>2. /\ f[n] = IF n = 0 THEN b ELSE G[<<n, f[P[n]]>>]
      /\ g[n] = IF n = 0 THEN b ELSE G[<<n, g[P[n]]>>]
  BY <1>1 DEF UpToRecurs, Recurs
<1>3. n # 0
  BY <1>1, <1>2
<1>4. P[n] \in 0..k /\ P[n] \in 0..l /\ P[n] \notin Bad
  <2>0. n \in Nat /\ n \in 0..k /\ n \in 0..l
    BY <1>1
  <2>1. PICK p \in Nat : p = P[n] /\ p < n
    BY <1>3, <2>0 DEF Decreases
  <2>2. p \notin Bad
    BY <1>1, <2>0, <2>1
  <2>3. p \in 0..k /\ p \in 0..l
    <3> HIDE DEF Bad
    <3> QED  BY <2>0, <2>1
  <2> QED  BY <2>1, <2>2, <2>3
<1>5. f[P[n]] = g[P[n]]
  BY <1>4
<1> QED  BY <1>1, <1>2, <1>3, <1>5

LEMMA RecursExists ==
  ASSUME NEW G, NEW P, Decreases(P), NEW b
  PROVE  \E f : Recurs(G, P, b, Nat, f)
<1> DEFINE At(k) == CHOOSE f : Recurs(G, P, b, 0..k, f)
           h == [n \in Nat |-> At(n)[n]]
<1>1. \A k \in Nat : Recurs(G, P, b, 0..k, At(k))
  BY RecursBelow
<1> HIDE DEF At
<1>2. ASSUME NEW n \in Nat PROVE h[n] = IF n = 0 THEN b ELSE G[<<n, h[P[n]]>>]
  <2>1. At(n)[n] = IF n = 0 THEN b ELSE G[<<n, At(n)[P[n]]>>]
    <3>1. Recurs(G, P, b, 0..n, At(n))
      BY <1>1
    <3>2. n \in 0..n
      OBVIOUS
    <3> QED  BY <3>1, <3>2 DEF Recurs
  <2>2. CASE n = 0
    BY <2>1, <2>2
  <2>3. CASE n # 0
    <3>1. PICK p \in Nat : p = P[n] /\ p < n
      BY <2>3 DEF Decreases
    <3>2. p \in 0..n /\ p \in 0..p
      BY <3>1
    <3>3. Recurs(G, P, b, 0..n, At(n)) /\ Recurs(G, P, b, 0..p, At(p))
      BY <1>1
    <3>4. PICK f, g : f = At(n) /\ g = At(p)
      OBVIOUS
    <3>5. At(n)[p] = At(p)[p]
      <4>1. UpToRecurs(G, P, b, n, f) /\ UpToRecurs(G, P, b, p, g)
        BY <3>3, <3>4 DEF UpToRecurs
      <4>2. f[p] = g[p]
        BY <3>1, <3>2, <4>1, RecursAlike
      <4> QED  BY <3>4, <4>2
    <3> QED  BY <2>1, <2>3, <3>1, <3>5
  <2> QED  BY <2>2, <2>3
<1>3. Recurs(G, P, b, Nat, h)
  BY <1>2 DEF Recurs
<1> QED  BY <1>3

LEMMA RecursIn ==
  ASSUME NEW G, NEW P, Decreases(P), NEW b, NEW f, Recurs(G, P, b, Nat, f),
         NEW S, b \in S, \A n \in Nat, x \in S : G[<<n, x>>] \in S
  PROVE  \A n \in Nat : f[n] \in S
<1> DEFINE Bad == {n \in Nat : f[n] \notin S}
<1> SUFFICES ASSUME Bad # {} PROVE FALSE
  OBVIOUS
<1>1. PICK n \in Bad : \A j \in Bad : n <= j
  <2>1. Bad \in SUBSET Nat
    OBVIOUS
  <2> HIDE DEF Bad
  <2> QED  BY <2>1, LeastNat
<1>2. f[n] = IF n = 0 THEN b ELSE G[<<n, f[P[n]]>>]
  BY <1>1 DEF Recurs
<1>3. n # 0 /\ n \in Nat
  BY <1>1, <1>2
<1>4. PICK p \in Nat : p = P[n] /\ p < n
  BY <1>3 DEF Decreases
<1>5. p \notin Bad
  BY <1>1, <1>3, <1>4
<1> QED  BY <1>1, <1>2, <1>3, <1>4, <1>5

(* ------------------------------- Bit lengths ----------------------------- *)

Halves == [n \in Nat |-> n \div 2]
LEMMA HalvesDecrease == Decreases(Halves)
BY DEF Halves, Decreases

IsBitLength(f) == f = [n \in Nat |-> IF n = 0 THEN 0 ELSE 1 + f[n \div 2]]

LEMMA BitLengthChosen == IsBitLength(BitLength)
<1> DEFINE G == [p \in Nat \X Nat |-> 1 + p[2]]
<1>1. PICK f : Recurs(G, Halves, 0, Nat, f)
  BY HalvesDecrease, RecursExists
<1>2. \A n, x \in Nat : G[<<n, x>>] = 1 + x
  OBVIOUS
<1> HIDE DEF G
<1>3. \A n \in Nat : f[n] \in Nat
  <2>1. ASSUME NEW n \in Nat, NEW x \in Nat PROVE G[<<n, x>>] \in Nat
    <3>1. G[<<n, x>>] = 1 + x
      BY <1>2
    <3> QED  BY <3>1
  <2> QED  BY <1>1, <2>1, HalvesDecrease, RecursIn
<1>4. ASSUME NEW n \in Nat PROVE f[n] = IF n = 0 THEN 0 ELSE 1 + f[n \div 2]
  <2>1. f[n] = IF n = 0 THEN 0 ELSE G[<<n, f[Halves[n]]>>]
    BY <1>1 DEF Recurs
  <2>2. Halves[n] = n \div 2 /\ n \div 2 \in Nat
    BY DEF Halves
  <2> QED  BY <1>2, <1>3, <2>1, <2>2
<1>5. DOMAIN f = Nat /\ f = [n \in Nat |-> f[n]]
  BY <1>1 DEF Recurs
<1>6. IsBitLength(f)
  BY <1>4, <1>5 DEF IsBitLength
<1>7. BitLength = CHOOSE g : IsBitLength(g)
  BY DEF BitLength, IsBitLength
<1> QED  BY <1>6, <1>7

LEMMA BitLengthIs ==
  \A n \in Nat : /\ BitLength[n] \in Nat
                 /\ BitLength[n] = IF n = 0 THEN 0 ELSE 1 + BitLength[n \div 2]
<1>1. \A n \in Nat : BitLength[n] = IF n = 0 THEN 0 ELSE 1 + BitLength[n \div 2]
  <2> DEFINE f == BitLength
  <2>1. IsBitLength(f)
    BY BitLengthChosen
  <2> HIDE DEF f
  <2>2. \A n \in Nat : f[n] = IF n = 0 THEN 0 ELSE 1 + f[n \div 2]
    BY <2>1 DEF IsBitLength
  <2> QED  BY <2>2 DEF f
<1> DEFINE Bad == {n \in Nat : BitLength[n] \notin Nat}
<1>2. Bad = {}
  <2> SUFFICES ASSUME Bad # {} PROVE FALSE
    OBVIOUS
  <2>1. PICK n \in Bad : \A j \in Bad : n <= j
    <3>1. Bad \in SUBSET Nat
      OBVIOUS
    <3> HIDE DEF Bad
    <3> QED  BY <3>1, LeastNat
  <2>2. n # 0 /\ n \in Nat
    BY <1>1, <2>1
  <2>3. n \div 2 \in Nat /\ n \div 2 < n
    BY <2>2
  <2>4. BitLength[n \div 2] \in Nat
    BY <2>1, <2>2, <2>3
  <2> QED  BY <1>1, <2>1, <2>2, <2>4
<1> QED  BY <1>1, <1>2

(* A number loses one bit when it is halved, and eight with a byte.          *)
Bits(n, k) == IF BitLength[n] <= k THEN 0 ELSE BitLength[n] - k

LEMMA BitLengthZero == \A n \in Nat : BitLength[n] \in Nat /\ (BitLength[n] = 0 <=> n = 0)
BY BitLengthIs

LEMMA BitsOfBits ==
  ASSUME NEW a \in Nat, NEW b \in Nat, NEW c \in Nat, NEW j \in Nat, NEW k \in Nat,
         BitLength[b] = Bits(a, j), BitLength[c] = Bits(b, k)
  PROVE  BitLength[c] = Bits(a, j + k)
<1>1. PICK x \in Nat, y \in Nat, z \in Nat :
        x = BitLength[a] /\ y = BitLength[b] /\ z = BitLength[c]
  BY BitLengthZero
<1>2. y = (IF x <= j THEN 0 ELSE x - j) /\ z = (IF y <= k THEN 0 ELSE y - k)
  BY <1>1 DEF Bits
<1>3. z = IF x <= j + k THEN 0 ELSE x - (j + k)
  BY <1>2
<1> QED  BY <1>1, <1>3 DEF Bits

LEMMA BitLengthHalf ==
  ASSUME NEW n \in Nat
  PROVE  n \div 2 \in Nat /\ BitLength[n \div 2] = Bits(n, 1)
<1>1. PICK x \in Nat : x = n \div 2
  OBVIOUS
<1>2. PICK a \in Nat, b \in Nat : a = BitLength[n] /\ b = BitLength[x]
  BY BitLengthZero
<1>3. a = (IF n = 0 THEN 0 ELSE 1 + b) /\ (n = 0 => x = 0) /\ (x = 0 => b = 0)
  BY <1>1, <1>2, BitLengthIs, BitLengthZero
<1> QED  BY <1>1, <1>2, <1>3 DEF Bits

LEMMA BitLengthBytes ==
  ASSUME NEW n \in Nat
  PROVE  /\ n \div 256 \in Nat /\ BitLength[n \div 256] = Bits(n, 8)
         /\ n < 128 <=> BitLength[n] <= 7
         /\ n < 256 <=> BitLength[n] <= 8
<1>1. ASSUME NEW x \in Nat
      PROVE  x \div 4 \in Nat /\ BitLength[x \div 4] = Bits(x, 2)
  <2>1. PICK y \in Nat : y = x \div 2
    OBVIOUS
  <2>2. PICK z \in Nat : z = y \div 2
    BY <2>1
  <2>3. BitLength[y] = Bits(x, 1) /\ BitLength[z] = Bits(y, 1)
    BY <2>1, <2>2, BitLengthHalf
  <2>4. BitLength[z] = Bits(x, 1 + 1)
    BY <2>3, BitsOfBits
  <2>5. x \div 4 = z
    BY <2>1, <2>2
  <2> QED  BY <2>4, <2>5
<1>2. PICK a \in Nat : a = n \div 4
  OBVIOUS
<1>3. PICK b \in Nat : b = a \div 4
  BY <1>2
<1>4. PICK c \in Nat : c = b \div 4
  BY <1>3
<1>5. PICK d \in Nat : d = c \div 2
  BY <1>4
<1>6. PICK e \in Nat : e = d \div 2
  BY <1>5
<1>7. /\ BitLength[a] = Bits(n, 2) /\ BitLength[b] = Bits(a, 2) /\ BitLength[c] = Bits(b, 2)
      /\ BitLength[d] = Bits(c, 1) /\ BitLength[e] = Bits(d, 1)
  BY <1>1, <1>2, <1>3, <1>4, <1>5, <1>6, BitLengthHalf
<1>8. BitLength[b] = Bits(n, 2 + 2)
  BY <1>7, BitsOfBits
<1>9. BitLength[c] = Bits(n, 4 + 2)
  BY <1>7, <1>8, BitsOfBits
<1>10. BitLength[d] = Bits(n, 6 + 1)
  BY <1>7, <1>9, BitsOfBits
<1>11. BitLength[e] = Bits(n, 7 + 1)
  BY <1>7, <1>10, BitsOfBits
<1>12. b = n \div 16 /\ c = n \div 64
  BY <1>2, <1>3, <1>4
<1>13. d = n \div 128 /\ e = n \div 256
  BY <1>12, <1>5, <1>6
<1>14. (n < 128 <=> d = 0) /\ (n < 256 <=> e = 0)
  BY <1>13
<1> QED  BY <1>10, <1>11, <1>13, <1>14, BitLengthZero DEF Bits

(* ------------------------------ Bytes of numbers ------------------------- *)

Before == [i \in Nat |-> IF i = 0 THEN 0 ELSE i - 1]
LEMMA BeforeDecreases == Decreases(Before)
BY DEF Before, Decreases

IsShifted(n, f) == f = [i \in Nat |-> IF i = 0 THEN n ELSE f[i - 1] \div 256]

LEMMA ShiftedChosen == ASSUME NEW n \in Int PROVE IsShifted(n, Shifted(n))
<1> DEFINE G == [p \in Nat \X Int |-> p[2] \div 256]
<1>1. PICK f : Recurs(G, Before, n, Nat, f)
  BY BeforeDecreases, RecursExists
<1>2. \A i \in Nat, x \in Int : G[<<i, x>>] = x \div 256
  OBVIOUS
<1> HIDE DEF G
<1>3. \A i \in Nat : f[i] \in Int
  <2>1. ASSUME NEW i \in Nat, NEW x \in Int PROVE G[<<i, x>>] \in Int
    <3>1. G[<<i, x>>] = x \div 256
      BY <1>2
    <3> QED  BY <3>1
  <2> QED  BY <1>1, <2>1, BeforeDecreases, RecursIn
<1>4. ASSUME NEW i \in Nat PROVE f[i] = IF i = 0 THEN n ELSE f[i - 1] \div 256
  <2>1. f[i] = IF i = 0 THEN n ELSE G[<<i, f[Before[i]]>>]
    BY <1>1 DEF Recurs
  <2>2. CASE i # 0
    <3>1. Before[i] = i - 1 /\ i - 1 \in Nat
      BY <2>2 DEF Before
    <3> QED  BY <1>2, <1>3, <2>1, <2>2, <3>1
  <2> QED  BY <2>1, <2>2
<1>5. DOMAIN f = Nat /\ f = [i \in Nat |-> f[i]]
  BY <1>1 DEF Recurs
<1>6. IsShifted(n, f)
  BY <1>4, <1>5 DEF IsShifted
<1>7. Shifted(n) = CHOOSE g : IsShifted(n, g)
  BY DEF Shifted, IsShifted
<1> QED  BY <1>6, <1>7

LEMMA ShiftedIs ==
  ASSUME NEW n \in Int
  PROVE  /\ Shifted(n)[0] = n
         /\ \A i \in Nat : /\ Shifted(n)[i] \in Int
                           /\ Shifted(n)[i + 1] = Shifted(n)[i] \div 256
<1> DEFINE f == Shifted(n)
<1>1. IsShifted(n, f)
  BY ShiftedChosen
<1> HIDE DEF f
<1>2. \A i \in Nat : f[i] = IF i = 0 THEN n ELSE f[i - 1] \div 256
  BY <1>1 DEF IsShifted
<1>3. \A i \in Nat : f[i + 1] = f[i] \div 256
  <2> SUFFICES ASSUME NEW i \in Nat PROVE f[i + 1] = f[i] \div 256
    OBVIOUS
  <2>1. i + 1 \in Nat /\ i + 1 # 0 /\ (i + 1) - 1 = i
    OBVIOUS
  <2> QED  BY <1>2, <2>1
<1> DEFINE Bad == {i \in Nat : f[i] \notin Int}
<1>4. Bad = {}
  <2> SUFFICES ASSUME Bad # {} PROVE FALSE
    OBVIOUS
  <2>1. PICK i \in Bad : \A j \in Bad : i <= j
    <3>1. Bad \in SUBSET Nat
      OBVIOUS
    <3> HIDE DEF Bad
    <3> QED  BY <3>1, LeastNat
  <2>2. i \in Nat /\ i # 0 /\ i - 1 \in Nat
    BY <1>2, <2>1
  <2>3. f[i - 1] \in Int
    BY <2>1, <2>2
  <2> QED  BY <1>2, <2>1, <2>2, <2>3
<1>5. f[0] = n
  BY <1>2
<1> QED  BY <1>3, <1>4, <1>5 DEF f

(* What is left of a natural number has eight bits less for every byte.      *)
LEMMA ShiftedBits ==
  ASSUME NEW n \in Nat
  PROVE  \A i \in Nat : Shifted(n)[i] \in Nat /\ BitLength[Shifted(n)[i]] = Bits(n, 8 * i)
<1> DEFINE f == Shifted(n)
           Bad == {i \in Nat : ~ (f[i] \in Nat /\ BitLength[f[i]] = Bits(n, 8 * i))}
<1>1. f[0] = n /\ \A i \in Nat : f[i + 1] = f[i] \div 256
  BY ShiftedIs
<1> HIDE DEF f
<1> SUFFICES ASSUME Bad # {} PROVE FALSE
  BY DEF f
<1>2. PICK i \in Bad : \A j \in Bad : i <= j
  <2>1. Bad \in SUBSET Nat
    OBVIOUS
  <2> HIDE DEF Bad
  <2> QED  BY <2>1, LeastNat
<1>3. i # 0
  <2>1. Bits(n, 8 * 0) = BitLength[n]
    BY BitLengthZero DEF Bits
  <2> QED  BY <1>1, <1>2, <2>1
<1>4. PICK m \in Nat : i = m + 1
  <2>1. i - 1 \in Nat /\ i = (i - 1) + 1
    BY <1>2, <1>3
  <2> QED  BY <2>1
<1>5. f[m] \in Nat /\ BitLength[f[m]] = Bits(n, 8 * m)
  BY <1>2, <1>4
<1>6. PICK x \in Nat : x = f[m]
  BY <1>5
<1>7. f[i] = x \div 256 /\ x \div 256 \in Nat /\ BitLength[x \div 256] = Bits(x, 8)
  BY <1>1, <1>4, <1>6, BitLengthBytes
<1>8. BitLength[x \div 256] = Bits(n, 8 * m + 8)
  <2>1. PICK k \in Nat, y \in Nat : k = 8 * m /\ y = x \div 256
    BY <1>7
  <2>2. BitLength[x] = Bits(n, k) /\ BitLength[y] = Bits(x, 8)
    BY <1>5, <1>6, <1>7, <2>1
  <2>3. BitLength[y] = Bits(n, k + 8)
    BY <2>1, <2>2, BitsOfBits
  <2> QED  BY <2>1, <2>3
<1>9. 8 * i = 8 * m + 8
  BY <1>4
<1> QED  BY <1>2, <1>7, <1>8, <1>9

(* Two's complement: -1 - n is what n is with all bits inverted.             *)
LEMMA ShiftedComplement ==
  ASSUME NEW n \in Int
  PROVE  \A i \in Nat : Shifted(n)[i] = -1 - Shifted(-1 - n)[i]
<1> DEFINE f == Shifted(n)
           g == Shifted(-1 - n)
           Bad == {i \in Nat : f[i] # -1 - g[i]}
<1>1. f[0] = n /\ \A i \in Nat : f[i] \in Int /\ f[i + 1] = f[i] \div 256
  BY ShiftedIs
<1>2. g[0] = -1 - n /\ \A i \in Nat : g[i] \in Int /\ g[i + 1] = g[i] \div 256
  <2>1. PICK m \in Int : m = -1 - n
    OBVIOUS
  <2> QED  BY <2>1, ShiftedIs
<1> HIDE DEF f, g
<1> SUFFICES ASSUME Bad # {} PROVE FALSE
  BY DEF f, g
<1>3. PICK i \in Bad : \A j \in Bad : i <= j
  <2>1. Bad \in SUBSET Nat
    OBVIOUS
  <2> HIDE DEF Bad
  <2> QED  BY <2>1, LeastNat
<1>4. i # 0
  BY <1>1, <1>2, <1>3
<1>5. PICK m \in Nat : i = m + 1
  <2>1. i - 1 \in Nat /\ i = (i - 1) + 1
    BY <1>3, <1>4
  <2> QED  BY <2>1
<1>6. f[m] = -1 - g[m]
  BY <1>3, <1>5
<1>7. PICK x \in Int : x = g[m]
  BY <1>2
<1>8. (-1 - x) \div 256 = -1 - (x \div 256)
  OBVIOUS
<1>9. f[i] = (-1 - x) \div 256 /\ g[i] = x \div 256
  BY <1>1, <1>2, <1>5, <1>6, <1>7
<1> QED  BY <1>3, <1>8, <1>9

LEMMA ToBytesType ==
  ASSUME NEW n \in Int, NEW length \in Nat
  PROVE  /\ ToBytes(n, length) \in Seq(Byte) /\ Len(ToBytes(n, length)) = length
         /\ \A i \in 1..length : ToBytes(n, length)[i] = Shifted(n)[length - i] % 256
<1> DEFINE b == ToBytes(n, length)
<1>1. \A i \in 1..length : b[i] = Shifted(n)[length - i] % 256
  BY DEF ToBytes
<1>2. b \in [1..length -> Byte]
  <2>1. ASSUME NEW i \in 1..length PROVE Shifted(n)[length - i] % 256 \in Byte
    <3>1. PICK j \in Nat : j = length - i
      OBVIOUS
    <3>2. PICK x \in Int : x = Shifted(n)[j]
      BY ShiftedIs
    <3>3. x % 256 \in 0..255
      OBVIOUS
    <3> QED  BY <3>1, <3>2, <3>3 DEF Byte
  <2> QED  BY <2>1 DEF ToBytes
<1> HIDE DEF b
<1>3. b \in Seq(Byte) /\ Len(b) = length
  BY <1>2, SeqDef, LenProperties
<1> QED  BY <1>1, <1>3 DEF b

(* --------------------------------- Folds --------------------------------- *)

(* A fold over a list of n elements takes the set of its indices apart, the  *)
(* largest first: G goes on with the value so far and the next index.        *)
FoldStep(G, b, g, s) == IF s = {} THEN b ELSE G[<<g[s \ {Max(s)}], Max(s)>>]
FoldsUp(G, b, D, g) == g = [s \in D |-> FoldStep(G, b, g, s)]

LEMMA MaxIn ==
  ASSUME NEW n \in Nat, NEW s \in SUBSET (1..n), s # {}
  PROVE  Max(s) \in s /\ \A y \in s : Max(s) >= y
<1> DEFINE T == {m \in Nat : \E x \in s : m = n - x}
<1>0. \A x \in s : n - x \in Nat
  OBVIOUS
<1>1. T \in SUBSET Nat /\ T # {}
  <2>1. PICK x : x \in s
    OBVIOUS
  <2>2. n - x \in T
    BY <1>0, <2>1
  <2> QED  BY <2>2
<1>2. PICK m \in T : \A y \in T : m <= y
  <2> HIDE DEF T
  <2> QED  BY <1>1, LeastNat
<1>3. PICK x \in s : m = n - x
  OBVIOUS
<1>4. \A y \in s : x >= y
  <2> SUFFICES ASSUME NEW y \in s PROVE x >= y
    OBVIOUS
  <2>1. n - y \in T
    BY <1>0
  <2>2. n - x <= n - y
    BY <1>2, <1>3, <2>1
  <2> QED  BY <2>2
<1> QED  BY <1>3, <1>4 DEF Max

LEMMA MaxUpTo ==
  ASSUME NEW n \in Nat, NEW i \in 1..n
  PROVE  /\ 1..i \in SUBSET (1..n) /\ 1..i # {} /\ Max(1..i) = i
         /\ (1..i) \ {i} = 1..(i - 1) /\ 1..(i - 1) \in SUBSET (1..n)
<1>1. i \in Nat /\ i <= n /\ 1 <= i
  OBVIOUS
<1>2. 1..i \in SUBSET (1..n) /\ 1..i # {}
  <2>1. i \in 1..i /\ \A j \in 1..i : j \in 1..n
    BY <1>1
  <2> QED  BY <2>1
<1>3. Max(1..i) = i
  <2>1. Max(1..i) \in 1..i /\ \A y \in 1..i : Max(1..i) >= y
    BY <1>2, MaxIn
  <2> QED  BY <1>1, <2>1
<1>4. (1..i) \ {i} = 1..(i - 1)
  BY <1>1
<1> QED  BY <1>2, <1>3, <1>4

LEMMA FoldExists ==
  ASSUME NEW n \in Nat, NEW G, NEW b
  PROVE  \E g : FoldsUp(G, b, SUBSET (1..n), g)
<1> DEFINE S == 1..n
           Missing == {m \in Nat : ~ \E g : FoldsUp(G, b, UpTo(S, m), g)}
<1>0. IsFiniteSet(S) /\ Cardinality(S) = n
  BY FS_Interval
<1>1. \A s \in SUBSET S : IsFiniteSet(s) /\ Cardinality(s) \in Nat
  BY <1>0, FS_Subset, FS_CardinalityType
<1>11. \A s \in SUBSET S : s # {} => Max(s) \in s
  BY MaxIn
<1> HIDE DEF S
<1>2. Missing = {}
  <2> SUFFICES ASSUME Missing # {} PROVE FALSE
    OBVIOUS
  <2>1. PICK m \in Missing : \A k1 \in Missing : m <= k1
    <3>1. Missing \in SUBSET Nat
      OBVIOUS
    <3> HIDE DEF Missing
    <3> QED  BY <3>1, LeastNat
  <2>2. CASE m = 0
    <3>1. \A s \in UpTo(S, 0) : s = {}
      BY <1>1, FS_EmptySet DEF UpTo
    <3>2. FoldsUp(G, b, UpTo(S, 0), [s \in UpTo(S, 0) |-> b])
      BY <3>1 DEF FoldsUp, FoldStep
    <3> QED  BY <3>2, <2>2
  <2>3. CASE m # 0
    <3>1. m - 1 \in Nat /\ m - 1 \notin Missing
      BY <2>3, <2>1
    <3>2. PICK g : FoldsUp(G, b, UpTo(S, m - 1), g)
      BY <3>1
    <3> DEFINE h == [s \in UpTo(S, m) |-> FoldStep(G, b, g, s)]
    <3>3. ASSUME NEW s \in UpTo(S, m), s # {}
          PROVE  /\ s \ {Max(s)} \in UpTo(S, m - 1)
                 /\ s \ {Max(s)} \in UpTo(S, m)
      BY <1>1, <1>11, <3>3, FS_RemoveElement, m \in Nat DEF UpTo
    <3>4. ASSUME NEW s \in UpTo(S, m - 1)
          PROVE  s \in UpTo(S, m) /\ h[s] = g[s]
      <4>1. s \in UpTo(S, m)
        BY <1>1, <3>1, m \in Nat DEF UpTo
      <4>2. g[s] = FoldStep(G, b, g, s)
        BY <3>2, Zenon DEF FoldsUp
      <4> QED  BY <4>1, <4>2, Zenon
    <3>5. ASSUME NEW s \in UpTo(S, m)
          PROVE  FoldStep(G, b, g, s) = FoldStep(G, b, h, s)
      <4>1. CASE s = {}
        BY <4>1 DEF FoldStep
      <4>2. CASE s # {}
        <5>1. g[s \ {Max(s)}] = h[s \ {Max(s)}]
          BY <3>3, <3>4, <4>2, Zenon
        <5> HIDE DEF h
        <5> QED  BY <4>2, <5>1 DEF FoldStep
      <4> QED  BY <4>1, <4>2
    <3>6. FoldsUp(G, b, UpTo(S, m), h)
      BY <3>5, Zenon DEF FoldsUp
    <3> QED  BY <3>6, <2>1
  <2> QED  BY <2>2, <2>3
<1>3. UpTo(S, Cardinality(S)) = SUBSET S
  BY <1>0, FS_Subset DEF UpTo
<1>4. \E g : FoldsUp(G, b, UpTo(S, Cardinality(S)), g)
  BY <1>0, <1>2
<1> QED  BY <1>3, <1>4 DEF S

LEMMA FoldIn ==
  ASSUME NEW n \in Nat, NEW G, NEW b, NEW g, FoldsUp(G, b, SUBSET (1..n), g),
         NEW V, b \in V, \A v \in V, i \in 1..n : G[<<v, i>>] \in V
  PROVE  \A s \in SUBSET (1..n) : g[s] \in V
<1> DEFINE S == 1..n
           Bad == {s \in SUBSET S : g[s] \notin V}
<1>1. IsFiniteSet(S)
  BY FS_Interval
<1>2. \A s \in SUBSET S : s # {} => Max(s) \in s
  BY MaxIn
<1>3. \A v \in V, i \in S : G[<<v, i>>] \in V
  OBVIOUS
<1>4. \A s \in SUBSET S : g[s] = FoldStep(G, b, g, s)
  BY Zenon DEF FoldsUp
<1> HIDE DEF S
<1>5. Bad = {}
  <2> SUFFICES ASSUME Bad # {} PROVE FALSE
    OBVIOUS
  <2>1. PICK s \in Bad : \A r \in Bad : ~ (r \subseteq s /\ r # s)
    <3>1. Bad \in SUBSET (SUBSET S)
      OBVIOUS
    <3> HIDE DEF Bad
    <3> QED  BY <1>1, <3>1, LeastSubset
  <2>2. g[s] = FoldStep(G, b, g, s) /\ s \in SUBSET S
    BY <1>4, <2>1
  <2>3. s # {}
    BY <2>1, <2>2 DEF FoldStep
  <2>4. PICK m : m = Max(s)
    OBVIOUS
  <2>5. m \in s /\ m \in S
    BY <1>2, <2>2, <2>3, <2>4
  <2>6. s \ {m} \in SUBSET S /\ s \ {m} \notin Bad
    BY <2>1, <2>2, <2>5
  <2>7. g[s \ {m}] \in V
    BY <2>6
  <2>8. g[s] = G[<<g[s \ {m}], m>>]
    BY <2>2, <2>3, <2>4 DEF FoldStep
  <2> QED  BY <1>3, <2>1, <2>5, <2>7, <2>8
<1> QED  BY <1>5 DEF S

(* --------------------------- Values of digits ---------------------------- *)

IsValueFold(d, base, g) ==
  g = [s \in SUBSET DOMAIN d |->
         IF s = {} THEN 0 ELSE g[s \ {Max(s)}] * base + d[Max(s)]]

LEMMA ValueChosen ==
  \A d, base : Value(d, base) = (CHOOSE g : IsValueFold(d, base, g))[DOMAIN d]
BY DEF Value, FoldLeft, MapThenFoldSet, IsValueFold

(* v[i] is the value of the first i digits.                                  *)
Horner(d, base, v) ==
  /\ v \in [0..Len(d) -> Int] /\ v[0] = 0
  /\ \A i \in 1..Len(d) : v[i] = v[i - 1] * base + d[i]

LEMMA ValueTrace ==
  ASSUME NEW base \in Int, NEW d \in Seq(Int)
  PROVE  \E v : Horner(d, base, v) /\ Value(d, base) = v[Len(d)]
<1>1. PICK n \in Nat : n = Len(d) /\ DOMAIN d = 1..n /\ \A i \in 1..n : d[i] \in Int
  BY LenProperties
<1> DEFINE G == [p \in Int \X (1..n) |-> p[1] * base + d[p[2]]]
<1>2. \A x \in Int, i \in 1..n : G[<<x, i>>] = x * base + d[i]
  OBVIOUS
<1>3. ASSUME NEW x \in Int, NEW i \in 1..n PROVE G[<<x, i>>] \in Int
  <2>1. PICK y \in Int, z \in Int : y = d[i] /\ z = x * base
    BY <1>1
  <2>2. z + y \in Int
    OBVIOUS
  <2> QED  BY <1>2, <2>1, <2>2
<1> HIDE DEF G
<1>4. \E g : FoldsUp(G, 0, SUBSET (1..n), g)
  BY FoldExists
<1>5. ASSUME NEW g
      PROVE  FoldsUp(G, 0, SUBSET (1..n), g) => IsValueFold(d, base, g)
  <2> SUFFICES ASSUME FoldsUp(G, 0, SUBSET (1..n), g) PROVE IsValueFold(d, base, g)
    OBVIOUS
  <2>0. 0 \in Int /\ \A x \in Int, i \in 1..n : G[<<x, i>>] \in Int
    BY <1>3
  <2>1. \A s \in SUBSET (1..n) : g[s] \in Int
    BY <2>0, FoldIn
  <2>2. ASSUME NEW s \in SUBSET (1..n)
        PROVE  FoldStep(G, 0, g, s)
                 = IF s = {} THEN 0 ELSE g[s \ {Max(s)}] * base + d[Max(s)]
    <3>1. CASE s = {}
      BY <3>1 DEF FoldStep
    <3>2. CASE s # {}
      <4>1. PICK m : m = Max(s) /\ m \in s
        BY <3>2, MaxIn
      <4>2. m \in 1..n /\ s \ {m} \in SUBSET (1..n)
        BY <4>1
      <4>3. PICK x \in Int : x = g[s \ {m}]
        BY <2>1, <4>2
      <4>4. G[<<x, m>>] = x * base + d[m]
        BY <1>2, <4>2
      <4> QED  BY <3>2, <4>1, <4>3, <4>4 DEF FoldStep
    <3> QED  BY <3>1, <3>2
  <2>3. g = [s \in SUBSET (1..n) |-> FoldStep(G, 0, g, s)]
    BY Zenon DEF FoldsUp
  <2>4. g = [s \in SUBSET (1..n) |->
               IF s = {} THEN 0 ELSE g[s \ {Max(s)}] * base + d[Max(s)]]
    BY <2>2, <2>3, Zenon
  <2> QED  BY <1>1, <2>4 DEF IsValueFold
<1>6. ASSUME NEW g, IsValueFold(d, base, g)
      PROVE  \A i \in 1..n : g[1..i] = g[1..(i - 1)] * base + d[i]
  <2>1. \A s \in SUBSET (1..n) :
          g[s] = IF s = {} THEN 0 ELSE g[s \ {Max(s)}] * base + d[Max(s)]
    BY <1>1, <1>6 DEF IsValueFold
  <2> QED  BY <2>1, MaxUpTo
<1> DEFINE g == CHOOSE h : IsValueFold(d, base, h)
           v == [i \in 0..n |-> g[1..i]]
<1>7. IsValueFold(d, base, g)
  BY <1>4, <1>5
<1>8. Value(d, base) = g[1..n]
  BY <1>1, ValueChosen
<1> HIDE DEF g
<1>9. g[1..0] = 0
  <2>1. 1..0 \in SUBSET (1..n) /\ 1..0 = {}
    OBVIOUS
  <2> QED  BY <1>1, <1>7, <2>1 DEF IsValueFold
<1>10. \A i \in 1..n : g[1..i] = g[1..(i - 1)] * base + d[i]
  BY <1>6, <1>7
<1>11. \A i \in 0..n : g[1..i] \in Int
  <2> DEFINE Bad == {i \in Nat : i \in 0..n /\ g[1..i] \notin Int}
  <2> HIDE DEF v
  <2> SUFFICES ASSUME Bad # {} PROVE FALSE
    OBVIOUS
  <2>1. PICK i \in Bad : \A j \in Bad : i <= j
    <3>1. Bad \in SUBSET Nat
      OBVIOUS
    <3> HIDE DEF Bad
    <3> QED  BY <3>1, LeastNat
  <2>2. i # 0
    BY <1>9, <2>1
  <2>3. i \in 1..n /\ i - 1 \in 0..n /\ i - 1 \notin Bad
    BY <2>1, <2>2
  <2>4. PICK x \in Int, y \in Int : x = g[1..(i - 1)] /\ y = d[i]
    BY <1>1, <2>3
  <2>5. x * base + y \in Int
    OBVIOUS
  <2> QED  BY <1>10, <2>1, <2>3, <2>4, <2>5
<1>12. Horner(d, base, v)
  <2>1. v \in [0..n -> Int]
    BY <1>11
  <2>2. v[0] = 0
    BY <1>9
  <2>3. ASSUME NEW i \in 1..n PROVE v[i] = v[i - 1] * base + d[i]
    <3>1. v[i] = g[1..i] /\ v[i - 1] = g[1..(i - 1)]
      OBVIOUS
    <3> HIDE DEF v
    <3> QED  BY <1>10, <3>1
  <2> HIDE DEF v
  <2> QED  BY <1>1, <2>1, <2>2, <2>3 DEF Horner
<1>13. v[n] = g[1..n]
  OBVIOUS
<1> HIDE DEF v
<1> QED  BY <1>1, <1>8, <1>12, <1>13

LEMMA HornerAlike ==
  ASSUME NEW base \in Int, NEW d, NEW v, Horner(d, base, v),
         NEW e, NEW w, Horner(e, base, w),
         NEW k \in Nat, Len(d) \in Nat, Len(e) \in Nat, k <= Len(d), k <= Len(e),
         \A i \in 1..k : d[i] = e[i]
  PROVE  v[k] = w[k]
<1> DEFINE Bad == {i \in Nat : i <= k /\ v[i] # w[i]}
<1> SUFFICES ASSUME Bad # {} PROVE FALSE
  OBVIOUS
<1>1. PICK i \in Bad : \A j \in Bad : i <= j
  <2>1. Bad \in SUBSET Nat
    OBVIOUS
  <2> HIDE DEF Bad
  <2> QED  BY <2>1, LeastNat
<1>2. i # 0
  BY <1>1 DEF Horner
<1>3. PICK m \in Nat : i = m + 1
  <2>1. i - 1 \in Nat /\ i = (i - 1) + 1
    BY <1>1, <1>2
  <2> QED  BY <2>1
<1>4. v[m] = w[m]
  BY <1>1, <1>3
<1>5. i \in 1..k /\ i \in 1..Len(d) /\ i \in 1..Len(e) /\ i - 1 = m
  BY <1>1, <1>3
<1>6. v[i] = v[m] * base + d[i] /\ w[i] = w[m] * base + e[i]
  BY <1>5 DEF Horner
<1> QED  BY <1>1, <1>4, <1>5, <1>6

LEMMA ValueIs ==
  ASSUME NEW base \in Int, NEW d \in Seq(Int), NEW v, Horner(d, base, v)
  PROVE  Value(d, base) = v[Len(d)]
<1>1. PICK w : Horner(d, base, w) /\ Value(d, base) = w[Len(d)]
  BY ValueTrace
<1>2. PICK k \in Nat : k = Len(d)
  BY LenProperties
<1>3. v[k] = w[k]
  BY <1>1, <1>2, HornerAlike
<1> QED  BY <1>1, <1>2, <1>3

LEMMA ValueNat ==
  ASSUME NEW base \in Nat, NEW d \in Seq(Nat)
  PROVE  /\ Value(d, base) \in Nat
         /\ \A v : Horner(d, base, v) => \A i \in 0..Len(d) : v[i] \in Nat
<1>1. PICK n \in Nat : n = Len(d) /\ \A i \in 1..n : d[i] \in Nat
  BY LenProperties
<1>2. base \in Int /\ d \in Seq(Int)
  BY SeqMonotonic
<1>3. ASSUME NEW v, Horner(d, base, v) PROVE \A i \in 0..n : v[i] \in Nat
  <2> DEFINE Bad == {i \in Nat : i \in 0..n /\ v[i] \notin Nat}
  <2> SUFFICES ASSUME Bad # {} PROVE FALSE
    OBVIOUS
  <2>1. PICK i \in Bad : \A j \in Bad : i <= j
    <3>1. Bad \in SUBSET Nat
      OBVIOUS
    <3> HIDE DEF Bad
    <3> QED  BY <3>1, LeastNat
  <2>2. i # 0
    BY <1>3, <2>1 DEF Horner
  <2>3. i \in 1..n /\ i - 1 \in 0..n /\ i - 1 \notin Bad
    BY <2>1, <2>2
  <2>4. PICK x \in Nat, y \in Nat : x = v[i - 1] /\ y = d[i]
    BY <1>1, <2>3
  <2>5. x * base + y \in Nat
    OBVIOUS
  <2>6. v[i] = x * base + y
    BY <1>1, <1>3, <2>3, <2>4 DEF Horner
  <2> QED  BY <2>1, <2>5, <2>6
<1>4. PICK w : Horner(d, base, w) /\ Value(d, base) = w[n]
  BY <1>1, <1>2, ValueTrace
<1>5. n \in 0..n
  OBVIOUS
<1> QED  BY <1>1, <1>3, <1>4, <1>5

(* ------------------------- Reading numbers back -------------------------- *)

LEMMA ByteInt == \A x \in Byte : x \in Int /\ x \in Nat
BY DEF Byte

LEMMA BytesAreInts == \A b \in Seq(Byte) : b \in Seq(Int) /\ b \in Seq(Nat)
<1>1. Byte \subseteq Int /\ Byte \subseteq Nat
  BY DEF Byte
<1> QED  BY <1>1, SeqMonotonic

LEMMA ShiftedEnds ==
  ASSUME NEW n \in Nat, NEW i \in Nat, BitLength[n] <= 8 * i
  PROVE  Shifted(n)[i] = 0
<1>1. PICK x \in Nat : x = Shifted(n)[i] /\ BitLength[x] = Bits(n, 8 * i)
  BY ShiftedBits
<1>2. Bits(n, 8 * i) = 0
  BY DEF Bits
<1> QED  BY <1>1, <1>2, BitLengthZero

LEMMA ShiftedStep ==
  ASSUME NEW n \in Int, NEW length \in Nat, NEW i \in 1..length
  PROVE  /\ Shifted(n)[length - i] \in Int /\ Shifted(n)[length - (i - 1)] \in Int
         /\ ToBytes(n, length)[i] \in Byte
         /\ Shifted(n)[length - i]
              = Shifted(n)[length - (i - 1)] * 256 + ToBytes(n, length)[i]
         /\ ToBytes(n, length)[i] = Shifted(n)[length - i] % 256
<1>1. PICK j \in Nat : j = length - i /\ j + 1 = length - (i - 1)
  <2>1. length - i \in Nat /\ (length - i) + 1 = length - (i - 1)
    OBVIOUS
  <2> QED  BY <2>1
<1>2. PICK x \in Int : x = Shifted(n)[j] /\ Shifted(n)[j + 1] = x \div 256
  BY ShiftedIs
<1>3. ToBytes(n, length)[i] = x % 256
  BY <1>1, <1>2, ToBytesType
<1>4. x % 256 \in 0..255 /\ x = (x \div 256) * 256 + (x % 256) /\ x \div 256 \in Int
  OBVIOUS
<1> QED  BY <1>1, <1>2, <1>3, <1>4 DEF Byte

(* What fits in length bytes is read back from them.                         *)
LEMMA ToBytesUnsigned ==
  ASSUME NEW n \in Nat, NEW length \in Nat, BitLength[n] <= 8 * length
  PROVE  BytesToUint(ToBytes(n, length)) = n
<1> DEFINE b == ToBytes(n, length)
           v == [i \in 0..length |-> Shifted(n)[length - i]]
<1>0. n \in Int
  OBVIOUS
<1>1. b \in Seq(Int) /\ Len(b) = length
  <2>1. b \in Seq(Byte) /\ Len(b) = length
    BY <1>0, ToBytesType
  <2> QED  BY <2>1, BytesAreInts
<1>2. \A i \in Nat : Shifted(n)[i] \in Int
  BY <1>0, ShiftedIs
<1>3. v \in [0..length -> Int]
  <2>1. \A i \in 0..length : length - i \in Nat
    OBVIOUS
  <2> QED  BY <1>2, <2>1
<1>4. v[0] = 0
  <2>1. length - 0 = length /\ 0 \in 0..length
    OBVIOUS
  <2> QED  BY <2>1, ShiftedEnds
<1>5. ASSUME NEW i \in 1..length PROVE v[i] = v[i - 1] * 256 + b[i]
  <2>1. i \in 0..length /\ i - 1 \in 0..length
    OBVIOUS
  <2>2. v[i] = Shifted(n)[length - i] /\ v[i - 1] = Shifted(n)[length - (i - 1)]
    BY <2>1
  <2> HIDE DEF v
  <2> QED  BY <2>2, ShiftedStep
<1>6. v[length] = n
  <2>1. length - length = 0 /\ length \in 0..length
    OBVIOUS
  <2> QED  BY <2>1, ShiftedIs
<1> HIDE DEF v, b
<1>7. Horner(b, 256, v)
  BY <1>1, <1>3, <1>4, <1>5 DEF Horner
<1>8. Value(b, 256) = v[Len(b)]
  BY <1>1, <1>7, ValueIs
<1> QED  BY <1>1, <1>6, <1>8 DEF BytesToUint, b

(* The bytes as a signed reader counts them: c differs in the first one.     *)
Signed(x) == IF x >= 128 THEN x - 256 ELSE x

LEMMA SignedBytes ==
  ASSUME NEW b \in Seq(Byte), Len(b) >= 1
  PROVE  \E c \in Seq(Int) : /\ Len(c) = Len(b) /\ BytesToInt(b) = Value(c, 256)
                             /\ c[1] = Signed(b[1])
                             /\ \A i \in 2..Len(b) : c[i] = b[i]
<1>1. b # <<>> /\ Len(b) \in Nat /\ DOMAIN b = 1..Len(b) /\ b \in Seq(Int)
  BY BytesAreInts, LenProperties
<1>2. 1 \in DOMAIN b /\ b[1] \in Int
  <2>1. 1 \in 1..Len(b)
    BY <1>1
  <2> QED  BY <1>1, <2>1
<1>3. CASE b[1] >= 128
  <2> DEFINE c == [b EXCEPT ![1] = @ - 256]
  <2>1. \A i \in DOMAIN b : c[i] = IF i = 1 THEN b[1] - 256 ELSE b[i]
    OBVIOUS
  <2>2. c \in Seq(Int) /\ Len(c) = Len(b)
    <3>1. b[1] - 256 \in Int
      BY <1>2
    <3> QED  BY <1>1, <1>2, <3>1, ExceptSeq
  <2>3. BytesToInt(b) = Value(c, 256)
    BY <1>1, <1>3 DEF BytesToInt
  <2> HIDE DEF c
  <2>4. c[1] = Signed(b[1])
    BY <1>2, <1>3, <2>1 DEF Signed
  <2>5. \A i \in 2..Len(b) : c[i] = b[i]
    BY <1>1, <2>1
  <2> QED  BY <2>2, <2>3, <2>4, <2>5
<1>4. CASE ~ (b[1] >= 128)
  <2>1. BytesToInt(b) = Value(b, 256)
    BY <1>4 DEF BytesToInt, BytesToUint
  <2>2. b[1] = Signed(b[1])
    BY <1>4 DEF Signed
  <2> QED  BY <1>1, <2>1, <2>2
<1> QED  BY <1>3, <1>4

LEMMA ToBytesSigned ==
  ASSUME NEW n \in Int, NEW length \in Nat, length >= 1,
         -128 <= Shifted(n)[length - 1], Shifted(n)[length - 1] < 128
  PROVE  BytesToInt(ToBytes(n, length)) = n
<1> DEFINE b == ToBytes(n, length)
           v == [i \in 0..length |-> IF i = 0 THEN 0 ELSE Shifted(n)[length - i]]
<1>1. b \in Seq(Byte) /\ Len(b) = length /\ b \in Seq(Int)
  BY ToBytesType, BytesAreInts
<1>2. PICK c \in Seq(Int) : /\ Len(c) = length /\ BytesToInt(b) = Value(c, 256)
                            /\ c[1] = Signed(b[1])
                            /\ \A i \in 2..length : c[i] = b[i]
  <2> HIDE DEF b
  <2> QED  BY <1>1, SignedBytes
<1>3. c[1] = Shifted(n)[length - 1]
  <2>1. PICK x \in Int : x = Shifted(n)[length - 1] /\ b[1] = x % 256
    <3>1. PICK i \in 1..length : i = 1
      OBVIOUS
    <3>2. Shifted(n)[length - i] \in Int /\ b[i] = Shifted(n)[length - i] % 256
      BY ShiftedStep
    <3> QED  BY <3>1, <3>2
  <2>2. Signed(x % 256) = x
    <3>1. -128 <= x /\ x < 128
      BY <2>1
    <3>2. x % 256 = IF x < 0 THEN x + 256 ELSE x
      BY <3>1
    <3> QED  BY <3>1, <3>2 DEF Signed
  <2> QED  BY <1>2, <2>1, <2>2
<1>4. v \in [0..length -> Int]
  <2>1. ASSUME NEW i \in 0..length, i # 0 PROVE Shifted(n)[length - i] \in Int
    BY <2>1, ShiftedStep
  <2> QED  BY <2>1
<1>5. v[0] = 0
  OBVIOUS
<1>6. ASSUME NEW i \in 1..length PROVE v[i] = v[i - 1] * 256 + c[i]
  <2>1. i \in 0..length /\ i - 1 \in 0..length /\ i # 0
    OBVIOUS
  <2>2. v[i] = Shifted(n)[length - i]
    BY <2>1
  <2>3. CASE i = 1
    <3>1. v[i - 1] = 0
      BY <2>3
    <3>2. v[i] \in Int
      BY <1>4, <2>1
    <3> HIDE DEF v
    <3> QED  BY <1>3, <2>2, <2>3, <3>1, <3>2
  <2>4. CASE i # 1
    <3>1. v[i - 1] = Shifted(n)[length - (i - 1)]
      BY <2>1, <2>4
    <3>2. c[i] = b[i]
      BY <1>2, <2>4
    <3> HIDE DEF v
    <3> QED  BY <2>2, <3>1, <3>2, ShiftedStep
  <2> QED  BY <2>3, <2>4
<1>7. v[length] = n
  <2>1. length - length = 0 /\ length \in 0..length /\ length # 0
    OBVIOUS
  <2>2. v[length] = Shifted(n)[length - length]
    BY <2>1
  <2>3. Shifted(n)[0] = n
    BY ShiftedIs
  <2> QED  BY <2>1, <2>2, <2>3
<1> HIDE DEF v, b
<1>8. Horner(c, 256, v)
  BY <1>2, <1>4, <1>5, <1>6 DEF Horner
<1>9. Value(c, 256) = v[Len(c)]
  BY <1>8, ValueIs
<1> QED  BY <1>2, <1>7, <1>9 DEF b

(* What does not fit is not: what is lost in the first byte never returns.   *)
LEMMA ToBytesTooShort ==
  ASSUME NEW n \in Int, NEW length \in Nat, length >= 1,
         ~ (-128 <= Shifted(n)[length - 1] /\ Shifted(n)[length - 1] < 128)
  PROVE  BytesToInt(ToBytes(n, length)) # n
<1> DEFINE b == ToBytes(n, length)
<1>1. b \in Seq(Byte) /\ Len(b) = length /\ b \in Seq(Int)
  BY ToBytesType, BytesAreInts
<1>2. PICK c \in Seq(Int) : /\ Len(c) = length /\ BytesToInt(b) = Value(c, 256)
                            /\ c[1] = Signed(b[1])
                            /\ \A i \in 2..length : c[i] = b[i]
  <2> HIDE DEF b
  <2> QED  BY <1>1, SignedBytes
<1>3. PICK v : Horner(c, 256, v) /\ Value(c, 256) = v[length]
  BY <1>2, ValueTrace
<1>3a. /\ v \in [0..length -> Int] /\ v[0] = 0
       /\ \A i \in 1..length : v[i] = v[i - 1] * 256 + c[i]
  BY <1>2, <1>3 DEF Horner
<1> DEFINE Bad == {i \in Nat : i \in 1..length /\ v[i] = Shifted(n)[length - i]}
<1>4. Bad = {}
  <2> SUFFICES ASSUME Bad # {} PROVE FALSE
    OBVIOUS
  <2>1. PICK i \in Bad : \A j \in Bad : i <= j
    <3>1. Bad \in SUBSET Nat
      OBVIOUS
    <3> HIDE DEF Bad
    <3> QED  BY <3>1, LeastNat
  <2>2. i \in 1..length /\ v[i] = Shifted(n)[length - i] /\ i - 1 \in 0..length
    BY <2>1
  <2>3. CASE i = 1
    <3>1. PICK x \in Int : x = Shifted(n)[length - 1] /\ b[1] = x % 256
      BY <2>2, <2>3, ShiftedStep
    <3>2. v[1] = c[1] /\ c[1] = Signed(x % 256)
      <4>1. c[1] \in Int
        BY <3>1, <1>2 DEF Signed
      <4>2. v[1] = v[0] * 256 + c[1]
        <5>1. i - 1 = 0 /\ v[i] = v[i - 1] * 256 + c[i]
          BY <1>3a, <2>2, <2>3
        <5> QED  BY <2>3, <5>1
      <4> QED  BY <1>2, <1>3a, <3>1, <4>1, <4>2
    <3>3. Signed(x % 256) # x
      BY <3>1 DEF Signed
    <3> QED  BY <2>2, <2>3, <3>1, <3>2, <3>3
  <2>4. CASE i # 1
    <3>1. c[i] = b[i] /\ i - 1 \in 1..length /\ i - 1 \in Nat
      BY <1>2, <2>2, <2>4
    <3>2. PICK x \in Int, y \in Int, d \in Int :
            /\ x = Shifted(n)[length - i] /\ y = Shifted(n)[length - (i - 1)] /\ d = b[i]
            /\ x = y * 256 + d
      <4>1. PICK k \in 1..length : k = i
        BY <2>2
      <4> HIDE DEF Bad
      <4>2. /\ Shifted(n)[length - k] \in Int /\ Shifted(n)[length - (k - 1)] \in Int
            /\ b[k] \in Byte
            /\ Shifted(n)[length - k] = Shifted(n)[length - (k - 1)] * 256 + b[k]
        BY ShiftedStep
      <4> HIDE DEF b
      <4>3. b[k] \in Int
        BY <4>2, ByteInt, Zenon
      <4> QED  BY <4>1, <4>2, <4>3
    <3>3. PICK z \in Int : z = v[i - 1]
      BY <1>3a, <2>2
    <3>4. v[i] = z * 256 + d
      BY <1>3a, <2>2, <3>1, <3>2, <3>3
    <3>5. z = y
      <4>1. z * 256 + d = y * 256 + d
        BY <2>2, <3>2, <3>4
      <4> QED  BY <4>1
    <3>6. i - 1 \in Bad
      BY <3>1, <3>2, <3>3, <3>5
    <3> QED  BY <2>1, <3>1, <3>6
  <2> QED  BY <2>3, <2>4
<1>5. length \in 1..length /\ length - length = 0 /\ length \notin Bad
  BY <1>4
<1>6. v[length] # n
  BY <1>5, ShiftedIs
<1> QED  BY <1>2, <1>3, <1>6 DEF b

(* -------------------------------- Numerals ------------------------------- *)

LEMMA BitLengthNibble ==
  ASSUME NEW n \in Nat
  PROVE  n \div 16 \in Nat /\ BitLength[n \div 16] = Bits(n, 4)
<1>1. PICK a \in Nat : a = n \div 2
  OBVIOUS
<1>2. PICK b \in Nat : b = a \div 2
  BY <1>1
<1>3. PICK c \in Nat : c = b \div 2
  BY <1>2
<1>4. PICK d \in Nat : d = c \div 2
  BY <1>3
<1>5. /\ BitLength[a] = Bits(n, 1) /\ BitLength[b] = Bits(a, 1)
      /\ BitLength[c] = Bits(b, 1) /\ BitLength[d] = Bits(c, 1)
  BY <1>1, <1>2, <1>3, <1>4, BitLengthHalf
<1>6. BitLength[b] = Bits(n, 1 + 1)
  BY <1>5, BitsOfBits
<1>7. BitLength[c] = Bits(n, 2 + 1)
  BY <1>5, <1>6, BitsOfBits
<1>8. BitLength[d] = Bits(n, 3 + 1)
  BY <1>5, <1>7, BitsOfBits
<1>9. b = n \div 4
  BY <1>1, <1>2
<1>10. d = b \div 4
  BY <1>3, <1>4
<1>11. d = n \div 16
  BY <1>9, <1>10
<1> QED  BY <1>8, <1>11

(* Every digit of a base of 2^bits adds that many bits at most.              *)
BitsPerDigit(base, bits) ==
  /\ base \in Nat /\ bits \in Nat
  /\ \A x \in Nat : BitLength[x \div base] = Bits(x, bits)
  /\ \A x, y \in Nat : y < base => (x * base + y) \div base = x

LEMMA HexAndBinary == BitsPerDigit(16, 4) /\ BitsPerDigit(2, 1)
<1>1. ASSUME NEW x \in Nat, NEW y \in Nat
      PROVE  /\ y < 16 => (x * 16 + y) \div 16 = x
             /\ y < 2 => (x * 2 + y) \div 2 = x
  OBVIOUS
<1>2. BitsPerDigit(16, 4)
  BY <1>1, BitLengthNibble DEF BitsPerDigit
<1>3. BitsPerDigit(2, 1)
  BY <1>1, BitLengthHalf DEF BitsPerDigit
<1> QED  BY <1>2, <1>3

LEMMA DigitBits ==
  ASSUME NEW base, NEW bits, BitsPerDigit(base, bits),
         NEW d \in Seq(Nat), \A i \in DOMAIN d : d[i] < base
  PROVE  Value(d, base) \in Nat /\ BitLength[Value(d, base)] <= bits * Len(d)
<1>1. PICK n \in Nat : n = Len(d) /\ DOMAIN d = 1..n /\ \A i \in 1..n : d[i] \in Nat
  BY LenProperties
<1>2. base \in Nat /\ base \in Int /\ bits \in Nat /\ d \in Seq(Int)
  <2>1. Nat \subseteq Int
    OBVIOUS
  <2> QED  BY <2>1, SeqMonotonic DEF BitsPerDigit
<1>3. PICK v : Horner(d, base, v) /\ Value(d, base) = v[n]
  BY <1>1, <1>2, ValueTrace
<1>4. \A i \in 0..n : v[i] \in Nat
  BY <1>1, <1>2, <1>3, ValueNat
<1> DEFINE Bad == {i \in Nat : i \in 0..n /\ ~ (BitLength[v[i]] <= bits * i)}
<1>5. Bad = {}
  <2> SUFFICES ASSUME Bad # {} PROVE FALSE
    OBVIOUS
  <2>1. PICK i \in Bad : \A j \in Bad : i <= j
    <3>1. Bad \in SUBSET Nat
      OBVIOUS
    <3> HIDE DEF Bad
    <3> QED  BY <3>1, LeastNat
  <2>11. i \in Nat /\ i \in 0..n /\ ~ (BitLength[v[i]] <= bits * i)
    BY <2>1
  <2>2. i # 0
    <3>1. v[0] = 0 /\ BitLength[0] = 0 /\ bits * 0 = 0
      BY <1>2, <1>3, BitLengthZero DEF Horner
    <3> QED  BY <2>11, <3>1
  <2>3. PICK m \in Nat : i = m + 1
    <3>1. i - 1 \in Nat /\ i = (i - 1) + 1
      BY <2>2, <2>11
    <3> QED  BY <3>1
  <2>4. m \notin Bad /\ m \in 0..n /\ i \in 1..n /\ i - 1 = m
    BY <2>1, <2>3, <2>11
  <2>41. BitLength[v[m]] <= bits * m
    BY <2>4
  <2> HIDE DEF Bad
  <2>5. PICK x \in Nat, y \in Nat, z \in Nat : x = v[m] /\ y = d[i] /\ z = v[i]
    BY <1>1, <1>4, <2>4, <2>11
  <2>6. y < base /\ z = x * base + y
    BY <1>1, <1>3, <2>4, <2>5 DEF Horner
  <2>7. BitLength[x] = Bits(z, bits)
    BY <2>5, <2>6 DEF BitsPerDigit
  <2>8. PICK s \in Nat, t \in Nat, p \in Nat :
          s = BitLength[x] /\ t = BitLength[z] /\ p = bits * m
    BY <1>2, BitLengthZero
  <2>9. bits * i = p + bits
    BY <1>2, <2>3, <2>8
  <2>10. s <= p /\ ~ (t <= p + bits)
    <3>1. s <= p
      BY <2>5, <2>8, <2>41
    <3>2. ~ (t <= bits * i)
      BY <2>5, <2>8, <2>11
    <3> QED  BY <2>9, <3>1, <3>2
  <2>12. s = IF t <= bits THEN 0 ELSE t - bits
    BY <2>7, <2>8 DEF Bits
  <2>13. PICK w \in Nat : w = bits
    BY <1>2
  <2> QED  BY <2>10, <2>12, <2>13
<1>6. n \in Nat /\ n \in 0..n
  OBVIOUS
<1>7. BitLength[v[n]] <= bits * n
  BY <1>5, <1>6
<1> QED  BY <1>1, <1>3, <1>4, <1>6, <1>7

(* What a numeral is read as: its value, in bytes that have room for it.     *)
Reads(num, u) ==
  /\ u.int = NumValue(num) /\ u.int \in Nat /\ u.len \in Nat
  /\ BitLength[u.int] <= 8 * u.len
  /\ num.base = 10 => u.len = (BitLength[u.int] + 7) \div 8

LEMMA NumeralDigits ==
  ASSUME NEW num, IsNumeral(num)
  PROVE  /\ num.digits \in Seq(Nat) /\ Len(num.digits) \in Nat
         /\ \A i \in DOMAIN num.digits : num.digits[i] < num.base
         /\ num.base \in {2, 10, 16} /\ num.minus \in BOOLEAN
         /\ num.minus => num.base = 10
<1>1. num \in NumeralRecord
  BY DEF IsNumeral
<1>2. num.digits \in Seq(0..15) /\ 0..15 \subseteq Nat
  BY <1>1 DEF NumeralRecord
<1>3. num.digits \in Seq(Nat)
  BY <1>2, SeqMonotonic
<1>4. num.base \in {2, 10, 16} /\ num.minus \in BOOLEAN
  BY <1>1 DEF NumeralRecord
<1> QED  BY <1>3, <1>4, LenProperties DEF IsNumeral

LEMMA UintReads ==
  ASSUME NEW num, IsNumeral(num)
  PROVE  \A u \in ConvertStringToUint(num) : Reads(num, u)
<1> DEFINE k == Len(num.digits)
           n == NumValue(num)
<1>1. k \in Nat /\ num.digits \in Seq(Nat) /\ num.base \in {2, 10, 16}
  BY NumeralDigits
<1>2. CASE num.base = 16
  <2>1. n = Value(num.digits, 16)
    BY <1>2, NumeralDigits DEF NumValue
  <2>2. n \in Nat /\ BitLength[n] <= 4 * k
    <3>1. \A i \in DOMAIN num.digits : num.digits[i] < 16
      BY <1>2, NumeralDigits
    <3> QED  BY <1>1, <2>1, <3>1, HexAndBinary, DigitBits
  <2>3. ConvertStringToUint(num) = {[int |-> n, len |-> (k + 1) \div 2]}
    BY <1>2 DEF ConvertStringToUint
  <2>4. (k + 1) \div 2 \in Nat /\ 4 * k <= 8 * ((k + 1) \div 2)
    <3> HIDE DEF k
    <3> QED  BY <1>1
  <2>5. PICK p \in Nat, q \in Nat, t \in Nat :
          p = 4 * k /\ q = (k + 1) \div 2 /\ t = BitLength[n]
    <3> HIDE DEF k, n
    <3>1. BitLength[n] \in Nat
      BY <2>2, BitLengthZero
    <3>2. 4 * k \in Nat
      BY <1>1
    <3> QED  BY <2>4, <3>1, <3>2
  <2>6. t <= 8 * q
    <3> HIDE DEF k, n
    <3> QED  BY <2>2, <2>4, <2>5
  <2> HIDE DEF k
  <2> QED  BY <1>2, <2>2, <2>3, <2>5, <2>6 DEF Reads
<1>3. CASE num.base = 2
  <2>1. n = Value(num.digits, 2)
    BY <1>3, NumeralDigits DEF NumValue
  <2>2. n \in Nat /\ BitLength[n] <= 1 * k
    <3>1. \A i \in DOMAIN num.digits : num.digits[i] < 2
      BY <1>3, NumeralDigits
    <3> QED  BY <1>1, <2>1, <3>1, HexAndBinary, DigitBits
  <2>3. ConvertStringToUint(num) = {[int |-> n, len |-> (k + 7) \div 8]}
    BY <1>3 DEF ConvertStringToUint
  <2>4. (k + 7) \div 8 \in Nat /\ k <= 8 * ((k + 7) \div 8)
    <3> HIDE DEF k
    <3> QED  BY <1>1
  <2>5. PICK q \in Nat, t \in Nat : q = (k + 7) \div 8 /\ t = BitLength[n]
    <3> HIDE DEF k, n
    <3> QED  BY <1>1, <2>2, <2>4, BitLengthZero
  <2>6. t <= 8 * q
    <3> HIDE DEF k, n
    <3> QED  BY <1>1, <2>2, <2>4, <2>5
  <2> HIDE DEF k
  <2> QED  BY <1>3, <2>2, <2>3, <2>5, <2>6 DEF Reads
<1>4. CASE num.base = 10
  <2>1. ConvertStringToUint(num)
          = IF NoDigits(num) \/ n < 0 THEN {}
            ELSE {[int |-> n, len |-> (BitLength[n] + 7) \div 8]}
    BY <1>4 DEF ConvertStringToUint
  <2>2. n \in Int
    <3>1. PICK m \in Nat : m = Value(num.digits, num.base)
      BY <1>1, ValueNat
    <3> QED  BY <3>1 DEF NumValue
  <2>3. CASE n < 0 \/ NoDigits(num)
    BY <2>1, <2>3
  <2>4. CASE n >= 0 /\ ~ NoDigits(num)
    <3>1. ConvertStringToUint(num) = {[int |-> n, len |-> (BitLength[n] + 7) \div 8]}
      BY <2>1, <2>2, <2>4
    <3> HIDE DEF n
    <3>2. n \in Nat
      BY <2>2, <2>4
    <3>3. PICK t \in Nat : t = BitLength[n]
      BY <3>2, BitLengthZero
    <3>4. (t + 7) \div 8 \in Nat /\ t <= 8 * ((t + 7) \div 8)
      OBVIOUS
    <3> QED  BY <3>1, <3>2, <3>3, <3>4 DEF Reads, n
  <2> QED  BY <2>2, <2>3, <2>4
<1> QED  BY <1>1, <1>2, <1>3, <1>4

(* ----------------------------- Signed numbers ---------------------------- *)

Fits(n, length) == -128 <= Shifted(n)[length - 1] /\ Shifted(n)[length - 1] < 128
Magnitude(n) == IF n < 0 THEN -1 - n ELSE n

LEMMA FitsByBits ==
  ASSUME NEW n \in Int, NEW length \in Nat, length >= 1
  PROVE  /\ Magnitude(n) \in Nat
         /\ Fits(n, length) <=> BitLength[Magnitude(n)] < 8 * length
<1>1. PICK c \in Nat : c = Magnitude(n)
  BY DEF Magnitude
<1>2. PICK j \in Nat : j = length - 1
  OBVIOUS
<1>3. PICK x \in Nat : x = Shifted(c)[j] /\ BitLength[x] = Bits(c, 8 * j)
  BY ShiftedBits
<1>4. x < 128 <=> BitLength[x] <= 7
  BY BitLengthBytes
<1>5. PICK t \in Nat : t = BitLength[c]
  BY BitLengthZero
<1>6. BitLength[x] = IF t <= 8 * j THEN 0 ELSE t - 8 * j
  BY <1>3, <1>5 DEF Bits
<1>7. x < 128 <=> t < 8 * length
  BY <1>2, <1>4, <1>6
<1>8. Fits(n, length) <=> x < 128
  <2>1. CASE n < 0
    <3>1. c = -1 - n
      BY <1>1, <2>1 DEF Magnitude
    <3>2. Shifted(n)[j] = -1 - Shifted(c)[j]
      BY <3>1, ShiftedComplement
    <3> QED  BY <1>2, <1>3, <3>2 DEF Fits
  <2>2. CASE ~ (n < 0)
    <3>1. c = n
      BY <1>1, <2>2 DEF Magnitude
    <3> QED  BY <1>2, <1>3, <3>1 DEF Fits
  <2> QED  BY <2>1, <2>2
<1> QED  BY <1>1, <1>5, <1>7, <1>8

LEMMA TailOfBytes ==
  ASSUME NEW n \in Int, NEW length \in Nat, length >= 1
  PROVE  Tail(ToBytes(n, length)) = ToBytes(n, length - 1)
<1> DEFINE b == ToBytes(n, length)
           c == ToBytes(n, length - 1)
<1>1. length - 1 \in Nat
  OBVIOUS
<1>2. /\ b \in Seq(Byte) /\ Len(b) = length
      /\ \A i \in 1..length : b[i] = Shifted(n)[length - i] % 256
  BY ToBytesType
<1>3. PICK m \in Nat : m = length - 1
  BY <1>1
<1>4. /\ c \in Seq(Byte) /\ Len(c) = m
      /\ \A i \in 1..m : c[i] = Shifted(n)[m - i] % 256
  BY <1>3, ToBytesType
<1> HIDE DEF b, c
<1>5. b # <<>>
  BY <1>2, EmptySeq
<1>6. /\ Tail(b) \in Seq(Byte) /\ Len(Tail(b)) = m
      /\ \A i \in 1..m : Tail(b)[i] = b[i + 1]
  BY <1>2, <1>3, <1>5, HeadTailProperties
<1>7. ASSUME NEW i \in 1..m PROVE Tail(b)[i] = c[i]
  <2>1. i + 1 \in 1..length /\ length - (i + 1) = m - i
    BY <1>3
  <2> QED  BY <1>2, <1>4, <1>6, <2>1
<1>8. Tail(b) = c
  BY <1>4, <1>6, <1>7, SeqEqual
<1> QED  BY <1>8 DEF b, c

LEMMA SignedNumbers ==
  ASSUME NEW n \in Int, NEW length, length = (8 + BitLength[Magnitude(n)]) \div 8
  PROVE  /\ length \in Nat /\ BytesToInt(ToBytes(n, length)) = n
         /\ length > 1 => BytesToInt(Tail(ToBytes(n, length))) # n
<1>1. PICK t \in Nat : t = BitLength[Magnitude(n)]
  <2>1. Magnitude(n) \in Nat
    BY FitsByBits DEF Magnitude
  <2> QED  BY <2>1, BitLengthZero
<1>2. length \in Nat /\ length >= 1 /\ t < 8 * length /\ t >= 8 * (length - 1)
  BY <1>1
<1>3. Fits(n, length)
  BY <1>1, <1>2, FitsByBits
<1>4. BytesToInt(ToBytes(n, length)) = n
  BY <1>2, <1>3, ToBytesSigned DEF Fits
<1>5. CASE length > 1
  <2>1. PICK m \in Nat : m = length - 1 /\ m >= 1
    BY <1>2, <1>5
  <2>2. ~ Fits(n, m)
    BY <1>1, <1>2, <2>1, FitsByBits
  <2>3. BytesToInt(ToBytes(n, m)) # n
    BY <2>1, <2>2, ToBytesTooShort DEF Fits
  <2> QED  BY <1>2, <1>4, <2>1, <2>3, TailOfBytes
<1> QED  BY <1>2, <1>4, <1>5

LEMMA UnsignedShortest ==
  ASSUME NEW n \in Nat, NEW length, length = (BitLength[n] + 7) \div 8
  PROVE  ToBytes(n, length) = <<>> \/ ToBytes(n, length)[1] # 0
<1>1. PICK t \in Nat : t = BitLength[n]
  BY BitLengthZero
<1>2. length \in Nat /\ (length >= 1 => t > 8 * (length - 1) /\ t <= 8 * length)
  BY <1>1
<1>3. CASE length = 0
  <2>1. n \in Int /\ length \in Nat
    BY <1>2
  <2>2. ToBytes(n, length) \in Seq(Byte) /\ Len(ToBytes(n, length)) = 0
    BY <1>3, <2>1, ToBytesType
  <2> QED  BY <2>2, EmptySeq
<1>4. CASE length # 0
  <2>1. PICK j \in Nat : j = length - 1
    BY <1>2, <1>4
  <2>2. PICK x \in Nat : x = Shifted(n)[j] /\ BitLength[x] = Bits(n, 8 * j)
    BY ShiftedBits
  <2>3. BitLength[x] = t - 8 * j /\ t - 8 * j <= 8 /\ t - 8 * j > 0
    <3>1. t > 8 * j /\ t <= 8 * length
      BY <1>2, <1>4, <2>1
    <3> QED  BY <1>1, <1>2, <2>1, <2>2, <3>1 DEF Bits
  <2>4. x < 256 /\ x # 0
    BY <2>3, BitLengthBytes, BitLengthZero
  <2>5. ToBytes(n, length)[1] = x % 256
    <3>1. PICK i \in 1..length : i = 1
      BY <1>2, <1>4
    <3>2. PICK m \in Int, k \in Nat : m = n /\ k = length
      BY <1>2
    <3>3. i \in 1..k
      BY <3>2
    <3>4. ToBytes(m, k)[i] = Shifted(m)[k - i] % 256
      BY <3>3, ShiftedStep
    <3>5. ToBytes(n, length)[i] = Shifted(n)[length - i] % 256
      BY <3>2, <3>4
    <3> QED  BY <2>1, <2>2, <3>1, <3>5
  <2> QED  BY <2>4, <2>5
<1> QED  BY <1>3, <1>4

LEMMA SintReads ==
  ASSUME NEW num, IsNumeral(num), NEW sign \in {"+", "-"},
         NEW s \in ConvertStringToSint(sign, num)
  PROVE  /\ s.int = SignedNumber(sign, NumValue(num)) /\ s.int \in Int
         /\ s.len = (8 + BitLength[Magnitude(s.int)]) \div 8
         /\ NumValue(num) \in Nat
<1>1. PICK u \in ConvertStringToUint(num) :
        s = LET n == SignedNumber(sign, u.int)
                m == IF n < 0 THEN n + 1 ELSE n
            IN  [int |-> n, len |-> (8 + BitLength[IF m < 0 THEN -m ELSE m]) \div 8]
  BY DEF ConvertStringToSint
<1>2. u.int = NumValue(num) /\ u.int \in Nat
  BY UintReads DEF Reads
<1>3. PICK n \in Int : n = SignedNumber(sign, u.int)
  BY <1>2 DEF SignedNumber
<1>4. PICK m \in Int : m = IF n < 0 THEN n + 1 ELSE n
  OBVIOUS
<1>5. s = [int |-> n, len |-> (8 + BitLength[IF m < 0 THEN -m ELSE m]) \div 8]
  BY <1>1, <1>3, <1>4
<1>6. (IF m < 0 THEN -m ELSE m) = Magnitude(n)
  BY <1>4 DEF Magnitude
<1> QED  BY <1>2, <1>3, <1>5, <1>6

(* ----------------------------- Decimal digits ---------------------------- *)

LEMMA ValueEmpty == ASSUME NEW base \in Int PROVE Value(<<>>, base) = 0
<1>1. PICK d \in Seq(Int) : d = <<>> /\ Len(d) = 0
  BY EmptySeq
<1>2. PICK v : Horner(d, base, v) /\ Value(d, base) = v[Len(d)]
  BY ValueTrace
<1> QED  BY <1>1, <1>2 DEF Horner

LEMMA ValueAppend ==
  ASSUME NEW base \in Int, NEW d \in Seq(Int), NEW x \in Int
  PROVE  Value(Append(d, x), base) = Value(d, base) * base + x
<1>1. PICK n \in Nat : n = Len(d)
  BY LenProperties
<1>2. PICK v : Horner(d, base, v) /\ Value(d, base) = v[n]
  BY <1>1, ValueTrace
<1> DEFINE e == Append(d, x)
<1>3. /\ e \in Seq(Int) /\ Len(e) = n + 1 /\ e[n + 1] = x
      /\ \A i \in 1..n : e[i] = d[i]
  BY <1>1, AppendProperties
<1> HIDE DEF e
<1>4. PICK w : Horner(e, base, w) /\ Value(e, base) = w[n + 1]
  BY <1>3, ValueTrace
<1>5. v[n] = w[n]
  <2>1. PICK m \in Nat : m = n + 1 /\ Len(e) = m
    BY <1>3
  <2> QED  BY <1>1, <1>2, <1>3, <1>4, <2>1, HornerAlike
<1>6. w[n + 1] = w[n] * base + x
  <2>1. n + 1 \in 1..Len(e) /\ (n + 1) - 1 = n
    BY <1>3
  <2> QED  BY <1>3, <1>4, <2>1 DEF Horner
<1> QED  BY <1>2, <1>4, <1>5, <1>6 DEF e

Tenths == [n \in Nat |-> n \div 10]
LEMMA TenthsDecrease == Decreases(Tenths)
BY DEF Tenths, Decreases

IsDecimal(f) == f = [n \in Nat |-> IF n < 10 THEN <<n>> ELSE Append(f[n \div 10], n % 10)]

LEMMA DecimalChosen == IsDecimal(Decimal) /\ \A n \in Nat : Decimal[n] \in Seq(Nat)
<1> DEFINE G == [p \in Nat \X Seq(Nat) |-> IF p[1] < 10 THEN <<p[1]>>
                                           ELSE Append(p[2], p[1] % 10)]
<1>1. PICK f : Recurs(G, Tenths, << 0 >>, Nat, f)
  BY TenthsDecrease, RecursExists
<1>2. \A n \in Nat, x \in Seq(Nat) :
        G[<<n, x>>] = IF n < 10 THEN <<n>> ELSE Append(x, n % 10)
  OBVIOUS
<1> HIDE DEF G
<1>21. \A n \in Nat : <<n>> \in Seq(Nat)
  OBVIOUS
<1>3. ASSUME NEW g, Recurs(G, Tenths, << 0 >>, Nat, g) PROVE \A n \in Nat : g[n] \in Seq(Nat)
  <2>1. ASSUME NEW n \in Nat, NEW x \in Seq(Nat) PROVE G[<<n, x>>] \in Seq(Nat)
    <3>1. n % 10 \in Nat
      OBVIOUS
    <3>2. Append(x, n % 10) \in Seq(Nat)
      BY <3>1, AppendProperties
    <3> QED  BY <1>2, <1>21, <3>2
  <2>2. << 0 >> \in Seq(Nat)
    BY <1>21
  <2>3. \A n \in Nat, x \in Seq(Nat) : G[<<n, x>>] \in Seq(Nat)
    BY <2>1
  <2> QED  BY <1>3, <2>2, <2>3, TenthsDecrease, RecursIn
<1>4. ASSUME NEW n \in Nat
      PROVE  f[n] = IF n < 10 THEN <<n>> ELSE Append(f[n \div 10], n % 10)
  <2>1. f[n] = IF n = 0 THEN << 0 >> ELSE G[<<n, f[Tenths[n]]>>]
    BY <1>1 DEF Recurs
  <2>2. CASE n = 0
    BY <2>1, <2>2
  <2>3. CASE n # 0
    <3>1. Tenths[n] = n \div 10 /\ n \div 10 \in Nat
      BY DEF Tenths
    <3>2. PICK x \in Seq(Nat) : x = f[n \div 10]
      BY <1>1, <1>3, <3>1
    <3> QED  BY <1>2, <2>1, <2>3, <3>1, <3>2
  <2> QED  BY <2>2, <2>3
<1>5. DOMAIN f = Nat /\ f = [n \in Nat |-> f[n]]
  BY <1>1 DEF Recurs
<1>6. IsDecimal(f)
  BY <1>4, <1>5 DEF IsDecimal
<1>7. Decimal = CHOOSE g : IsDecimal(g)
  BY DEF Decimal, IsDecimal
<1>8. IsDecimal(Decimal)
  BY <1>6, <1>7
<1> DEFINE g == Decimal
           Bad == {n \in Nat : g[n] \notin Seq(Nat)}
<1>9. \A n \in Nat : g[n] = IF n < 10 THEN <<n>> ELSE Append(g[n \div 10], n % 10)
  <2> HIDE DEF g
  <2>1. IsDecimal(g)
    BY <1>8 DEF g
  <2> QED  BY <2>1 DEF IsDecimal
<1> HIDE DEF g
<1>10. Bad = {}
  <2> SUFFICES ASSUME Bad # {} PROVE FALSE
    OBVIOUS
  <2>1. PICK n \in Bad : \A j \in Bad : n <= j
    <3>1. Bad \in SUBSET Nat
      OBVIOUS
    <3> HIDE DEF Bad
    <3> QED  BY <3>1, LeastNat
  <2>2. n \in Nat /\ ~ (n < 10)
    BY <1>9, <1>21, <2>1
  <2>3. n \div 10 \in Nat /\ n \div 10 < n /\ n % 10 \in Nat
    BY <2>2
  <2>4. g[n \div 10] \in Seq(Nat)
    BY <2>1, <2>2, <2>3
  <2>5. Append(g[n \div 10], n % 10) \in Seq(Nat)
    BY <2>3, <2>4, AppendProperties
  <2> QED  BY <1>9, <2>1, <2>2, <2>5
<1> QED  BY <1>8, <1>10 DEF g

IsDigits(d, n) ==
  d \in Seq(0..15) /\ d # <<>> /\ (\A i \in DOMAIN d : d[i] < 10) /\ Value(d, 10) = n
TenDigits(d) == d \in Seq(0..15) /\ \A i \in DOMAIN d : d[i] < 10

LEMMA DigitsAppend ==
  ASSUME NEW d, TenDigits(d), NEW x \in Nat, x < 10, NEW v \in Int, Value(d, 10) = v
  PROVE  IsDigits(Append(d, x), v * 10 + x)
<1>0. d \in Seq(0..15) /\ \A i \in DOMAIN d : d[i] < 10
  BY DEF TenDigits
<1>1. PICK n \in Nat : n = Len(d) /\ DOMAIN d = 1..n
  BY <1>0, LenProperties
<1>2. x \in 0..15 /\ x \in Int /\ d \in Seq(Int)
  <2>1. 0..15 \subseteq Int
    OBVIOUS
  <2>2. d \in Seq(Int)
    BY <1>0, <2>1, SeqMonotonic
  <2> QED  BY <2>2
<1> DEFINE e == Append(d, x)
<1>3. /\ e \in Seq(0..15) /\ Len(e) = n + 1 /\ e[n + 1] = x
      /\ \A i \in 1..n : e[i] = d[i]
  BY <1>0, <1>1, <1>2, AppendProperties
<1>4. Value(e, 10) = Value(d, 10) * 10 + x
  BY <1>2, ValueAppend
<1> HIDE DEF e
<1>5. DOMAIN e = 1..(n + 1) /\ e # <<>>
  BY <1>3, LenProperties, EmptySeq
<1>6. \A i \in DOMAIN e : e[i] < 10
  <2> SUFFICES ASSUME NEW i \in 1..(n + 1) PROVE e[i] < 10
    BY <1>5
  <2>1. CASE i = n + 1
    BY <1>3, <2>1
  <2>2. CASE i # n + 1
    <3>1. i \in 1..n
      BY <2>2
    <3> QED  BY <1>0, <1>1, <1>3, <3>1
  <2> QED  BY <2>1, <2>2
<1>7. IsDigits(e, v * 10 + x)
  BY <1>3, <1>4, <1>5, <1>6 DEF IsDigits
<1> QED  BY <1>7 DEF e

LEMMA DecimalDigits == \A n \in Nat : IsDigits(Decimal[n], n)
<1> DEFINE g == Decimal
           Bad == {n \in Nat : ~ IsDigits(g[n], n)}
<1>1. IsDecimal(g)
  BY DecimalChosen
<1> HIDE DEF g
<1>2. \A n \in Nat : g[n] = IF n < 10 THEN <<n>> ELSE Append(g[n \div 10], n % 10)
  BY <1>1 DEF IsDecimal
<1> SUFFICES ASSUME Bad # {} PROVE FALSE
  BY DEF g
<1>4. PICK n \in Bad : \A j \in Bad : n <= j
  <2>1. Bad \in SUBSET Nat
    OBVIOUS
  <2> HIDE DEF Bad
  <2> QED  BY <2>1, LeastNat
<1>5. n \in Nat /\ ~ IsDigits(g[n], n)
  BY <1>4
<1>6. CASE n < 10
  <2>1. PICK d : d = <<>> /\ TenDigits(d) /\ Value(d, 10) = 0
    <3>1. <<>> \in Seq(0..15) /\ Len(<<>>) = 0
      BY EmptySeq
    <3>2. Value(<<>>, 10) = 0
      BY ValueEmpty
    <3>3. TenDigits(<<>>)
      BY <3>1 DEF TenDigits
    <3> QED  BY <3>2, <3>3
  <2>2. PICK x \in Nat, v \in Int : x = n /\ v = 0 /\ v * 10 + x = n
    BY <1>5
  <2>3. IsDigits(Append(d, x), v * 10 + x)
    BY <1>6, <2>1, <2>2, DigitsAppend
  <2>4. Append(d, n) = <<n>>
    BY <2>1
  <2> QED  BY <1>2, <1>5, <1>6, <2>2, <2>3, <2>4
<1>7. CASE ~ (n < 10)
  <2>1. PICK m \in Nat, x \in Nat :
          m = n \div 10 /\ x = n % 10 /\ x < 10 /\ m < n /\ n = m * 10 + x
    BY <1>5, <1>7
  <2>2. m \notin Bad
    BY <1>4, <1>5, <2>1
  <2>3. IsDigits(g[m], m)
    BY <2>2
  <2>4. PICK d : d = g[m]
    OBVIOUS
  <2>5. TenDigits(d) /\ Value(d, 10) = m
    BY <2>3, <2>4 DEF IsDigits, TenDigits
  <2>6. IsDigits(Append(d, x), m * 10 + x)
    BY <2>1, <2>5, DigitsAppend
  <2>7. g[n] = Append(d, x)
    BY <1>2, <1>5, <1>7, <2>1, <2>4
  <2> QED  BY <1>5, <2>1, <2>6, <2>7
<1> QED  BY <1>6, <1>7

(* --------------------------------- Atoms --------------------------------- *)

AtMostOne(S) == \A x, y \in S : x = y
Chunks(S) == S \subseteq Seq(Byte) /\ AtMostOne(S)

PlainKinds == {"none", "true", "false"}
TextKinds == {"str", "address", "sc"}
NumberKinds == {"uint", "biguint", "u8", "u16", "u32", "u64", "+", "-"}

LegalAtom(a) == a \in AtomRecord /\ ("num" \in DOMAIN a => IsNumeral(a.num))

LEMMA AtomShape ==
  ASSUME NEW a, LegalAtom(a)
  PROVE  \/ a.kind \in PlainKinds
         \/ a.kind \in TextKinds /\ a.text \in Seq(Nat) /\ a = [kind |-> a.kind, text |-> a.text]
         \/ a.kind \in NumberKinds /\ IsNumeral(a.num)
<1>1. CASE a \in [kind : PlainKinds]
  BY <1>1
<1>2. CASE a \in [kind : TextKinds, text : Seq(Nat)]
  BY <1>2
<1>3. CASE a \in [kind : NumberKinds, num : NumeralRecord]
  <2>1. "num" \in DOMAIN a /\ a.kind \in NumberKinds
    BY <1>3
  <2> QED  BY <2>1 DEF LegalAtom
<1> QED  BY <1>1, <1>2, <1>3 DEF LegalAtom, AtomRecord, PlainKinds, TextKinds, NumberKinds

LEMMA OneIsAtMostOne == AtMostOne({}) /\ \A x : AtMostOne({x})
BY DEF AtMostOne

LEMMA ChunkOf == ASSUME NEW c \in Seq(Byte) PROVE Chunks({c}) /\ Chunks({})
BY OneIsAtMostOne DEF Chunks

LEMMA UintOne == ASSUME NEW num, IsNumeral(num) PROVE AtMostOne(ConvertStringToUint(num))
<1>1. num.base \in {2, 10, 16}
  BY NumeralDigits
<1>2. CASE num.base = 16
  <2>1. ConvertStringToUint(num)
          = {[int |-> NumValue(num), len |-> (Len(num.digits) + 1) \div 2]}
    BY <1>2 DEF ConvertStringToUint
  <2> QED  BY <2>1, OneIsAtMostOne
<1>3. CASE num.base = 2
  <2>1. ConvertStringToUint(num)
          = {[int |-> NumValue(num), len |-> (Len(num.digits) + 7) \div 8]}
    BY <1>3 DEF ConvertStringToUint
  <2> QED  BY <2>1, OneIsAtMostOne
<1>4. CASE num.base = 10
  <2>1. \/ ConvertStringToUint(num) = {}
        \/ ConvertStringToUint(num)
             = {[int |-> NumValue(num), len |-> (BitLength[NumValue(num)] + 7) \div 8]}
    BY <1>4 DEF ConvertStringToUint
  <2> QED  BY <2>1, OneIsAtMostOne
<1> QED  BY <1>1, <1>2, <1>3, <1>4

LEMMA Widths ==
  /\ DOMAIN FixedWidth = {"u64", "u32", "u16", "u8"}
  /\ \A k \in DOMAIN FixedWidth : FixedWidth[k] \in Nat
BY DEF FixedWidth

UintBytes(num) == {ToBytes(u.int, u.len) : u \in ConvertStringToUint(num)}
SintBytes(sign, num) == {ToBytes(s.int, s.len) : s \in ConvertStringToSint(sign, num)}
BigUintBytes(num) ==
  UNION {WithLength(ToBytes(u.int, u.len)) : u \in ConvertStringToUint(num)}

LEMMA AtomCases ==
  ASSUME NEW a
  PROVE  /\ a.kind \in {"none", "false"} => AtomToBytes(a) = {<<>>}
         /\ a.kind = "true" => AtomToBytes(a) = {<<1>>}
         /\ a.kind = "str" => AtomToBytes(a) = AsciiBytes(a.text)
         /\ a.kind = "address" => AtomToBytes(a) = AddressExpression(a.text)
         /\ a.kind = "sc" => AtomToBytes(a) = ScExpression(a.text)
         /\ a.kind = "biguint" => AtomToBytes(a) = BigUintBytes(a.num)
         /\ a.kind \in DOMAIN FixedWidth =>
              AtomToBytes(a) = UintFixedWidth(a.num, FixedWidth[a.kind])
         /\ a.kind \in {"+", "-"} => AtomToBytes(a) = SintBytes(a.kind, a.num)
         /\ a.kind = "uint" => AtomToBytes(a) = UintBytes(a.num)
<1>1. a.kind \in {"none", "false"} => AtomToBytes(a) = {<<>>}
  BY Widths DEF AtomToBytes
<1>2. a.kind = "true" => AtomToBytes(a) = {<<1>>}
  BY Widths DEF AtomToBytes
<1>3. a.kind = "str" => AtomToBytes(a) = AsciiBytes(a.text)
  BY Widths DEF AtomToBytes
<1>4. a.kind = "address" => AtomToBytes(a) = AddressExpression(a.text)
  BY Widths DEF AtomToBytes
<1>5. a.kind = "sc" => AtomToBytes(a) = ScExpression(a.text)
  BY Widths DEF AtomToBytes
<1>6. a.kind = "biguint" => AtomToBytes(a) = BigUintBytes(a.num)
  BY Widths DEF AtomToBytes, BigUintBytes
<1>7. a.kind \in DOMAIN FixedWidth =>
        AtomToBytes(a) = UintFixedWidth(a.num, FixedWidth[a.kind])
  BY Widths DEF AtomToBytes
<1>8. a.kind \in {"+", "-"} => AtomToBytes(a) = SintBytes(a.kind, a.num)
  BY Widths DEF AtomToBytes, SintBytes
<1>9. a.kind = "uint" => AtomToBytes(a) = UintBytes(a.num)
  BY Widths DEF AtomToBytes, UintBytes
<1> QED  BY <1>1, <1>2, <1>3, <1>4, <1>5, <1>6, <1>7, <1>8, <1>9

LEMMA WithLengthBytes ==
  ASSUME NEW b \in Seq(Byte)
  PROVE  /\ Chunks(WithLength(b))
         /\ \A c \in WithLength(b) :
              /\ c \in Seq(Byte) /\ Len(b) \in Nat /\ Len(c) = 4 + Len(b)
              /\ Drop(c, 4) = b /\ BytesToUint(TakeFirst(c, 4)) = Len(b)
<1>1. PICK n \in Nat : n = Len(b)
  BY LenProperties
<1>2. CASE BitLength[n] > 32
  BY <1>1, <1>2, OneIsAtMostOne DEF WithLength, Chunks
<1>3. CASE ~ (BitLength[n] > 32)
  <2> DEFINE p == ToBytes(n, 4)
             c == p \o b
  <2>1. WithLength(b) = {c}
    BY <1>1, <1>3 DEF WithLength
  <2>2. p \in Seq(Byte) /\ Len(p) = 4
    <3>1. n \in Int /\ 4 \in Nat
      OBVIOUS
    <3> QED  BY <3>1, ToBytesType
  <2>3. BytesToUint(p) = n
    <3>1. PICK t \in Nat : t = BitLength[n]
      BY BitLengthZero
    <3>2. t <= 8 * 4
      BY <1>3, <3>1
    <3> QED  BY <3>1, <3>2, ToBytesUnsigned
  <2> HIDE DEF p
  <2>4. /\ c \in Seq(Byte) /\ Len(c) = 4 + n
        /\ \A i \in 1..(4 + n) : c[i] = IF i <= 4 THEN p[i] ELSE b[i - 4]
    <3>1. /\ c \in Seq(Byte) /\ Len(c) = Len(p) + Len(b)
          /\ \A i \in 1..(Len(p) + Len(b)) :
               c[i] = IF i <= Len(p) THEN p[i] ELSE b[i - Len(p)]
      BY <2>2, ConcatProperties
    <3> QED  BY <1>1, <2>2, <3>1
  <2> HIDE DEF c
  <2>5. TakeFirst(c, 4) = p
    <3>1. PICK s : s = TakeFirst(c, 4)
      OBVIOUS
    <3>2. s \in Seq(Byte) /\ Len(s) = 4 /\ \A i \in 1..4 : s[i] = c[i]
      <4>1. \A i \in 1..4 : c[i] \in Byte
        BY <2>4, LenProperties
      <4> QED  BY <2>4, <3>1, <4>1, SubSeqProperties DEF TakeFirst
    <3>3. \A i \in 1..4 : s[i] = p[i]
      BY <2>4, <3>2
    <3>4. s = p
      BY <2>2, <3>2, <3>3, SeqEqual
    <3> QED  BY <3>1, <3>4
  <2>6. Drop(c, 4) = b
    <3>1. PICK s : s = Drop(c, 4)
      OBVIOUS
    <3>2. s \in Seq(Byte) /\ Len(s) = n /\ \A i \in 1..n : s[i] = c[i + 4]
      <4>1. \A i \in 5..Len(c) : c[i] \in Byte
        BY <2>4, LenProperties
      <4>2. s = SubSeq(c, 5, Len(c))
        BY <3>1 DEF Drop
      <4> QED  BY <2>4, <4>1, <4>2, SubSeqProperties
    <3>3. \A i \in 1..n : s[i] = b[i]
      BY <2>4, <3>2
    <3>4. s = b
      BY <1>1, <3>2, <3>3, SeqEqual
    <3> QED  BY <3>1, <3>4
  <2> QED  BY <1>1, <2>1, <2>3, <2>4, <2>5, <2>6, OneIsAtMostOne DEF Chunks
<1>4. BitLength[n] \in Nat
  BY BitLengthZero
<1> QED  BY <1>2, <1>3, <1>4

(* An address: the zeros of a contract, the name, and the padding.           *)
LEMMA AddressBytes ==
  ASSUME NEW name \in Seq(Nat), NEW zeros \in Nat
  PROVE  /\ Chunks(CreateAddressOptionalShardId(name, zeros))
         /\ \A a \in CreateAddressOptionalShardId(name, zeros) :
              /\ Len(a) = 32
              /\ \A i \in 1..32 :
                   a[i] = IF i <= zeros THEN 0
                          ELSE IF i <= zeros + Len(name) THEN name[i - zeros] ELSE 95
<1> DEFINE p == [i \in 1..zeros |-> 0] \o name
           a == [i \in 1..32 |-> IF i <= Len(p) THEN p[i] ELSE 95]
<1>1. /\ p \in Seq(Nat) /\ Len(p) = zeros + Len(name)
      /\ \A i \in 1..(zeros + Len(name)) : p[i] = IF i <= zeros THEN 0 ELSE name[i - zeros]
  <2> DEFINE z == [i \in 1..zeros |-> 0]
  <2>1. z \in [1..zeros -> Nat]
    OBVIOUS
  <2>2. z \in Seq(Nat) /\ Len(z) = zeros /\ \A i \in 1..zeros : z[i] = 0
    BY <2>1, SeqDef, LenProperties
  <2> HIDE DEF z
  <2>3. /\ z \o name \in Seq(Nat) /\ Len(z \o name) = Len(z) + Len(name)
        /\ \A i \in 1..(Len(z) + Len(name)) :
             (z \o name)[i] = IF i <= Len(z) THEN z[i] ELSE name[i - Len(z)]
    BY <2>2, ConcatProperties
  <2>4. Len(name) \in Nat
    BY LenProperties
  <2>5. /\ z \o name \in Seq(Nat) /\ Len(z \o name) = zeros + Len(name)
        /\ \A i \in 1..(zeros + Len(name)) :
             (z \o name)[i] = IF i <= zeros THEN 0 ELSE name[i - zeros]
    BY <2>2, <2>3, <2>4
  <2> QED  BY <2>5 DEF z
<1>2. CreateAddressOptionalShardId(name, zeros)
        = IF \E i \in 1..32 : i <= Len(p) /\ p[i] > 127 THEN {} ELSE {a}
  BY DEF CreateAddressOptionalShardId, AddressLength, MaxAscii, Underscore
<1> HIDE DEF p
<1>3. CASE \E i \in 1..32 : i <= Len(p) /\ p[i] > 127
  BY <1>2, <1>3, OneIsAtMostOne DEF Chunks
<1>4. CASE ~ \E i \in 1..32 : i <= Len(p) /\ p[i] > 127
  <2>1. CreateAddressOptionalShardId(name, zeros) = {a}
    BY <1>2, <1>4
  <2>2. Len(p) \in Nat /\ \A i \in 1..Len(p) : p[i] \in Nat
    BY <1>1, LenProperties
  <2>3. a \in [1..32 -> Byte]
    <3>1. ASSUME NEW i \in 1..32 PROVE (IF i <= Len(p) THEN p[i] ELSE 95) \in Byte
      <4>1. CASE i <= Len(p)
        <5>1. i \in 1..Len(p)
          BY <2>2, <4>1
        <5>2. p[i] \in Nat
          BY <2>2, <5>1
        <5>3. ~ (p[i] > 127)
          BY <1>4, <4>1
        <5>4. \A n \in Nat : ~ (n > 127) => n \in Byte
          BY DEF Byte
        <5>5. p[i] \in Byte
          BY <5>2, <5>3, <5>4
        <5> QED  BY <4>1, <5>5
      <4>2. CASE ~ (i <= Len(p))
        BY <4>2 DEF Byte
      <4> QED  BY <4>1, <4>2
    <3> QED  BY <3>1
  <2>4. \A i \in 1..32 : a[i] = IF i <= Len(p) THEN p[i] ELSE 95
    OBVIOUS
  <2> HIDE DEF a
  <2>5. a \in Seq(Byte) /\ Len(a) = 32
    <3>1. PICK k \in Nat : k = 32
      OBVIOUS
    <3>2. a \in [1..k -> Byte]
      BY <2>3, <3>1
    <3>3. a \in Seq(Byte) /\ Len(a) = k
      BY <3>2, SeqDef, LenProperties
    <3> QED  BY <3>1, <3>3
  <2>6. ASSUME NEW i \in 1..32
        PROVE  a[i] = IF i <= zeros THEN 0
                      ELSE IF i <= zeros + Len(name) THEN name[i - zeros] ELSE 95
    <3>1. PICK n \in Nat : n = Len(name)
      BY LenProperties
    <3>2. CASE i <= zeros + n
      <4>1. i \in 1..(zeros + n) /\ i <= Len(p)
        BY <1>1, <3>1, <3>2
      <4> QED  BY <1>1, <2>4, <3>1, <3>2, <4>1
    <3>3. CASE ~ (i <= zeros + n)
      <4>1. ~ (i <= Len(p)) /\ ~ (i <= zeros)
        BY <1>1, <3>1, <3>3
      <4> QED  BY <2>4, <3>1, <3>3, <4>1
    <3> QED  BY <3>2, <3>3
  <2>7. Chunks({a})
    BY <2>5, ChunkOf
  <2> QED  BY <2>1, <2>5, <2>6, <2>7
<1> QED  BY <1>3, <1>4

SintOf(sign, u) ==
  LET n == SignedNumber(sign, u.int)
      m == IF n < 0 THEN n + 1 ELSE n
  IN  [int |-> n, len |-> (8 + BitLength[IF m < 0 THEN -m ELSE m]) \div 8]

LEMMA OneOrNone == ASSUME NEW S, AtMostOne(S) PROVE S = {} \/ \E x \in S : S = {x}
BY DEF AtMostOne

LEMMA NumberChunks ==
  ASSUME NEW num, IsNumeral(num)
  PROVE  /\ Chunks(UintBytes(num)) /\ Chunks(BigUintBytes(num))
         /\ \A w \in Nat : Chunks(UintFixedWidth(num, w))
         /\ \A sign \in {"+", "-"} : Chunks(SintBytes(sign, num))
<1> DEFINE U == ConvertStringToUint(num)
<1>0. Chunks({})
  BY OneIsAtMostOne DEF Chunks
<1>1. \A u \in U : u.int \in Int /\ u.len \in Nat
  BY UintReads DEF Reads
<1>2. U = {} \/ \E u \in U : U = {u}
  BY UintOne, OneOrNone
<1>3. ASSUME NEW sign \in {"+", "-"}
      PROVE  Chunks(SintBytes(sign, num))
  <2> DEFINE S == ConvertStringToSint(sign, num)
  <2>1. S = {} \/ \E s \in S : S = {s}
    <3>1. CASE U = {}
      BY <3>1 DEF ConvertStringToSint
    <3>2. CASE U # {}
      <4>1. PICK u : U = {u}
        BY <1>2, <3>2
      <4>2. \E s : S = {s}
        <5>1. S = {SintOf(sign, v) : v \in U}
          BY DEF ConvertStringToSint, SintOf
        <5>2. S = {SintOf(sign, u)}
          BY <4>1, <5>1
        <5> HIDE DEF S
        <5> QED  BY <5>2
      <4> HIDE DEF S
      <4> QED  BY <4>2
    <3> QED  BY <3>1, <3>2
  <2>2. ASSUME NEW s \in S PROVE ToBytes(s.int, s.len) \in Seq(Byte)
    <3>1. s.int \in Int /\ s.len = (8 + BitLength[Magnitude(s.int)]) \div 8
      BY SintReads
    <3>2. PICK n \in Int : n = s.int
      BY <3>1
    <3>3. PICK k : k = s.len
      OBVIOUS
    <3>4. k \in Nat
      BY <3>1, <3>2, <3>3, SignedNumbers
    <3> QED  BY <3>2, <3>3, <3>4, ToBytesType
  <2> HIDE DEF S
  <2>3. CASE S = {}
    <3>1. {ToBytes(s.int, s.len) : s \in S} = {}
      BY <2>3
    <3> QED  BY <1>0, <3>1 DEF S, SintBytes
  <2>4. CASE \E s \in S : S = {s}
    <3>1. PICK s \in S : S = {s}
      BY <2>4
    <3>2. {ToBytes(t.int, t.len) : t \in S} = {ToBytes(s.int, s.len)}
      BY <3>1
    <3> QED  BY <2>2, <3>1, <3>2, ChunkOf DEF S, SintBytes
  <2> QED  BY <2>1, <2>3, <2>4
<1> HIDE DEF U
<1>4. CASE U = {}
  <2>1. /\ {ToBytes(u.int, u.len) : u \in U} = {}
        /\ UNION {WithLength(ToBytes(u.int, u.len)) : u \in U} = {}
    BY <1>4
  <2>2. ASSUME NEW w \in Nat PROVE UintFixedWidth(num, w) = {}
    BY <1>4 DEF UintFixedWidth, U
  <2> QED  BY <1>0, <1>3, <2>1, <2>2 DEF U, UintBytes, BigUintBytes
<1>5. CASE U # {}
  <2>1. PICK u \in U : U = {u}
    BY <1>2, <1>5
  <2>2. PICK n \in Int, k \in Nat : n = u.int /\ k = u.len
    BY <1>1
  <2>3. /\ {ToBytes(v.int, v.len) : v \in U} = {ToBytes(n, k)}
        /\ UNION {WithLength(ToBytes(v.int, v.len)) : v \in U} = WithLength(ToBytes(n, k))
    BY <2>1, <2>2
  <2>4. ToBytes(n, k) \in Seq(Byte)
    BY ToBytesType
  <2>5. ASSUME NEW w \in Nat PROVE Chunks(UintFixedWidth(num, w))
    <3>1. ToBytes(n, w) \in Seq(Byte)
      BY ToBytesType
    <3>2. UintFixedWidth(num, w) = {} \/ UintFixedWidth(num, w) = {ToBytes(n, w)}
      BY <2>1, <2>2 DEF UintFixedWidth, U
    <3> QED  BY <1>0, <3>1, <3>2, ChunkOf
  <2>6. Chunks({ToBytes(n, k)}) /\ Chunks(WithLength(ToBytes(n, k)))
    BY <2>4, ChunkOf, WithLengthBytes
  <2> QED  BY <1>3, <2>3, <2>5, <2>6 DEF U, UintBytes, BigUintBytes
<1> QED  BY <1>4, <1>5

LEMMA AtomBytes == ASSUME NEW a, LegalAtom(a) PROVE Chunks(AtomToBytes(a))
<1>1. CASE a.kind \in PlainKinds
  <2>1. <<>> \in Seq(Byte) /\ <<1>> \in Seq(Byte)
    <3>1. 1 \in Byte
      BY DEF Byte
    <3> QED  BY <3>1
  <2>2. AtomToBytes(a) = {<<>>} \/ AtomToBytes(a) = {<<1>>}
    BY <1>1, AtomCases DEF PlainKinds
  <2> QED  BY <2>1, <2>2, OneIsAtMostOne DEF Chunks
<1>2. CASE a.kind \in TextKinds /\ a.text \in Seq(Nat)
  <2>1. CASE a.kind = "str"
    <3>1. AtomToBytes(a) = AsciiBytes(a.text)
      BY <2>1, AtomCases
    <3>2. PICK t \in Seq(Nat) : t = a.text
      BY <1>2
    <3>3. CASE \E i \in DOMAIN t : t[i] > 127
      <4>1. AsciiBytes(t) = {}
        BY <3>3 DEF AsciiBytes, MaxAscii
      <4> QED  BY <3>1, <3>2, <4>1, OneIsAtMostOne DEF Chunks
    <3>4. CASE ~ \E i \in DOMAIN t : t[i] > 127
      <4>1. AsciiBytes(t) = {t}
        BY <3>4 DEF AsciiBytes, MaxAscii
      <4>2. Len(t) \in Nat /\ DOMAIN t = 1..Len(t) /\ \A i \in 1..Len(t) : t[i] \in Nat
        BY LenProperties
      <4>3. \A i \in 1..Len(t) : t[i] \in Byte
        <5>1. \A n \in Nat : ~ (n > 127) => n \in Byte
          BY DEF Byte
        <5> QED  BY <3>4, <4>2, <5>1
      <4>4. t \in Seq(Byte)
        <5>1. t = [i \in 1..Len(t) |-> t[i]]
          BY <4>2
        <5>2. t \in [1..Len(t) -> Byte]
          BY <4>3, <5>1
        <5> QED  BY <4>2, <5>2, SeqDef
      <4> QED  BY <3>1, <3>2, <4>1, <4>4, OneIsAtMostOne DEF Chunks
    <3> QED  BY <3>3, <3>4
  <2>2. CASE a.kind \in {"address", "sc"}
    <3>1. \/ AtomToBytes(a) = CreateAddressOptionalShardId(a.text, 0)
          \/ AtomToBytes(a) = CreateAddressOptionalShardId(a.text, 10)
      BY <2>2, AtomCases DEF AddressExpression, ScExpression, ScReservedPrefixLen
    <3> QED  BY <1>2, <3>1, AddressBytes
  <2> QED  BY <1>2, <2>1, <2>2 DEF TextKinds
<1>3. CASE a.kind \in NumberKinds /\ IsNumeral(a.num)
  <2>0. PICK num : num = a.num /\ IsNumeral(num)
    BY <1>3
  <2>1. CASE a.kind = "uint"
    BY <2>0, <2>1, AtomCases, NumberChunks
  <2>2. CASE a.kind = "biguint"
    BY <2>0, <2>2, AtomCases, NumberChunks
  <2>3. CASE a.kind \in {"+", "-"}
    <3>1. PICK sign \in {"+", "-"} : sign = a.kind
      BY <2>3
    <3>2. Chunks(SintBytes(sign, num))
      BY <2>0, NumberChunks
    <3> QED  BY <2>0, <2>3, <3>1, <3>2, AtomCases
  <2>4. CASE a.kind \in DOMAIN FixedWidth
    <3>1. PICK w \in Nat : w = FixedWidth[a.kind]
      BY <2>4, Widths
    <3>2. Chunks(UintFixedWidth(num, w))
      BY <2>0, NumberChunks
    <3> QED  BY <2>0, <2>4, <3>1, <3>2, AtomCases
  <2> QED  BY <1>3, <2>1, <2>2, <2>3, <2>4, Widths DEF NumberKinds
<1> QED  BY <1>1, <1>2, <1>3, AtomShape

(* ------------------------------- Segments -------------------------------- *)

PrefixStep(prefix, bytes) ==
  IF prefix = "nested" THEN InterpretNestedBytes(bytes) ELSE {Keccak256(b) : b \in bytes}

LEMMA KeccakBytes ==
  ASSUME NEW b \in Seq(Byte)
  PROVE  Keccak256(b) \in Seq(Byte) /\ Len(Keccak256(b)) = 32
<1>1. PICK n \in Nat : n = Len(b)
  BY LenProperties
<1>2. PICK k \in Nat : k = 32
  OBVIOUS
<1>3. Keccak256(b) = [i \in 1..k |-> (i + n) % 256]
  BY <1>1, <1>2 DEF Keccak256, AddressLength
<1>4. [i \in 1..k |-> (i + n) % 256] \in [1..k -> Byte]
  <2>1. ASSUME NEW i \in 1..k PROVE (i + n) % 256 \in Byte
    <3>1. PICK m \in Nat : m = i + n
      OBVIOUS
    <3>2. m % 256 \in 0..255
      OBVIOUS
    <3> QED  BY <3>1, <3>2 DEF Byte
  <2> QED  BY <2>1
<1>5. PICK h : h = Keccak256(b) /\ h \in [1..k -> Byte]
  BY <1>3, <1>4
<1>6. h \in Seq(Byte) /\ Len(h) = k
  BY <1>5, SeqDef, LenProperties
<1> QED  BY <1>2, <1>5, <1>6

LEMMA PrefixChunks ==
  ASSUME NEW prefix, NEW B, Chunks(B)
  PROVE  Chunks(PrefixStep(prefix, B))
<1>0. Chunks({})
  BY OneIsAtMostOne DEF Chunks
<1>1. CASE B = {}
  <2>1. InterpretNestedBytes(B) = {} /\ {Keccak256(b) : b \in B} = {}
    BY <1>1 DEF InterpretNestedBytes
  <2> QED  BY <1>0, <2>1 DEF PrefixStep
<1>2. CASE B # {}
  <2>1. PICK b \in Seq(Byte) : B = {b}
    BY <1>2, OneOrNone DEF Chunks
  <2>2. InterpretNestedBytes(B) = WithLength(b) /\ {Keccak256(c) : c \in B} = {Keccak256(b)}
    BY <2>1 DEF InterpretNestedBytes
  <2>3. Chunks(WithLength(b)) /\ Chunks({Keccak256(b)})
    BY WithLengthBytes, KeccakBytes, ChunkOf
  <2> QED  BY <2>2, <2>3 DEF PrefixStep
<1> QED  BY <1>1, <1>2

LegalSegment(s) ==
  /\ s \in SegmentRecord
  /\ "num" \in DOMAIN s.atom => IsNumeral(s.atom.num)

LEMMA SegmentShape ==
  ASSUME NEW s, LegalSegment(s)
  PROVE  /\ s.prefixes \in Seq({"nested", "keccak256"}) /\ LegalAtom(s.atom)
         /\ s = [prefixes |-> s.prefixes, atom |-> s.atom]
BY DEF LegalSegment, SegmentRecord, LegalAtom

IsSegmentFold(s, g) ==
  g = [x \in SUBSET DOMAIN Reverse(s.prefixes) |->
         IF x = {} THEN AtomToBytes(s.atom)
         ELSE PrefixStep(Reverse(s.prefixes)[Max(x)], g[x \ {Max(x)}])]

LEMMA SegmentChosen ==
  \A s : SegmentToBytes(s)
           = (CHOOSE g : IsSegmentFold(s, g))[DOMAIN Reverse(s.prefixes)]
BY DEF SegmentToBytes, FoldLeft, MapThenFoldSet, IsSegmentFold, PrefixStep

LEMMA ReverseIs ==
  ASSUME NEW S, NEW p \in Seq(S)
  PROVE  /\ DOMAIN Reverse(p) = 1..Len(p) /\ Len(p) \in Nat
         /\ \A i \in 1..Len(p) : Reverse(p)[i] = p[Len(p) - i + 1]
<1>1. Len(p) \in Nat /\ DOMAIN p = 1..Len(p)
  BY LenProperties
<1> QED  BY <1>1 DEF Reverse

(* t[i] is what the last i prefixes make of the atom.                        *)
SegmentTrace(s, t) ==
  /\ t[0] = AtomToBytes(s.atom)
  /\ \A i \in 1..Len(s.prefixes) :
       t[i] = PrefixStep(s.prefixes[Len(s.prefixes) - i + 1], t[i - 1])
  /\ \A i \in 0..Len(s.prefixes) : Chunks(t[i])

LEMMA SegmentSteps ==
  ASSUME NEW s, LegalSegment(s)
  PROVE  \E t : SegmentTrace(s, t) /\ SegmentToBytes(s) = t[Len(s.prefixes)]
<1>0. PICK p \in Seq({"nested", "keccak256"}) : p = s.prefixes
  BY SegmentShape
<1>1. PICK n \in Nat : p = s.prefixes /\ n = Len(p)
  BY <1>0, LenProperties
<1>2. PICK r : r = Reverse(p) /\ DOMAIN r = 1..n /\ \A i \in 1..n : r[i] = p[n - i + 1]
  BY <1>1, ReverseIs
<1>3. PICK b : b = AtomToBytes(s.atom) /\ Chunks(b)
  BY SegmentShape, AtomBytes
<1> DEFINE V == {B \in SUBSET Seq(Byte) : Chunks(B)}
           G == [q \in V \X (1..n) |-> PrefixStep(r[q[2]], q[1])]
<1>4. \A B \in V, i \in 1..n : G[<<B, i>>] = PrefixStep(r[i], B)
  OBVIOUS
<1>5. \A B : B \in V <=> Chunks(B)
  BY DEF Chunks
<1> HIDE DEF G, V
<1>6. b \in V /\ \A B \in V, i \in 1..n : G[<<B, i>>] \in V
  BY <1>3, <1>4, <1>5, PrefixChunks
<1>7. PICK g : FoldsUp(G, b, SUBSET (1..n), g)
  BY FoldExists
<1>8. \A x \in SUBSET (1..n) : g[x] \in V
  BY <1>6, <1>7, FoldIn
<1>9. IsSegmentFold(s, g)
  <2>1. ASSUME NEW x \in SUBSET (1..n)
        PROVE  FoldStep(G, b, g, x)
                 = IF x = {} THEN AtomToBytes(s.atom)
                   ELSE PrefixStep(Reverse(s.prefixes)[Max(x)], g[x \ {Max(x)}])
    <3>1. CASE x = {}
      BY <1>3, <3>1 DEF FoldStep
    <3>2. CASE x # {}
      <4>1. PICK m : m = Max(x) /\ m \in x
        BY <3>2, MaxIn
      <4>2. m \in 1..n /\ x \ {m} \in SUBSET (1..n)
        BY <4>1
      <4>3. PICK B \in V : B = g[x \ {m}]
        BY <1>8, <4>2
      <4>4. G[<<B, m>>] = PrefixStep(r[m], B)
        BY <1>4, <4>2
      <4> QED  BY <1>1, <1>2, <3>2, <4>1, <4>3, <4>4 DEF FoldStep
    <3> QED  BY <3>1, <3>2
  <2>2. g = [x \in SUBSET (1..n) |-> FoldStep(G, b, g, x)]
    BY <1>7, Zenon DEF FoldsUp
  <2>3. g = [x \in SUBSET (1..n) |->
               IF x = {} THEN AtomToBytes(s.atom)
               ELSE PrefixStep(Reverse(s.prefixes)[Max(x)], g[x \ {Max(x)}])]
    BY <2>1, <2>2, Zenon
  <2> QED  BY <1>1, <1>2, <2>3 DEF IsSegmentFold
<1> DEFINE h == CHOOSE f : IsSegmentFold(s, f)
           t == [i \in 0..n |-> h[1..i]]
<1>10. IsSegmentFold(s, h)
  BY <1>9
<1>11. SegmentToBytes(s) = h[1..n]
  BY <1>1, <1>2, SegmentChosen
<1> HIDE DEF h
<1>12. \A x \in SUBSET (1..n) :
         h[x] = IF x = {} THEN b ELSE PrefixStep(r[Max(x)], h[x \ {Max(x)}])
  BY <1>1, <1>2, <1>3, <1>10 DEF IsSegmentFold
<1>13. h[1..0] = b
  <2>1. 1..0 \in SUBSET (1..n) /\ 1..0 = {}
    OBVIOUS
  <2> QED  BY <1>12, <2>1
<1>14. ASSUME NEW i \in 1..n PROVE h[1..i] = PrefixStep(p[n - i + 1], h[1..(i - 1)])
  <2>0. PICK x : x = 1..i
    OBVIOUS
  <2>01. x \in SUBSET (1..n) /\ x # {} /\ Max(x) = i /\ x \ {i} = 1..(i - 1)
    BY <2>0, MaxUpTo
  <2>1. h[1..i] = PrefixStep(r[i], h[1..(i - 1)])
    BY <1>12, <2>0, <2>01
  <2> QED  BY <1>2, <2>1
<1>15. \A i \in 0..n : Chunks(h[1..i])
  <2> DEFINE Bad == {i \in Nat : i \in 0..n /\ ~ Chunks(h[1..i])}
  <2> HIDE DEF t
  <2> SUFFICES ASSUME Bad # {} PROVE FALSE
    OBVIOUS
  <2>1. PICK i \in Bad : \A j \in Bad : i <= j
    <3>1. Bad \in SUBSET Nat
      OBVIOUS
    <3> HIDE DEF Bad
    <3> QED  BY <3>1, LeastNat
  <2>2. i # 0
    BY <1>3, <1>13, <2>1
  <2>3. i \in 1..n /\ i - 1 \in 0..n /\ i - 1 \notin Bad
    BY <2>1, <2>2
  <2>4. Chunks(h[1..(i - 1)])
    BY <2>3
  <2>5. Chunks(PrefixStep(p[n - i + 1], h[1..(i - 1)]))
    BY <2>4, PrefixChunks
  <2> QED  BY <1>14, <2>1, <2>3, <2>5
<1>16. ASSUME NEW i \in 0..n PROVE t[i] = h[1..i]
  OBVIOUS
<1> HIDE DEF t
<1>17. SegmentTrace(s, t)
  <2>1. t[0] = AtomToBytes(s.atom)
    BY <1>3, <1>13, <1>16
  <2>2. ASSUME NEW i \in 1..n PROVE t[i] = PrefixStep(p[n - i + 1], t[i - 1])
    <3>1. i \in 0..n /\ i - 1 \in 0..n
      OBVIOUS
    <3>2. t[i] = h[1..i] /\ t[i - 1] = h[1..(i - 1)]
      BY <1>16, <3>1
    <3> QED  BY <1>14, <3>2
  <2>3. \A i \in 0..n : Chunks(t[i])
    BY <1>15, <1>16
  <2> QED  BY <1>1, <2>1, <2>2, <2>3 DEF SegmentTrace
<1>18. t[n] = h[1..n]
  BY <1>16
<1> QED  BY <1>1, <1>11, <1>17, <1>18

LEMMA SegmentChunks == ASSUME NEW s, LegalSegment(s) PROVE Chunks(SegmentToBytes(s))
<1>1. PICK t : SegmentTrace(s, t) /\ SegmentToBytes(s) = t[Len(s.prefixes)]
  BY SegmentSteps
<1>2. Len(s.prefixes) \in 0..Len(s.prefixes)
  BY SegmentShape, LenProperties
<1> QED  BY <1>1, <1>2 DEF SegmentTrace

LEMMA SegmentOfAtom ==
  ASSUME NEW s, LegalSegment(s), s.prefixes = <<>>
  PROVE  SegmentToBytes(s) = AtomToBytes(s.atom)
<1>1. PICK t : SegmentTrace(s, t) /\ SegmentToBytes(s) = t[Len(s.prefixes)]
  BY SegmentSteps
<1> QED  BY <1>1 DEF SegmentTrace

(* The first prefix is the outermost.                                        *)
LEMMA SegmentFirst ==
  ASSUME NEW s, LegalSegment(s), s.prefixes # <<>>
  PROVE  /\ LegalSegment(WithoutPrefix(s))
         /\ SegmentToBytes(s) = PrefixStep(Head(s.prefixes), SegmentToBytes(WithoutPrefix(s)))
<1>0. PICK p \in Seq({"nested", "keccak256"}) : p = s.prefixes
  BY SegmentShape
<1>1. PICK n \in Nat : p = s.prefixes /\ n = Len(p)
  BY <1>0, LenProperties
<1>01. PICK m \in Nat : m = n - 1 /\ m + 1 = n
  <2>1. n # 0
    BY <1>1, EmptySeq
  <2>2. n - 1 \in Nat /\ (n - 1) + 1 = n
    BY <2>1
  <2> QED  BY <2>2
<1>2. PICK q \in Seq({"nested", "keccak256"}) :
        /\ q = Tail(p) /\ Len(q) = m /\ Head(p) = p[1] /\ m + 1 = n
        /\ \A i \in 1..m : q[i] = p[i + 1]
  <2>1. /\ Tail(p) \in Seq({"nested", "keccak256"}) /\ Len(Tail(p)) = Len(p) - 1
        /\ Head(p) = p[1] /\ \A i \in 1..Len(Tail(p)) : Tail(p)[i] = p[i + 1]
    BY <1>1, HeadTailProperties
  <2> QED  BY <1>01, <1>1, <2>1
<1>3. PICK u : u = WithoutPrefix(s) /\ u = [prefixes |-> q, atom |-> s.atom]
  <2>1. s = [prefixes |-> p, atom |-> s.atom]
    BY <1>1, SegmentShape
  <2>2. [s EXCEPT !.prefixes = q] = [prefixes |-> q, atom |-> s.atom]
    BY <2>1
  <2>3. WithoutPrefix(s) = [s EXCEPT !.prefixes = q]
    BY <1>1, <1>2 DEF WithoutPrefix
  <2> QED  BY <2>2, <2>3
<1>4. LegalSegment(u)
  BY <1>2, <1>3 DEF LegalSegment, SegmentRecord
<1>5. PICK t : SegmentTrace(s, t) /\ SegmentToBytes(s) = t[n]
  BY <1>1, SegmentSteps
<1>6. PICK v : SegmentTrace(u, v) /\ SegmentToBytes(u) = v[m]
  BY <1>2, <1>3, <1>4, SegmentSteps
<1> DEFINE Bad == {i \in Nat : i \in 0..m /\ t[i] # v[i]}
<1>7. Bad = {}
  <2> SUFFICES ASSUME Bad # {} PROVE FALSE
    OBVIOUS
  <2>1. PICK i \in Bad : \A j \in Bad : i <= j
    <3>1. Bad \in SUBSET Nat
      OBVIOUS
    <3> HIDE DEF Bad
    <3> QED  BY <3>1, LeastNat
  <2>2. i # 0
    BY <1>3, <1>5, <1>6, <2>1 DEF SegmentTrace
  <2>3. i \in 1..m /\ i - 1 \in 0..m /\ i - 1 \notin Bad /\ i \in 1..n
    BY <1>2, <2>1, <2>2
  <2>4. t[i - 1] = v[i - 1]
    BY <2>3
  <2>5. m - i + 1 \in 1..m /\ (m - i + 1) + 1 = n - i + 1
    BY <1>2, <2>3
  <2>6. t[i] = PrefixStep(p[n - i + 1], t[i - 1])
    BY <1>1, <1>5, <2>3 DEF SegmentTrace
  <2>7. v[i] = PrefixStep(q[m - i + 1], v[i - 1])
    <3>1. u.prefixes = q /\ Len(u.prefixes) = m
      BY <1>2, <1>3
    <3> QED  BY <1>6, <2>3, <3>1 DEF SegmentTrace
  <2>8. q[m - i + 1] = p[n - i + 1]
    BY <1>2, <2>5
  <2> QED  BY <2>1, <2>4, <2>6, <2>7, <2>8
<1>8. t[m] = v[m]
  BY <1>7
<1>9. t[n] = PrefixStep(p[1], t[m])
  <2>1. n \in 1..n /\ n - n + 1 = 1 /\ n - 1 = m
    BY <1>2
  <2> QED  BY <1>1, <1>5, <2>1 DEF SegmentTrace
<1> QED  BY <1>1, <1>2, <1>3, <1>4, <1>5, <1>6, <1>8, <1>9

(* ------------------------------ Concatenation ---------------------------- *)

Pairs(A, B) == {a \o b : a \in A, b \in B}
IsConcatFold(r, g) ==
  g = [x \in SUBSET DOMAIN r |-> IF x = {} THEN {<<>>} ELSE Pairs(g[x \ {Max(x)}], r[Max(x)])]

LEMMA ConcatenationChosen ==
  \A r : Concatenation(r) = (CHOOSE g : IsConcatFold(r, g))[DOMAIN r]
BY DEF Concatenation, FoldLeft, MapThenFoldSet, IsConcatFold, Pairs

LEMMA PairsType ==
  ASSUME NEW A \in SUBSET Seq(Byte), NEW B \in SUBSET Seq(Byte)
  PROVE  Pairs(A, B) \in SUBSET Seq(Byte)
<1>1. \A a \in A, b \in B : a \o b \in Seq(Byte)
  BY ConcatProperties
<1> SUFFICES ASSUME NEW x \in Pairs(A, B) PROVE x \in Seq(Byte)
  OBVIOUS
<1>2. PICK a \in A, b \in B : x = a \o b
  BY DEF Pairs
<1> QED  BY <1>1, <1>2

Results(n, r) == DOMAIN r = 1..n /\ \A i \in 1..n : r[i] \in SUBSET Seq(Byte)

LEMMA ConcatenationSteps ==
  ASSUME NEW n \in Nat, NEW r, Results(n, r)
  PROVE  \E t : /\ t[0] = {<<>>} /\ Concatenation(r) = t[n]
                /\ \A i \in 1..n : t[i] = Pairs(t[i - 1], r[i])
                /\ \A i \in 0..n : t[i] \in SUBSET Seq(Byte)
<1>0. DOMAIN r = 1..n /\ \A i \in 1..n : r[i] \in SUBSET Seq(Byte)
  BY DEF Results
<1> DEFINE V == SUBSET Seq(Byte)
           G == [q \in V \X (1..n) |-> Pairs(q[1], r[q[2]])]
<1>1. \A B \in V, i \in 1..n : G[<<B, i>>] = Pairs(B, r[i])
  OBVIOUS
<1> HIDE DEF G
<1>2. {<<>>} \in V
  OBVIOUS
<1>3. \A B \in V, i \in 1..n : Pairs(B, r[i]) \in V
  BY <1>0, PairsType
<1> HIDE DEF V
<1>4. \A B \in V, i \in 1..n : G[<<B, i>>] \in V
  BY <1>1, <1>3
<1>5. PICK b : b = {<<>>} /\ b \in V
  BY <1>2
<1>6. PICK g : FoldsUp(G, b, SUBSET (1..n), g)
  BY FoldExists
<1>7. \A x \in SUBSET (1..n) : g[x] \in V
  BY <1>4, <1>5, <1>6, FoldIn
<1>8. IsConcatFold(r, g)
  <2>1. ASSUME NEW x \in SUBSET (1..n)
        PROVE  FoldStep(G, b, g, x)
                 = IF x = {} THEN {<<>>} ELSE Pairs(g[x \ {Max(x)}], r[Max(x)])
    <3>1. CASE x = {}
      BY <1>5, <3>1 DEF FoldStep
    <3>2. CASE x # {}
      <4>1. PICK m : m = Max(x) /\ m \in x
        BY <3>2, MaxIn
      <4>2. m \in 1..n /\ x \ {m} \in SUBSET (1..n)
        BY <4>1
      <4>3. PICK B \in V : B = g[x \ {m}]
        BY <1>7, <4>2
      <4>4. G[<<B, m>>] = Pairs(B, r[m])
        BY <1>1, <4>2
      <4> QED  BY <3>2, <4>1, <4>3, <4>4 DEF FoldStep
    <3> QED  BY <3>1, <3>2
  <2>2. g = [x \in SUBSET (1..n) |-> FoldStep(G, b, g, x)]
    BY <1>6, Zenon DEF FoldsUp
  <2>3. g = [x \in SUBSET (1..n) |->
               IF x = {} THEN {<<>>} ELSE Pairs(g[x \ {Max(x)}], r[Max(x)])]
    BY <2>1, <2>2, Zenon
  <2> QED  BY <1>0, <2>3 DEF IsConcatFold
<1> DEFINE h == CHOOSE f : IsConcatFold(r, f)
           t == [i \in 0..n |-> h[1..i]]
<1>10. IsConcatFold(r, h)
  BY <1>8
<1>11. Concatenation(r) = h[1..n]
  BY <1>0, ConcatenationChosen
<1> HIDE DEF h
<1>12. \A x \in SUBSET (1..n) :
         h[x] = IF x = {} THEN {<<>>} ELSE Pairs(h[x \ {Max(x)}], r[Max(x)])
  BY <1>0, <1>10 DEF IsConcatFold
<1>13. h[1..0] = {<<>>}
  <2>1. 1..0 \in SUBSET (1..n) /\ 1..0 = {}
    OBVIOUS
  <2> QED  BY <1>12, <2>1
<1>14. ASSUME NEW i \in 1..n PROVE h[1..i] = Pairs(h[1..(i - 1)], r[i])
  <2>0. PICK x : x = 1..i
    OBVIOUS
  <2>1. x \in SUBSET (1..n) /\ x # {} /\ Max(x) = i /\ x \ {i} = 1..(i - 1)
    BY <2>0, MaxUpTo
  <2> QED  BY <1>12, <2>0, <2>1
<1>15. \A i \in 0..n : h[1..i] \in V
  <2> DEFINE Bad == {i \in Nat : i \in 0..n /\ h[1..i] \notin V}
  <2> HIDE DEF t
  <2> SUFFICES ASSUME Bad # {} PROVE FALSE
    OBVIOUS
  <2>1. PICK i \in Bad : \A j \in Bad : i <= j
    <3>1. Bad \in SUBSET Nat
      OBVIOUS
    <3> HIDE DEF Bad
    <3> QED  BY <3>1, LeastNat
  <2>2. i # 0
    BY <1>2, <1>13, <2>1
  <2>3. i \in 1..n /\ i - 1 \in 0..n /\ i - 1 \notin Bad
    BY <2>1, <2>2
  <2>4. h[1..(i - 1)] \in V
    BY <2>3
  <2>5. Pairs(h[1..(i - 1)], r[i]) \in V
    BY <1>3, <2>3, <2>4
  <2> QED  BY <1>14, <2>1, <2>3, <2>5
<1>16. ASSUME NEW i \in 0..n PROVE t[i] = h[1..i]
  OBVIOUS
<1> HIDE DEF t
<1>17. t[0] = {<<>>} /\ t[n] = h[1..n]
  BY <1>13, <1>16
<1>18. ASSUME NEW i \in 1..n PROVE t[i] = Pairs(t[i - 1], r[i])
  <2>1. i \in 0..n /\ i - 1 \in 0..n
    OBVIOUS
  <2>2. t[i] = h[1..i] /\ t[i - 1] = h[1..(i - 1)]
    BY <1>16, <2>1
  <2> QED  BY <1>14, <2>2
<1>19. \A i \in 0..n : t[i] \in V
  BY <1>15, <1>16
<1> QED  BY <1>11, <1>17, <1>18, <1>19 DEF V

LEMMA ConcatenationOne ==
  ASSUME NEW r, DOMAIN r = 1..1, r[1] \in SUBSET Seq(Byte)
  PROVE  Concatenation(r) = r[1]
<1>1. PICK n \in Nat : n = 1
  OBVIOUS
<1>2. Results(n, r)
  BY <1>1 DEF Results
<1>3. PICK t : /\ t[0] = {<<>>} /\ Concatenation(r) = t[n]
               /\ \A i \in 1..n : t[i] = Pairs(t[i - 1], r[i])
  BY <1>2, ConcatenationSteps
<1>4. t[1] = Pairs(t[0], r[1])
  <2>1. n \in 1..n /\ n - 1 = 0
    BY <1>1
  <2> QED  BY <1>1, <1>3, <2>1
<1>5. Pairs({<<>>}, r[1]) = r[1]
  <2>1. \A b \in r[1] : <<>> \o b = b
    BY ConcatEmptySeq
  <2> QED  BY <2>1 DEF Pairs
<1> QED  BY <1>1, <1>3, <1>4, <1>5

(* ------------------------------- Arguments ------------------------------- *)

Sorts(keys, n, s) ==
  s \in [1..n -> keys] /\ \A i, j \in 1..n : i < j => s[i] < s[j]

(* A finite set of numbers can be sorted: take the least one first.          *)
AreKeys(keys) == IsFiniteSet(keys) /\ keys \in SUBSET Nat

LEMMA SortedExists ==
  ASSUME NEW keys, AreKeys(keys)
  PROVE  \E s : Sorts(keys, Cardinality(keys), s)
<1>0. IsFiniteSet(keys)
  BY DEF AreKeys
<1> DEFINE Bad == {x \in SUBSET keys : ~ \E s : Sorts(x, Cardinality(x), s)}
<1>1. Bad = {}
  <2> SUFFICES ASSUME Bad # {} PROVE FALSE
    OBVIOUS
  <2>1. PICK x \in Bad : \A y \in Bad : ~ (y \subseteq x /\ y # x)
    <3>1. Bad \in SUBSET (SUBSET keys)
      OBVIOUS
    <3> HIDE DEF Bad
    <3> QED  BY <1>0, <3>1, LeastSubset
  <2>2. x \in SUBSET keys /\ x \in SUBSET Nat /\ IsFiniteSet(x)
    BY <1>0, <2>1, FS_Subset DEF AreKeys
  <2>3. CASE x = {}
    <3>1. Cardinality(x) = 0
      BY <2>3, FS_EmptySet
    <3>2. Sorts(x, 0, [i \in 1..0 |-> 0])
      BY <2>3 DEF Sorts
    <3> QED  BY <2>1, <3>1, <3>2
  <2>4. CASE x # {}
    <3>1. PICK k \in x : \A j \in x : k <= j
      BY <2>2, <2>4, LeastNat
    <3>2. PICK y : y = x \ {k}
      OBVIOUS
    <3>3. y \notin Bad /\ y \in SUBSET keys
      BY <2>1, <2>2, <3>1, <3>2
    <3>4. IsFiniteSet(y) /\ Cardinality(y) = Cardinality(x) - 1
      BY <2>2, <3>1, <3>2, FS_RemoveElement
    <3>5. PICK n \in Nat : n = Cardinality(y) /\ Cardinality(x) = n + 1
      BY <2>2, <3>4, FS_CardinalityType
    <3>6. PICK s : Sorts(y, n, s)
      BY <3>3, <3>5
    <3> DEFINE u == [i \in 1..(n + 1) |-> IF i = 1 THEN k ELSE s[i - 1]]
    <3>7. \A i \in 1..n : s[i] \in y /\ s[i] \in x /\ s[i] \in Nat
      BY <2>2, <3>2, <3>6 DEF Sorts
    <3>8. \A i \in 1..(n + 1) : i # 1 => i - 1 \in 1..n
      OBVIOUS
    <3>9. \A i \in 1..(n + 1) : u[i] = IF i = 1 THEN k ELSE s[i - 1]
      OBVIOUS
    <3>10. u \in [1..(n + 1) -> x]
      BY <3>7, <3>8
    <3> HIDE DEF u
    <3>11. ASSUME NEW i \in 1..(n + 1), NEW j \in 1..(n + 1), i < j PROVE u[i] < u[j]
      <4>1. j # 1 /\ u[j] = s[j - 1] /\ j - 1 \in 1..n
        BY <3>8, <3>9, <3>11
      <4>2. CASE i = 1
        <5>1. u[i] = k /\ k \in Nat
          BY <2>2, <3>9, <4>2
        <5>2. s[j - 1] \in y /\ s[j - 1] \in x /\ s[j - 1] \in Nat
          BY <3>7, <4>1
        <5>3. k <= s[j - 1] /\ s[j - 1] # k
          BY <3>1, <3>2, <5>2
        <5> QED  BY <4>1, <5>1, <5>2, <5>3
      <4>3. CASE i # 1
        <5>1. u[i] = s[i - 1] /\ i - 1 \in 1..n /\ i - 1 < j - 1
          BY <3>8, <3>9, <3>11, <4>3
        <5> QED  BY <3>6, <4>1, <5>1 DEF Sorts
      <4> QED  BY <4>2, <4>3
    <3>12. Sorts(x, n + 1, u)
      BY <3>10, <3>11 DEF Sorts
    <3> QED  BY <2>1, <3>5, <3>12
  <2> QED  BY <2>3, <2>4
<1>2. keys \in SUBSET keys
  OBVIOUS
<1> QED  BY <1>1, <1>2

LEMMA SortedType ==
  ASSUME NEW keys, AreKeys(keys)
  PROVE  Cardinality(keys) \in Nat /\ Sorted(keys) \in [1..Cardinality(keys) -> keys]
<1>1. Cardinality(keys) \in Nat
  BY FS_CardinalityType DEF AreKeys
<1>2. \E s \in [1..Cardinality(keys) -> keys] :
        \A i, j \in 1..Cardinality(keys) : i < j => s[i] < s[j]
  BY SortedExists DEF Sorts
<1> QED  BY <1>1, <1>2 DEF Sorted

LEMMA PartsAre ==
  ASSUME NEW arg \in Elements, arg.kind # "string"
  PROVE  \E n \in Nat : /\ DOMAIN Parts(arg) = 1..n
                        /\ \A i \in 1..n : /\ Parts(arg)[i] \in Elements
                                           /\ Depth[Parts(arg)[i]] < Depth[arg]
<1>1. \E n \in Nat : DOMAIN Parts(arg) = 1..n /\ \A i \in 1..n : Parts(arg)[i] \in Elements
  <2>1. arg \in [kind : {"list"}, elems : Seq(Elements)] \/ IsDict(arg)
    BY LiteralsAssumption DEF IsString
  <2>2. CASE arg \in [kind : {"list"}, elems : Seq(Elements)]
    <3>1. arg.kind = "list" /\ arg.elems \in Seq(Elements)
      BY <2>2
    <3>2. Parts(arg) = arg.elems
      BY <3>1 DEF Parts
    <3> QED  BY <3>1, <3>2, LenProperties
  <2>3. CASE IsDict(arg)
    <3>1. PICK keys : /\ keys = DOMAIN arg.fields /\ AreKeys(keys)
                      /\ \A key \in keys : arg.fields[key] \in Elements
      BY <2>3 DEF IsDict, AreKeys
    <3>2. PICK n \in Nat : n = Cardinality(keys) /\ Sorted(keys) \in [1..n -> keys]
      BY <3>1, SortedType
    <3>3. Parts(arg) = [i \in 1..n |-> arg.fields[Sorted(keys)[i]]]
      BY <2>3, <3>1, <3>2 DEF Parts, IsDict
    <3> QED  BY <3>1, <3>2, <3>3
  <2> QED  BY <2>1, <2>2, <2>3
<1>2. \A i \in DOMAIN Parts(arg) : Depth[Parts(arg)[i]] < Depth[arg]
  BY LiteralsAssumption
<1> QED  BY <1>1, <1>2

(* The interpretation of an argument, given those of its parts.              *)
ArgumentOf(f, arg) ==
  IF arg.kind = "string" THEN MandosStringToBytes(arg.segments)
  ELSE Concatenation([i \in DOMAIN Parts(arg) |-> f[Parts(arg)[i]]])
ArgumentsOn(D, f) == f = [arg \in D |-> ArgumentOf(f, arg)]
Below(n) == {arg \in Elements : Depth[arg] < n}

LEMMA ArgumentAlike ==
  ASSUME NEW arg \in Elements, NEW f, NEW g,
         \A part \in Below(Depth[arg]) : f[part] = g[part]
  PROVE  ArgumentOf(f, arg) = ArgumentOf(g, arg)
<1>1. CASE arg.kind = "string"
  BY <1>1 DEF ArgumentOf
<1>2. CASE arg.kind # "string"
  <2>1. PICK n \in Nat : /\ DOMAIN Parts(arg) = 1..n
                         /\ \A i \in 1..n : /\ Parts(arg)[i] \in Elements
                                            /\ Depth[Parts(arg)[i]] < Depth[arg]
    BY <1>2, PartsAre
  <2>2. \A i \in DOMAIN Parts(arg) : f[Parts(arg)[i]] = g[Parts(arg)[i]]
    BY <2>1 DEF Below
  <2>3. [i \in DOMAIN Parts(arg) |-> f[Parts(arg)[i]]]
          = [i \in DOMAIN Parts(arg) |-> g[Parts(arg)[i]]]
    BY <2>2, Zenon
  <2> QED  BY <1>2, <2>3 DEF ArgumentOf
<1> QED  BY <1>1, <1>2

LEMMA DepthIsNat == \A arg \in Elements : Depth[arg] \in Nat
  BY LiteralsAssumption

LEMMA ArgumentsAlike ==
  ASSUME NEW k \in Nat, NEW f, ArgumentsOn(Below(k), f),
         NEW l \in Nat, NEW g, ArgumentsOn(Below(l), g)
  PROVE  \A arg \in Below(k) : arg \in Below(l) => f[arg] = g[arg]
<1> DEFINE Bad == {d \in Nat : \E arg \in Elements : /\ Depth[arg] = d
                                                     /\ arg \in Below(k) /\ arg \in Below(l)
                                                     /\ f[arg] # g[arg]}
<1>1. Bad = {}
  <2> SUFFICES ASSUME Bad # {} PROVE FALSE
    OBVIOUS
  <2>1. PICK d \in Bad : \A e \in Bad : d <= e
    <3>1. Bad \in SUBSET Nat
      OBVIOUS
    <3> HIDE DEF Bad
    <3> QED  BY <3>1, LeastNat
  <2>2. PICK arg \in Elements : /\ Depth[arg] = d /\ arg \in Below(k) /\ arg \in Below(l)
                                /\ f[arg] # g[arg]
    BY <2>1
  <2>3. ASSUME NEW part \in Below(Depth[arg]) PROVE f[part] = g[part]
    <3>1. part \in Elements /\ Depth[part] < d /\ Depth[part] \in Nat
      BY <2>2, DepthIsNat DEF Below
    <3>2. d \in Nat /\ d < k /\ d < l
      BY <2>1, <2>2 DEF Below
    <3>3. part \in Below(k) /\ part \in Below(l)
      BY <3>1, <3>2 DEF Below
    <3>4. Depth[part] \notin Bad
      BY <2>1, <3>1, <3>2
    <3> QED  BY <3>1, <3>3, <3>4
  <2>4. ArgumentOf(f, arg) = ArgumentOf(g, arg)
    BY <2>3, ArgumentAlike
  <2>5. f[arg] = ArgumentOf(f, arg)
    BY <2>2, Zenon DEF ArgumentsOn
  <2>6. g[arg] = ArgumentOf(g, arg)
    BY <2>2, Zenon DEF ArgumentsOn
  <2> QED  BY <2>2, <2>4, <2>5, <2>6
<1> QED  BY <1>1, DepthIsNat DEF Below

LEMMA ArgumentsBelow == ASSUME NEW n \in Nat PROVE \E f : ArgumentsOn(Below(n), f)
<1> DEFINE Missing == {k \in Nat : ~ \E f : ArgumentsOn(Below(k), f)}
<1>1. Missing = {}
  <2> SUFFICES ASSUME Missing # {} PROVE FALSE
    OBVIOUS
  <2>1. PICK k \in Missing : \A m \in Missing : k <= m
    <3>1. Missing \in SUBSET Nat
      OBVIOUS
    <3> HIDE DEF Missing
    <3> QED  BY <3>1, LeastNat
  <2>2. k \in Nat /\ ~ \E f : ArgumentsOn(Below(k), f)
    BY <2>1
  <2>3. CASE k = 0
    <3>1. Below(k) = {}
      BY <2>3, DepthIsNat DEF Below
    <3> DEFINE h == [arg \in {} |-> {}]
    <3>2. h = [arg \in {} |-> ArgumentOf(h, arg)]
      OBVIOUS
    <3> HIDE DEF h
    <3>3. ArgumentsOn({}, h)
      BY <3>2 DEF ArgumentsOn
    <3> QED  BY <2>2, <3>1, <3>3
  <2>4. CASE k # 0
    <3>1. PICK m \in Nat : m = k - 1 /\ m \notin Missing
      BY <2>1, <2>4
    <3>2. PICK g : ArgumentsOn(Below(m), g)
      BY <3>1
    <3> HIDE DEF Missing
    <3>3. \A arg \in Below(m) : g[arg] = ArgumentOf(g, arg)
      BY <3>2, Zenon DEF ArgumentsOn
    <3> DEFINE h == [arg \in Below(k) |-> ArgumentOf(g, arg)]
    <3>4. \A arg \in Below(m) : arg \in Below(k)
      BY <2>2, <3>1, DepthIsNat DEF Below
    <3>5. \A arg \in Below(m) : h[arg] = g[arg]
      BY <3>3, <3>4, Zenon
    <3>6. \A arg \in Below(k) : h[arg] = ArgumentOf(g, arg)
      OBVIOUS
    <3>7. h = [arg \in Below(k) |-> h[arg]]
      OBVIOUS
    <3> HIDE DEF h
    <3>8. ASSUME NEW arg \in Below(k) PROVE ArgumentOf(g, arg) = ArgumentOf(h, arg)
      <4>1. arg \in Elements /\ Depth[arg] \in Nat /\ Depth[arg] <= m
        BY <2>2, <3>1, DepthIsNat DEF Below
      <4>2. ASSUME NEW part \in Below(Depth[arg]) PROVE g[part] = h[part]
        <5>1. part \in Below(m)
          BY <3>1, <4>1, DepthIsNat DEF Below
        <5> QED  BY <3>5, <5>1
      <4> QED  BY <4>1, <4>2, ArgumentAlike
    <3>9. \A arg \in Below(k) : h[arg] = ArgumentOf(h, arg)
      BY <3>6, <3>8
    <3>10. ArgumentsOn(Below(k), h)
      BY <3>7, <3>9, Zenon DEF ArgumentsOn
    <3> QED  BY <2>2, <3>10
  <2> QED  BY <2>3, <2>4
<1> QED  BY <1>1

LEMMA ArgumentsChosen ==
  (\E f : ArgumentsOn(Elements, f)) => ArgumentsOn(Elements, MandosArgumentToBytes)
<1> DEFINE F == CHOOSE f : ArgumentsOn(Elements, f)
<1>1. MandosArgumentToBytes = F
  BY DEF MandosArgumentToBytes, ArgumentsOn, ArgumentOf
<1>2. (\E f : ArgumentsOn(Elements, f)) => ArgumentsOn(Elements, F)
  OBVIOUS
<1> QED  BY <1>1, <1>2

(* mandos_argument_to_bytes is what its branches say of it.                  *)
LEMMA ArgumentsAre ==
  \A arg \in Elements : MandosArgumentToBytes[arg] = ArgumentOf(MandosArgumentToBytes, arg)
<1> DEFINE At(n) == CHOOSE f : ArgumentsOn(Below(n), f)
           h == [arg \in Elements |-> At(Depth[arg] + 1)[arg]]
<1>1. ASSUME NEW n \in Nat PROVE ArgumentsOn(Below(n), At(n))
  BY ArgumentsBelow
<1>2. \A arg \in Elements : h[arg] = At(Depth[arg] + 1)[arg]
  OBVIOUS
<1>3. h = [arg \in Elements |-> h[arg]]
  OBVIOUS
<1> HIDE DEF h, At
<1>4. ASSUME NEW arg \in Elements PROVE h[arg] = ArgumentOf(h, arg)
  <2>1. PICK d \in Nat : d = Depth[arg]
    BY DepthIsNat
  <2>2. PICK g : g = At(d + 1) /\ ArgumentsOn(Below(d + 1), g)
    <3>1. d + 1 \in Nat
      OBVIOUS
    <3> QED  BY <1>1, <3>1
  <2>3. arg \in Below(d + 1)
    BY <2>1 DEF Below
  <2>4. h[arg] = g[arg]
    BY <1>2, <2>1, <2>2
  <2>5. g[arg] = ArgumentOf(g, arg)
    BY <2>2, <2>3, Zenon DEF ArgumentsOn
  <2>6. ASSUME NEW part \in Below(Depth[arg]) PROVE g[part] = h[part]
    <3>1. PICK e \in Nat : e = Depth[part] /\ part \in Elements /\ e < d
      BY <2>1, DepthIsNat DEF Below
    <3>2. part \in Below(e + 1) /\ part \in Below(d + 1)
      BY <3>1 DEF Below
    <3>3. PICK f : f = At(e + 1) /\ ArgumentsOn(Below(e + 1), f)
      <4>1. e + 1 \in Nat
        OBVIOUS
      <4> QED  BY <1>1, <4>1
    <3>4. h[part] = f[part]
      BY <1>2, <3>1, <3>3
    <3>5. PICK k \in Nat : k = e + 1
      OBVIOUS
    <3>6. PICK l \in Nat : l = d + 1
      OBVIOUS
    <3>7. f[part] = g[part]
      BY <2>2, <3>2, <3>3, <3>5, <3>6, ArgumentsAlike
    <3> QED  BY <3>4, <3>7
  <2>7. ArgumentOf(g, arg) = ArgumentOf(h, arg)
    BY <2>6, ArgumentAlike
  <2> QED  BY <2>4, <2>5, <2>7
<1>5. ArgumentsOn(Elements, h)
  BY <1>3, <1>4, Zenon DEF ArgumentsOn
<1>6. ArgumentsOn(Elements, MandosArgumentToBytes)
  BY <1>5, ArgumentsChosen
<1> DEFINE m == MandosArgumentToBytes
<1> HIDE DEF m
<1>7. \A arg \in Elements : m[arg] = ArgumentOf(m, arg)
  BY <1>6, Zenon DEF ArgumentsOn, m
<1> QED  BY <1>7 DEF m

LEMMA StringSegments ==
  ASSUME NEW arg \in Elements, arg.kind = "string"
  PROVE  \E n \in Nat : /\ n = Len(arg.segments) /\ DOMAIN arg.segments = 1..n
                        /\ \A i \in 1..n : LegalSegment(arg.segments[i])
                        /\ arg = [kind |-> "string", segments |-> arg.segments]
<1>1. IsString(arg)
  BY LiteralsAssumption DEF IsDict
<1>2. /\ arg.segments \in Seq(SegmentRecord)
      /\ arg = [kind |-> "string", segments |-> arg.segments]
  BY <1>1 DEF IsString
<1>3. PICK n \in Nat : n = Len(arg.segments) /\ DOMAIN arg.segments = 1..n
  BY <1>2, LenProperties
<1>4. ASSUME NEW i \in 1..n PROVE LegalSegment(arg.segments[i])
  <2>1. arg.segments[i] \in SegmentRecord
    BY <1>2, <1>3, ElementOfSeq
  <2> QED  BY <1>1, <1>3, <2>1 DEF IsString, LegalSegment
<1> QED  BY <1>2, <1>3, <1>4

LEMMA ArgumentType ==
  ASSUME NEW arg \in Elements, NEW f,
         \A part \in Below(Depth[arg]) : f[part] \in SUBSET Seq(Byte)
  PROVE  ArgumentOf(f, arg) \in SUBSET Seq(Byte)
<1>0. ASSUME NEW n \in Nat, NEW r, Results(n, r) PROVE Concatenation(r) \in SUBSET Seq(Byte)
  <2>1. PICK t : Concatenation(r) = t[n] /\ \A i \in 0..n : t[i] \in SUBSET Seq(Byte)
    BY <1>0, ConcatenationSteps
  <2>2. n \in 0..n
    OBVIOUS
  <2> QED  BY <2>1, <2>2
<1>1. CASE arg.kind = "string"
  <2>1. PICK n \in Nat : /\ DOMAIN arg.segments = 1..n
                         /\ \A i \in 1..n : LegalSegment(arg.segments[i])
    BY <1>1, StringSegments
  <2>2. PICK r : r = [i \in DOMAIN arg.segments |-> SegmentToBytes(arg.segments[i])]
    OBVIOUS
  <2>3. ArgumentOf(f, arg) = Concatenation(r)
    BY <1>1, <2>2 DEF ArgumentOf, MandosStringToBytes
  <2>4. ASSUME NEW i \in 1..n PROVE r[i] \in SUBSET Seq(Byte)
    <3>1. r[i] = SegmentToBytes(arg.segments[i])
      BY <2>1, <2>2
    <3>2. Chunks(SegmentToBytes(arg.segments[i]))
      BY <2>1, SegmentChunks
    <3> QED  BY <3>1, <3>2 DEF Chunks
  <2>5. DOMAIN r = 1..n
    BY <2>1, <2>2
  <2>6. Results(n, r)
    BY <2>4, <2>5 DEF Results
  <2> QED  BY <1>0, <2>3, <2>6
<1>2. CASE arg.kind # "string"
  <2>1. PICK n \in Nat : /\ DOMAIN Parts(arg) = 1..n
                         /\ \A i \in 1..n : /\ Parts(arg)[i] \in Elements
                                            /\ Depth[Parts(arg)[i]] < Depth[arg]
    BY <1>2, PartsAre
  <2>2. PICK r : r = [i \in DOMAIN Parts(arg) |-> f[Parts(arg)[i]]]
    OBVIOUS
  <2>3. ArgumentOf(f, arg) = Concatenation(r)
    BY <1>2, <2>2 DEF ArgumentOf
  <2>4. ASSUME NEW i \in 1..n PROVE r[i] \in SUBSET Seq(Byte)
    <3>1. r[i] = f[Parts(arg)[i]]
      BY <2>1, <2>2
    <3>2. Parts(arg)[i] \in Below(Depth[arg])
      BY <2>1 DEF Below
    <3> QED  BY <3>1, <3>2
  <2>5. DOMAIN r = 1..n
    BY <2>1, <2>2
  <2>6. Results(n, r)
    BY <2>4, <2>5 DEF Results
  <2> QED  BY <1>0, <2>3, <2>6
<1> QED  BY <1>1, <1>2

(* Arguments are interpreted as bytes.                                       *)
LEMMA ArgumentsType == \A arg \in Elements : MandosArgumentToBytes[arg] \in SUBSET Seq(Byte)
<1> DEFINE m == MandosArgumentToBytes
           Bad == {d \in Nat : \E arg \in Elements : /\ Depth[arg] = d
                                                     /\ m[arg] \notin SUBSET Seq(Byte)}
<1>0. \A arg \in Elements : m[arg] = ArgumentOf(m, arg)
  BY ArgumentsAre
<1> HIDE DEF m
<1>1. Bad = {}
  <2> SUFFICES ASSUME Bad # {} PROVE FALSE
    OBVIOUS
  <2>1. PICK d \in Bad : \A e \in Bad : d <= e
    <3>1. Bad \in SUBSET Nat
      OBVIOUS
    <3> HIDE DEF Bad
    <3> QED  BY <3>1, LeastNat
  <2>2. PICK arg \in Elements : Depth[arg] = d /\ m[arg] \notin SUBSET Seq(Byte)
    BY <2>1
  <2>3. ASSUME NEW part \in Below(Depth[arg]) PROVE m[part] \in SUBSET Seq(Byte)
    <3>1. part \in Elements /\ Depth[part] < d /\ Depth[part] \in Nat /\ d \in Nat
      BY <2>1, <2>2, DepthIsNat DEF Below
    <3>2. Depth[part] \notin Bad
      BY <2>1, <3>1
    <3> QED  BY <3>1, <3>2
  <2>4. ArgumentOf(m, arg) \in SUBSET Seq(Byte)
    BY <2>3, ArgumentType
  <2> QED  BY <1>0, <2>2, <2>4
<1>2. \A arg \in Elements : m[arg] \in SUBSET Seq(Byte)
  BY <1>1, DepthIsNat
<1> QED  BY <1>2 DEF m

(* An argument of one segment is that segment.                               *)
LEMMA SegmentArgument ==
  ASSUME NEW arg \in Elements, IsSegment(arg)
  PROVE  /\ LegalSegment(Segment(arg))
         /\ MandosArgumentToBytes[arg] = SegmentToBytes(Segment(arg))
         /\ arg = [kind |-> "string", segments |-> <<Segment(arg)>>]
<1>1. PICK n \in Nat : /\ n = Len(arg.segments) /\ DOMAIN arg.segments = 1..n
                       /\ \A i \in 1..n : LegalSegment(arg.segments[i])
                       /\ arg = [kind |-> "string", segments |-> arg.segments]
  BY StringSegments DEF IsSegment
<1>2. n = 1 /\ arg.kind = "string" /\ DOMAIN arg.segments = 1..1
  BY <1>1 DEF IsSegment
<1>3. LegalSegment(arg.segments[1]) /\ Segment(arg) = arg.segments[1]
  BY <1>1, <1>2 DEF Segment
<1>4. arg.segments = <<Segment(arg)>>
  <2>1. arg.segments \in Seq(SegmentRecord)
    <3>1. IsString(arg)
      BY <1>2, LiteralsAssumption DEF IsDict
    <3> QED  BY <3>1 DEF IsString
  <2> QED  BY <1>1, <1>2, <1>3, <2>1
<1>5. PICK r : r = [i \in DOMAIN arg.segments |-> SegmentToBytes(arg.segments[i])]
  OBVIOUS
<1>6. MandosArgumentToBytes[arg] = Concatenation(r)
  <2>1. MandosArgumentToBytes[arg] = ArgumentOf(MandosArgumentToBytes, arg)
    BY ArgumentsAre
  <2> QED  BY <1>2, <1>5, <2>1 DEF ArgumentOf, MandosStringToBytes
<1>7. DOMAIN r = 1..1 /\ r[1] = SegmentToBytes(Segment(arg))
  BY <1>2, <1>3, <1>5
<1>8. r[1] \in SUBSET Seq(Byte)
  BY <1>3, <1>7, SegmentChunks DEF Chunks
<1>9. MandosArgumentToBytes[arg] = SegmentToBytes(Segment(arg))
  BY <1>6, <1>7, <1>8, ConcatenationOne
<1> QED  BY <1>1, <1>3, <1>4, <1>9

(* ------------------------- Reading one argument back --------------------- *)

LEMMA WidthCases ==
  ASSUME NEW arg
  PROVE  /\ HasLength(arg) =>
              \A bytes : Width(arg, bytes) = 4 + BytesToUint(TakeFirst(bytes, 4))
         /\ ~ HasLength(arg) /\ IsFixed(arg) =>
              \A bytes : Width(arg, bytes) = FixedWidth[Atom(arg).kind]
         /\ ~ HasLength(arg) /\ ~ IsFixed(arg) =>
              \A bytes : Width(arg, bytes) = 32
<1>1. IsFixed(arg) /\ HasLength(arg) => FALSE
  <2>1. "biguint" \notin DOMAIN FixedWidth
    BY Widths
  <2> QED  BY <2>1 DEF IsFixed, HasLength
<1>2. HasLength(arg) => \A bytes : Width(arg, bytes) = 4 + BytesToUint(TakeFirst(bytes, 4))
  BY <1>1 DEF Width
<1>3. ~ HasLength(arg) /\ IsFixed(arg) =>
        \A bytes : Width(arg, bytes) = FixedWidth[Atom(arg).kind]
  BY DEF Width
<1>4. ~ HasLength(arg) /\ ~ IsFixed(arg) => \A bytes : Width(arg, bytes) = 32
  BY DEF Width, AddressLength
<1> QED  BY <1>2, <1>3, <1>4

LEMMA MeansCases ==
  ASSUME NEW arg, NEW chunk
  PROVE  /\ IsFixed(arg) =>
              (Means(chunk, arg) <=> BytesToUint(chunk) = NumValue(Atom(arg).num))
         /\ IsAtom(arg) /\ HasLength(arg) =>
              (Means(chunk, arg) <=> BytesToUint(Drop(chunk, 4)) = NumValue(Atom(arg).num))
         /\ ~ IsAtom(arg) /\ HasLength(arg) =>
              (Means(chunk, arg)
                 <=> SegmentToBytes(WithoutPrefix(Segment(arg))) = {Drop(chunk, 4)})
         /\ ~ HasLength(arg) /\ ~ IsFixed(arg) => Means(chunk, arg)
<1>1. IsFixed(arg) => IsAtom(arg)
  BY DEF IsFixed
<1>2. IsAtom(arg) /\ HasLength(arg) => ~ IsFixed(arg)
  <2>1. "biguint" \notin DOMAIN FixedWidth
    BY Widths
  <2> QED  BY <2>1 DEF IsFixed, HasLength
<1> QED  BY <1>1, <1>2 DEF Means

(* A chunk of which a reader can find the end.                               *)
Readable(arg, c) ==
  /\ c \in Seq(Byte) /\ Len(c) \in Nat
  /\ HasLength(arg) => Len(c) >= 4 /\ 4 + BytesToUint(TakeFirst(c, 4)) = Len(c)
  /\ ~ HasLength(arg) /\ IsFixed(arg) => FixedWidth[Atom(arg).kind] = Len(c)
  /\ ~ HasLength(arg) /\ ~ IsFixed(arg) => Len(c) = 32

LEMMA AtomReads ==
  ASSUME NEW arg \in Elements, IsAtom(arg), SelfDelimiting(arg),
         NEW c \in MandosArgumentToBytes[arg]
  PROVE  Readable(arg, c) /\ Means(c, arg)
<1>1. PICK a : a = Atom(arg)
  OBVIOUS
<1>2. LegalAtom(a) /\ c \in AtomToBytes(a)
  <2>1. /\ LegalSegment(Segment(arg)) /\ Segment(arg).prefixes = <<>>
        /\ MandosArgumentToBytes[arg] = SegmentToBytes(Segment(arg))
    BY SegmentArgument DEF IsAtom
  <2>2. SegmentToBytes(Segment(arg)) = AtomToBytes(Segment(arg).atom)
    BY <2>1, SegmentOfAtom
  <2> QED  BY <1>1, <2>1, <2>2, SegmentShape DEF Atom
<1>3. c \in Seq(Byte) /\ Len(c) \in Nat
  BY <1>2, AtomBytes, LenProperties DEF Chunks
<1>4. CASE a.kind = "biguint"
  <2>1. HasLength(arg) /\ IsNumeral(a.num) /\ c \in BigUintBytes(a.num)
    <3>1. a.kind \in NumberKinds /\ a.kind \notin TextKinds /\ a.kind \notin PlainKinds
      BY <1>4 DEF NumberKinds, TextKinds, PlainKinds
    <3> QED  BY <1>1, <1>2, <1>4, <3>1, AtomShape, AtomCases DEF HasLength
  <2>2. PICK u \in ConvertStringToUint(a.num) : c \in WithLength(ToBytes(u.int, u.len))
    BY <2>1 DEF BigUintBytes
  <2>3. Reads(a.num, u)
    BY <2>1, UintReads
  <2>4. PICK n \in Nat : n = u.int /\ n = NumValue(a.num)
    BY <2>3 DEF Reads
  <2>5. PICK k \in Nat : k = u.len /\ BitLength[n] <= 8 * k
    BY <2>3, <2>4 DEF Reads
  <2>6. PICK b \in Seq(Byte) : b = ToBytes(n, k)
    BY ToBytesType
  <2>7. BytesToUint(b) = n
    BY <2>5, <2>6, ToBytesUnsigned
  <2>8. c \in WithLength(b)
    BY <2>2, <2>4, <2>5, <2>6
  <2>9. /\ Len(b) \in Nat /\ Len(c) = 4 + Len(b)
        /\ Drop(c, 4) = b /\ BytesToUint(TakeFirst(c, 4)) = Len(b)
    BY <2>8, WithLengthBytes
  <2>10. Readable(arg, c)
    BY <1>3, <2>1, <2>9 DEF Readable
  <2>11. Means(c, arg)
    BY <1>1, <2>1, <2>4, <2>7, <2>9, MeansCases
  <2> QED  BY <2>10, <2>11
<1>5. CASE a.kind \in DOMAIN FixedWidth
  <2>1. a.kind \in {"u64", "u32", "u16", "u8"} /\ FixedWidth[a.kind] \in Nat
    BY <1>5, Widths
  <2>2. IsFixed(arg) /\ ~ HasLength(arg)
    BY <1>1, <1>5, <2>1 DEF IsFixed, HasLength
  <2>3. IsNumeral(a.num) /\ c \in UintFixedWidth(a.num, FixedWidth[a.kind])
    <3>1. a.kind \in NumberKinds /\ a.kind \notin TextKinds /\ a.kind \notin PlainKinds
      BY <2>1 DEF NumberKinds, TextKinds, PlainKinds
    <3> QED  BY <1>2, <1>5, <3>1, AtomShape, AtomCases
  <2>4. PICK w \in Nat : w = FixedWidth[a.kind]
    BY <2>1
  <2>5. PICK u \in ConvertStringToUint(a.num) :
          BitLength[u.int] <= 8 * w /\ c = ToBytes(u.int, w)
    BY <2>3, <2>4 DEF UintFixedWidth
  <2>6. PICK n \in Nat : n = u.int /\ n = NumValue(a.num)
    BY <2>3, UintReads DEF Reads
  <2>7. BytesToUint(c) = n /\ Len(c) = w
    BY <2>5, <2>6, ToBytesUnsigned, ToBytesType
  <2>8. Readable(arg, c)
    BY <1>1, <1>3, <2>2, <2>4, <2>7 DEF Readable
  <2>9. Means(c, arg)
    BY <1>1, <2>2, <2>6, <2>7, MeansCases
  <2> QED  BY <2>8, <2>9
<1>6. CASE a.kind \in {"address", "sc"}
  <2>1. ~ HasLength(arg) /\ ~ IsFixed(arg)
    BY <1>1, <1>6, Widths DEF IsFixed, HasLength
  <2>2. a.text \in Seq(Nat)
    <3>1. a.kind \notin NumberKinds /\ a.kind \notin PlainKinds
      BY <1>6 DEF NumberKinds, PlainKinds
    <3> QED  BY <1>2, <3>1, AtomShape
  <2>3. \E zeros \in Nat : c \in CreateAddressOptionalShardId(a.text, zeros)
    BY <1>2, <1>6, AtomCases DEF AddressExpression, ScExpression, ScReservedPrefixLen
  <2>4. Len(c) = 32
    BY <2>2, <2>3, AddressBytes
  <2> QED  BY <1>3, <2>1, <2>4, MeansCases DEF Readable
<1>7. a.kind = "biguint" \/ a.kind \in DOMAIN FixedWidth \/ a.kind \in {"address", "sc"}
  BY <1>1 DEF SelfDelimiting, HasLength, IsFixed, Is32Bytes
<1> QED  BY <1>4, <1>5, <1>6, <1>7

LEMMA PrefixedReads ==
  ASSUME NEW arg \in Elements, ~ IsAtom(arg), SelfDelimiting(arg),
         NEW c \in MandosArgumentToBytes[arg]
  PROVE  Readable(arg, c) /\ Means(c, arg)
<1>1. PICK s : s = Segment(arg)
  OBVIOUS
<1>2. IsSegment(arg) /\ s.prefixes # <<>>
  BY <1>1 DEF SelfDelimiting, IsAtom
<1>3. LegalSegment(s) /\ c \in SegmentToBytes(s)
  BY <1>1, <1>2, SegmentArgument
<1>4. PICK B : B = SegmentToBytes(WithoutPrefix(s))
  OBVIOUS
<1>5. Chunks(B) /\ c \in PrefixStep(Head(s.prefixes), B)
  BY <1>2, <1>3, <1>4, SegmentFirst, SegmentChunks
<1>6. c \in Seq(Byte) /\ Len(c) \in Nat
  BY <1>3, SegmentChunks, LenProperties DEF Chunks
<1>7. ~ IsFixed(arg)
  BY DEF IsFixed
<1>8. CASE Head(s.prefixes) = "nested"
  <2>1. HasLength(arg)
    BY <1>1, <1>8 DEF HasLength
  <2>2. PICK b \in B : c \in WithLength(b)
    BY <1>5, <1>8 DEF PrefixStep, InterpretNestedBytes
  <2>3. b \in Seq(Byte) /\ B = {b}
    BY <1>5 DEF Chunks, AtMostOne
  <2>4. /\ Len(b) \in Nat /\ Len(c) = 4 + Len(b)
        /\ Drop(c, 4) = b /\ BytesToUint(TakeFirst(c, 4)) = Len(b)
    BY <2>2, <2>3, WithLengthBytes
  <2>5. Means(c, arg)
    BY <1>1, <1>4, <2>1, <2>3, <2>4, MeansCases
  <2> QED  BY <1>6, <2>1, <2>4, <2>5 DEF Readable
<1>9. CASE Head(s.prefixes) # "nested"
  <2>1. ~ HasLength(arg)
    BY <1>1, <1>9 DEF HasLength
  <2>2. PICK b \in B : c = Keccak256(b)
    BY <1>5, <1>9 DEF PrefixStep
  <2>3. b \in Seq(Byte)
    BY <1>5 DEF Chunks
  <2>4. Len(c) = 32
    BY <2>2, <2>3, KeccakBytes
  <2> QED  BY <1>6, <1>7, <2>1, <2>4, MeansCases DEF Readable
<1> QED  BY <1>8, <1>9

(* Its bytes say where an argument ends and what it is.                      *)
LEMMA ArgumentReads ==
  ASSUME NEW arg \in Elements, SelfDelimiting(arg), NEW c \in MandosArgumentToBytes[arg]
  PROVE  Readable(arg, c) /\ Means(c, arg)
  BY AtomReads, PrefixedReads

(* --------------------------- The inductive invariant --------------------- *)

(* The bytes from l to h.                                                    *)
Piece(b, l, h) == SubSeq(b, l + 1, h)

LEMMA PieceIs ==
  ASSUME NEW b \in Seq(Byte), NEW l \in Nat, NEW h \in Nat, l <= h, h <= Len(b)
  PROVE  /\ Piece(b, l, h) \in Seq(Byte) /\ Len(Piece(b, l, h)) = h - l
         /\ \A i \in 1..(h - l) : Piece(b, l, h)[i] = b[l + i]
<1>1. PICK m \in Int : m = l + 1
  OBVIOUS
<1>2. Len(b) \in Nat /\ \A i \in 1..Len(b) : b[i] \in Byte
  BY LenProperties, ElementOfSeq
<1>3. \A i \in m..h : b[i] \in Byte
  BY <1>1, <1>2
<1>4. /\ SubSeq(b, m, h) \in Seq(Byte) /\ Len(SubSeq(b, m, h)) = IF m <= h THEN h - m + 1 ELSE 0
      /\ \A i \in 1..(h - m + 1) : SubSeq(b, m, h)[i] = b[m + i - 1]
  BY <1>3, SubSeqProperties
<1>5. h - m + 1 = h - l
  BY <1>1
<1>6. Len(SubSeq(b, m, h)) = h - l
  BY <1>1, <1>4
<1>7. ASSUME NEW i \in 1..(h - l) PROVE SubSeq(b, m, h)[i] = b[l + i]
  <2>1. i \in 1..(h - m + 1) /\ m + i - 1 = l + i
    BY <1>1
  <2> QED  BY <1>4, <2>1
<1> QED  BY <1>1, <1>4, <1>6, <1>7 DEF Piece

LEMMA PieceAll ==
  ASSUME NEW b \in Seq(Byte)
  PROVE  Piece(b, 0, Len(b)) = b
  BY SubSeqFull DEF Piece

LEMMA PieceOfConcat ==
  ASSUME NEW b \in Seq(Byte), NEW c \in Seq(Byte), NEW l \in Nat, NEW h \in Nat, l <= h
  PROVE  /\ h <= Len(b) => Piece(b \o c, l, h) = Piece(b, l, h)
         /\ l = Len(b) /\ h = Len(b) + Len(c) => Piece(b \o c, l, h) = c
<1>1. PICK n \in Nat : n = Len(b)
  BY LenProperties
<1>2. PICK k \in Nat : k = Len(c)
  BY LenProperties
<1>3. PICK d \in Seq(Byte) : /\ d = b \o c /\ Len(d) = n + k
                             /\ \A i \in 1..(n + k) :
                                  d[i] = IF i <= n THEN b[i] ELSE c[i - n]
  <2>0. /\ b \o c \in Seq(Byte) /\ Len(b \o c) = Len(b) + Len(c)
        /\ \A i \in 1..(Len(b) + Len(c)) :
             (b \o c)[i] = IF i <= Len(b) THEN b[i] ELSE c[i - Len(b)]
    BY ConcatProperties, Zenon
  <2>1. PICK d : d = b \o c
    OBVIOUS
  <2>2. d \in Seq(Byte) /\ Len(d) = n + k
    BY <1>1, <1>2, <2>0, <2>1
  <2>3. \A i \in 1..(n + k) : d[i] = IF i <= n THEN b[i] ELSE c[i - n]
    BY <1>1, <1>2, <2>0, <2>1
  <2> QED  BY <2>1, <2>2, <2>3
<1>4. ASSUME h <= n PROVE Piece(d, l, h) = Piece(b, l, h)
  <2>1. h <= Len(d) /\ h <= Len(b)
    BY <1>1, <1>3, <1>4
  <2>2. ASSUME NEW i \in 1..(h - l) PROVE Piece(d, l, h)[i] = Piece(b, l, h)[i]
    <3>1. l + i \in 1..(n + k) /\ l + i <= n
      BY <1>4
    <3> QED  BY <1>3, <2>1, <3>1, PieceIs
  <2>3. PICK x \in Seq(Byte) : x = Piece(d, l, h) /\ Len(x) = h - l
    BY <2>1, PieceIs
  <2>4. PICK y \in Seq(Byte) : y = Piece(b, l, h) /\ Len(y) = h - l
    BY <2>1, PieceIs
  <2>5. \A i \in 1..Len(x) : x[i] = y[i]
    BY <2>2, <2>3, <2>4
  <2> QED  BY <2>3, <2>4, <2>5, SeqEqual
<1>5. ASSUME l = n, h = n + k PROVE Piece(d, l, h) = c
  <2>1. h <= Len(d) /\ h - l = k
    BY <1>3, <1>5
  <2>2. PICK x \in Seq(Byte) : /\ x = Piece(d, l, h) /\ Len(x) = k
                               /\ \A i \in 1..k : x[i] = d[l + i]
    <3>1. PICK x \in Seq(Byte) : /\ x = Piece(d, l, h) /\ Len(x) = h - l
                                 /\ \A i \in 1..(h - l) : x[i] = d[l + i]
      BY <2>1, PieceIs
    <3> QED  BY <2>1, <3>1
  <2>3. ASSUME NEW i \in 1..k PROVE x[i] = c[i]
    <3>1. PICK j \in 1..(n + k) : j = l + i /\ ~ (j <= n) /\ j - n = i
      BY <1>5
    <3>2. d[j] = c[i]
      BY <1>3, <3>1
    <3> QED  BY <2>2, <3>1, <3>2
  <2>4. \A i \in 1..Len(x) : x[i] = c[i]
    BY <2>2, <2>3
  <2> QED  BY <1>2, <2>2, <2>4, SeqEqual
<1> QED  BY <1>1, <1>2, <1>3, <1>4, <1>5

(* The bytes are the interpretations of the arguments, one after the other:  *)
(* the i-th ends at end[i].                                                  *)
Laid(b, args, n, end) ==
  /\ end \in [0..n -> Nat] /\ end[0] = 0 /\ end[n] = Len(b)
  /\ \A i \in 1..n : /\ end[i - 1] <= end[i] /\ end[i] <= Len(b)
                     /\ Piece(b, end[i - 1], end[i]) \in MandosArgumentToBytes[args[i]]

IInv == TypeOK /\ \E end : Laid(barr, elems, Len(elems), end)

LEMMA LaidInit == ASSUME Init PROVE IInv
<1>1. PICK n \in Nat : n = Len(elems) /\ n = 0
  BY DEF Init
<1>2. TypeOK
  <2>1. elems \in Seq(Elements) /\ barr \in Seq(Byte)
    BY EmptySeq DEF Init
  <2>2. n <= MaxElems
    BY <1>1, LiteralsAssumption
  <2>3. raised \in BOOLEAN
    BY DEF Init
  <2> QED  BY <1>1, <2>1, <2>2, <2>3 DEF TypeOK
<1>3. PICK end : end = [i \in 0..n |-> 0]
  OBVIOUS
<1>4. end \in [0..n -> Nat] /\ end[0] = 0 /\ end[n] = 0
  BY <1>1, <1>3
<1>5. Laid(barr, elems, n, end)
  BY <1>1, <1>4 DEF Laid, Init
<1> QED  BY <1>1, <1>2, <1>5 DEF IInv

LEMMA LaidExtended ==
  ASSUME NEW n \in Nat, NEW args \in Seq(Elements), Len(args) = n, NEW arg \in Elements,
         NEW b \in Seq(Byte), NEW c \in MandosArgumentToBytes[arg],
         NEW end, Laid(b, args, n, end)
  PROVE  \E ext : Laid(b \o c, Append(args, arg), n + 1, ext)
<1>1. c \in Seq(Byte)
  BY ArgumentsType
<1>2. PICK d \in Seq(Byte) : d = b \o c /\ Len(d) = Len(b) + Len(c)
  BY <1>1, ConcatProperties
<1>3. PICK l \in Nat : l = Len(b)
  BY LenProperties
<1>4. PICK h \in Nat : h = l + Len(c) /\ h = Len(d)
  BY <1>1, <1>2, <1>3, LenProperties
<1>5. PICK more : more = Append(args, arg)
  OBVIOUS
<1>6. more[n + 1] = arg /\ \A i \in 1..n : more[i] = args[i]
  BY <1>5, AppendProperties
<1> DEFINE ext == [i \in 0..(n + 1) |-> IF i = n + 1 THEN h ELSE end[i]]
<1>7. ext[n + 1] = h /\ \A i \in 0..n : ext[i] = end[i]
  OBVIOUS
<1>8. ext \in [0..(n + 1) -> Nat]
  BY DEF Laid
<1> HIDE DEF ext
<1>9. ext[0] = 0 /\ ext[n] = l
  BY <1>3, <1>7 DEF Laid
<1>10. ASSUME NEW i \in 1..(n + 1)
       PROVE  /\ ext[i - 1] <= ext[i] /\ ext[i] <= h
              /\ Piece(d, ext[i - 1], ext[i]) \in MandosArgumentToBytes[more[i]]
  <2>1. CASE i = n + 1
    <3>1. i - 1 = n
      BY <2>1
    <3>2. ext[i - 1] = l /\ ext[i] = h /\ more[i] = arg
      BY <1>6, <1>7, <1>9, <2>1, <3>1
    <3>3. l <= h
      BY <1>1, <1>3, <1>4, LenProperties
    <3>4. Piece(d, l, h) = c
      BY <1>1, <1>2, <1>3, <1>4, <3>3, PieceOfConcat
    <3> QED  BY <3>2, <3>3, <3>4
  <2>2. CASE i # n + 1
    <3>1. i \in 1..n /\ i \in 0..n /\ i - 1 \in 0..n
      BY <2>2
    <3>2. PICK e \in Nat : e = end[i - 1]
      BY <3>1 DEF Laid
    <3>3. PICK f \in Nat : f = end[i]
      BY <3>1 DEF Laid
    <3>4. e <= f /\ f <= l /\ Piece(b, e, f) \in MandosArgumentToBytes[args[i]]
      BY <1>3, <3>1, <3>2, <3>3 DEF Laid
    <3>5. Piece(d, e, f) = Piece(b, e, f)
      BY <1>1, <1>2, <1>3, <3>4, PieceOfConcat
    <3>6. ext[i - 1] = e /\ ext[i] = f /\ more[i] = args[i]
      BY <1>6, <1>7, <3>1, <3>2, <3>3
    <3>7. f <= h
      <4>1. l <= h
        BY <1>1, <1>3, <1>4, LenProperties
      <4> QED  BY <3>4, <4>1
    <3> QED  BY <3>4, <3>5, <3>6, <3>7
  <2> QED  BY <2>1, <2>2
<1>11. Laid(d, more, n + 1, ext)
  BY <1>4, <1>7, <1>8, <1>9, <1>10 DEF Laid
<1> QED  BY <1>2, <1>5, <1>11

LEMMA LaidNext == ASSUME IInv, [Next]_vars PROVE IInv'
<1>1. CASE UNCHANGED vars
  <2>1. UNCHANGED <<elems, barr, raised>>
    BY <1>1 DEF vars
  <2> QED  BY <2>1 DEF IInv, TypeOK
<1>2. ASSUME NEW arg \in Elements, Extend(arg) PROVE IInv'
  <2>1. PICK c \in MandosArgumentToBytes[arg] : barr' = barr \o c
    BY <1>2 DEF Extend
  <2>2. elems' = Append(elems, arg) /\ raised' = raised /\ Len(elems) < MaxElems
    BY <1>2 DEF Extend
  <2>3. PICK n \in Nat : n = Len(elems)
    BY LenProperties DEF IInv, TypeOK
  <2>4. c \in Seq(Byte)
    BY ArgumentsType
  <2>5. elems' \in Seq(Elements) /\ Len(elems') = n + 1 /\ n + 1 <= MaxElems
    BY <2>2, <2>3, AppendProperties, LiteralsAssumption DEF IInv, TypeOK
  <2>6. barr' \in Seq(Byte)
    BY <2>1, <2>4, ConcatProperties DEF IInv, TypeOK
  <2>7. TypeOK'
    BY <2>2, <2>5, <2>6 DEF IInv, TypeOK
  <2>8. PICK end : Laid(barr, elems, n, end)
    BY <2>3 DEF IInv
  <2>9. PICK ext : Laid(barr \o c, Append(elems, arg), n + 1, ext)
    BY <2>3, <2>8, LaidExtended DEF IInv, TypeOK
  <2>10. Laid(barr', elems', Len(elems'), ext)
    BY <2>1, <2>2, <2>5, <2>9
  <2>11. \E e : Laid(barr', elems', Len(elems'), e)
    BY <2>10
  <2> QED  BY <2>7, <2>11 DEF IInv, Laid
<1>3. ASSUME NEW arg \in Elements, Raise(arg) PROVE IInv'
  <2>1. UNCHANGED <<elems, barr>> /\ raised' = TRUE
    BY <1>3 DEF Raise
  <2> QED  BY <2>1 DEF IInv, TypeOK, Laid
<1> QED  BY <1>1, <1>2, <1>3 DEF Next

(* --------------------------- Reading a list back ------------------------- *)

LEMMA TakeFirstIs ==
  ASSUME NEW b \in Seq(Byte), NEW k \in Nat, k <= Len(b)
  PROVE  /\ TakeFirst(b, k) \in Seq(Byte) /\ Len(TakeFirst(b, k)) = k
         /\ \A i \in 1..k : TakeFirst(b, k)[i] = b[i]
<1>1. PICK m \in Int : m = 1
  OBVIOUS
<1>2. \A i \in m..k : b[i] \in Byte
  <2>1. Len(b) \in Nat /\ \A i \in 1..Len(b) : b[i] \in Byte
    BY LenProperties, ElementOfSeq
  <2> QED  BY <1>1, <2>1
<1>3. /\ SubSeq(b, m, k) \in Seq(Byte) /\ Len(SubSeq(b, m, k)) = IF m <= k THEN k - m + 1 ELSE 0
      /\ \A i \in 1..(k - m + 1) : SubSeq(b, m, k)[i] = b[m + i - 1]
  BY <1>2, SubSeqProperties
<1>4. Len(SubSeq(b, m, k)) = k
  BY <1>1, <1>3
<1>5. ASSUME NEW i \in 1..k PROVE SubSeq(b, m, k)[i] = b[i]
  <2>1. i \in 1..(k - m + 1) /\ m + i - 1 = i
    BY <1>1
  <2> QED  BY <1>3, <2>1
<1> QED  BY <1>1, <1>3, <1>4, <1>5 DEF TakeFirst

LEMMA PieceWidth ==
  ASSUME NEW arg, NEW b \in Seq(Byte), NEW l \in Nat, NEW h \in Nat, l <= h, h <= Len(b),
         Readable(arg, Piece(b, l, h))
  PROVE  l + Width(arg, Drop(b, l)) = h
<1>1. PICK n \in Nat : n = Len(b)
  BY LenProperties
<1>2. PICK c \in Seq(Byte) : /\ c = Piece(b, l, h) /\ Len(c) = h - l
                             /\ \A i \in 1..(h - l) : c[i] = b[l + i]
  BY PieceIs
<1>3. PICK d \in Seq(Byte) : /\ d = Drop(b, l) /\ Len(d) = n - l
                             /\ \A i \in 1..(n - l) : d[i] = b[l + i]
  <2>1. PICK d \in Seq(Byte) : /\ d = Piece(b, l, n) /\ Len(d) = n - l
                               /\ \A i \in 1..(n - l) : d[i] = b[l + i]
    <3>1. l <= n /\ n <= Len(b)
      BY <1>1
    <3> QED  BY <3>1, PieceIs
  <2>2. Drop(b, l) = Piece(b, l, n)
    BY <1>1 DEF Drop, Piece
  <2> QED  BY <2>1, <2>2
<1>4. CASE HasLength(arg)
  <2>1. Len(c) >= 4 /\ 4 + BytesToUint(TakeFirst(c, 4)) = Len(c)
    BY <1>2, <1>4 DEF Readable
  <2>2. TakeFirst(c, 4) = TakeFirst(d, 4)
    <3>1. PICK k \in Nat : k = 4 /\ k <= h - l /\ k <= n - l
      BY <1>1, <1>2, <2>1
    <3>2. PICK x \in Seq(Byte) : x = TakeFirst(c, k) /\ Len(x) = k /\ \A i \in 1..k : x[i] = c[i]
      <4>1. k <= Len(c)
        BY <1>2, <3>1
      <4> QED  BY <4>1, TakeFirstIs
    <3>3. PICK y \in Seq(Byte) : y = TakeFirst(d, k) /\ Len(y) = k /\ \A i \in 1..k : y[i] = d[i]
      <4>1. k <= Len(d)
        BY <1>3, <3>1
      <4> QED  BY <4>1, TakeFirstIs
    <3>4. ASSUME NEW i \in 1..k PROVE x[i] = y[i]
      <4>1. i \in 1..(h - l) /\ i \in 1..(n - l)
        BY <1>1, <3>1
      <4>2. c[i] = d[i]
        BY <1>2, <1>3, <4>1
      <4> QED  BY <3>2, <3>3, <4>2
    <3>5. x = y
      BY <3>2, <3>3, <3>4, SeqEqual
    <3> QED  BY <3>1, <3>2, <3>3, <3>5
  <2>3. Width(arg, d) = 4 + BytesToUint(TakeFirst(d, 4))
    BY <1>4, WidthCases
  <2>4. Width(arg, d) = Len(c)
    BY <2>1, <2>2, <2>3
  <2> QED  BY <1>2, <1>3, <2>4
<1>5. CASE ~ HasLength(arg) /\ IsFixed(arg)
  <2>1. Width(arg, d) = Len(c)
    BY <1>2, <1>5, WidthCases DEF Readable
  <2> QED  BY <1>2, <1>3, <2>1
<1>6. CASE ~ HasLength(arg) /\ ~ IsFixed(arg)
  <2>1. Width(arg, d) = Len(c)
    BY <1>2, <1>6, WidthCases DEF Readable
  <2> QED  BY <1>2, <1>3, <2>1
<1> QED  BY <1>4, <1>5, <1>6

EndsStep(b, args, end, i) == end[i - 1] + Width(args[i], Drop(b, end[i - 1]))
AreEnds(b, args, n, end) ==
  end = [i \in 0..n |-> IF i = 0 THEN 0 ELSE EndsStep(b, args, end, i)]

AlikeUpTo(n, e, f) == \A i \in 0..n : e[i] = f[i]

LEMMA EndsChosen ==
  ASSUME NEW b, NEW args, NEW n, n = Len(args), n \in Nat, NEW f, AreEnds(b, args, n, f)
  PROVE  AlikeUpTo(n, Ends(b, args), f)
<1> DEFINE g == CHOOSE e : AreEnds(b, args, n, e)
<1>1. Ends(b, args) = g
  BY DEF Ends, AreEnds, EndsStep
<1>2. AreEnds(b, args, n, g)
  OBVIOUS
<1> HIDE DEF g
<1>3. ASSUME NEW e, AreEnds(b, args, n, e)
      PROVE  e[0] = 0 /\ \A i \in 1..n : e[i] = EndsStep(b, args, e, i)
  <2>1. \A i \in 0..n : e[i] = IF i = 0 THEN 0 ELSE EndsStep(b, args, e, i)
    BY <1>3, Zenon DEF AreEnds
  <2>2. 0 \in 0..n /\ \A i \in 1..n : i \in 0..n /\ i # 0
    OBVIOUS
  <2> QED  BY <2>1, <2>2
<1> DEFINE Bad == {i \in Nat : i \in 0..n /\ g[i] # f[i]}
<1>4. Bad = {}
  <2> SUFFICES ASSUME Bad # {} PROVE FALSE
    OBVIOUS
  <2>1. PICK i \in Bad : \A j \in Bad : i <= j
    <3>1. Bad \in SUBSET Nat
      OBVIOUS
    <3> HIDE DEF Bad
    <3> QED  BY <3>1, LeastNat
  <2>2. i # 0
    BY <1>2, <1>3, <2>1
  <2>3. i \in 1..n /\ i - 1 \in 0..n /\ i - 1 \notin Bad
    BY <2>1, <2>2
  <2>4. g[i - 1] = f[i - 1]
    BY <2>3
  <2>5. g[i] = EndsStep(b, args, g, i) /\ f[i] = EndsStep(b, args, f, i)
    BY <1>2, <1>3, <2>3
  <2> QED  BY <2>1, <2>4, <2>5 DEF EndsStep
<1> QED  BY <1>1, <1>4 DEF AlikeUpTo

LEMMA LaidReads ==
  ASSUME NEW args \in Seq(Elements), NEW b \in Seq(Byte), NEW n \in Nat, n = Len(args),
         NEW end, Laid(b, args, n, end), \A i \in 1..n : SelfDelimiting(args[i])
  PROVE  ReadsAs(b, args)
<1>1. end \in [0..n -> Nat] /\ end[0] = 0 /\ end[n] = Len(b)
  BY DEF Laid
<1>2. ASSUME NEW i \in 1..n
      PROVE  /\ end[i] = EndsStep(b, args, end, i) /\ end[i] <= Len(b)
             /\ Means(Piece(b, end[i - 1], end[i]), args[i])
  <2>1. i \in 0..n /\ i - 1 \in 0..n
    OBVIOUS
  <2>2. PICK l \in Nat : l = end[i - 1]
    BY <1>1, <2>1
  <2>3. PICK h \in Nat : h = end[i]
    BY <1>1, <2>1
  <2>4. PICK arg \in Elements : arg = args[i] /\ SelfDelimiting(arg)
    BY ElementOfSeq
  <2>5. l <= h /\ h <= Len(b) /\ Piece(b, l, h) \in MandosArgumentToBytes[arg]
    BY <2>2, <2>3, <2>4 DEF Laid
  <2>6. Readable(arg, Piece(b, l, h)) /\ Means(Piece(b, l, h), arg)
    BY <2>4, <2>5, ArgumentReads
  <2>7. l + Width(arg, Drop(b, l)) = h
    BY <2>5, <2>6, PieceWidth
  <2> QED  BY <2>2, <2>3, <2>4, <2>5, <2>6, <2>7 DEF EndsStep
<1>3. AreEnds(b, args, n, end)
  <2>1. ASSUME NEW i \in 0..n
        PROVE  end[i] = IF i = 0 THEN 0 ELSE EndsStep(b, args, end, i)
    <3>1. i # 0 => i \in 1..n
      OBVIOUS
    <3> QED  BY <1>1, <1>2, <3>1
  <2>2. end = [i \in 0..n |-> end[i]]
    BY <1>1
  <2> QED  BY <2>1, <2>2, Zenon DEF AreEnds
<1>4. PICK e : e = Ends(b, args)
  OBVIOUS
<1>5. \A i \in 0..n : e[i] = end[i]
  <2>1. AlikeUpTo(n, Ends(b, args), end)
    BY <1>3, EndsChosen
  <2> QED  BY <1>4, <2>1 DEF AlikeUpTo
<1>6. ASSUME NEW i \in 1..n
      PROVE  e[i] <= Len(b) /\ Means(SubSeq(b, e[i - 1] + 1, e[i]), args[i])
  <2>1. i \in 0..n /\ i - 1 \in 0..n
    OBVIOUS
  <2> QED  BY <1>2, <1>5, <2>1 DEF Piece
<1>7. e[n] = Len(b)
  BY <1>1, <1>5
<1> QED  BY <1>4, <1>6, <1>7 DEF ReadsAs

LEMMA InvariantReads == ASSUME IInv PROVE ListsAreDecodable
<1>1. PICK n \in Nat : n = Len(elems) /\ DOMAIN elems = 1..n
  BY LenProperties DEF IInv, TypeOK
<1>2. PICK end : Laid(barr, elems, n, end)
  BY <1>1 DEF IInv
<1> QED  BY <1>1, <1>2, LaidReads DEF ListsAreDecodable, IInv, TypeOK

(* The only element of a list, and the two of a pair.                        *)
LEMMA OneElement ==
  ASSUME IInv, Len(elems) = 1
  PROVE  elems[1] \in Elements /\ barr \in MandosArgumentToBytes[elems[1]]
<1>1. PICK n \in Nat : n = Len(elems) /\ n = 1
  OBVIOUS
<1>2. PICK end : Laid(barr, elems, n, end)
  BY <1>1 DEF IInv
<1>3. 1 \in 1..n /\ 1 - 1 = 0
  BY <1>1
<1>4. Piece(barr, end[0], end[1]) \in MandosArgumentToBytes[elems[1]]
  BY <1>2, <1>3 DEF Laid
<1>5. end[0] = 0 /\ end[1] = Len(barr)
  BY <1>1, <1>2 DEF Laid
<1>6. barr \in Seq(Byte) /\ elems[1] \in Elements
  BY <1>1, <1>3, ElementOfSeq DEF IInv, TypeOK
<1> QED  BY <1>4, <1>5, <1>6, PieceAll

LEMMA TwoElements ==
  ASSUME IInv, Len(elems) = 2
  PROVE  /\ elems[1] \in Elements /\ elems[2] \in Elements
         /\ \E m \in Nat : /\ m <= Len(barr)
                           /\ Piece(barr, 0, m) \in MandosArgumentToBytes[elems[1]]
                           /\ Piece(barr, m, Len(barr)) \in MandosArgumentToBytes[elems[2]]
<1>1. PICK n \in Nat : n = Len(elems) /\ n = 2
  OBVIOUS
<1>2. PICK end : Laid(barr, elems, n, end)
  BY <1>1 DEF IInv
<1>3. 1 \in 1..n /\ 2 \in 1..n /\ 1 - 1 = 0 /\ 2 - 1 = 1 /\ 1 \in 0..n
  BY <1>1
<1>4. /\ Piece(barr, end[0], end[1]) \in MandosArgumentToBytes[elems[1]]
      /\ Piece(barr, end[1], end[2]) \in MandosArgumentToBytes[elems[2]]
      /\ end[1] <= Len(barr)
  BY <1>2, <1>3 DEF Laid
<1>5. end[0] = 0 /\ end[2] = Len(barr) /\ end[1] \in Nat
  BY <1>1, <1>2, <1>3 DEF Laid
<1>6. elems[1] \in Elements /\ elems[2] \in Elements
  BY <1>1, <1>3, ElementOfSeq DEF IInv, TypeOK
<1> QED  BY <1>4, <1>5, <1>6

(* -------------------------------- Numbers -------------------------------- *)

LEMMA AtomArgument ==
  ASSUME NEW arg \in Elements, IsAtom(arg)
  PROVE  /\ LegalAtom(Atom(arg)) /\ MandosArgumentToBytes[arg] = AtomToBytes(Atom(arg))
         /\ arg = [kind |-> "string", segments |-> <<[prefixes |-> <<>>, atom |-> Atom(arg)]>>]
<1>1. PICK s : s = Segment(arg)
  OBVIOUS
<1>2. /\ LegalSegment(s) /\ s.prefixes = <<>>
      /\ MandosArgumentToBytes[arg] = SegmentToBytes(s)
      /\ arg = [kind |-> "string", segments |-> <<s>>]
  BY <1>1, SegmentArgument DEF IsAtom
<1>3. LegalAtom(s.atom) /\ s = [prefixes |-> <<>>, atom |-> s.atom]
  BY <1>2, SegmentShape
<1>4. SegmentToBytes(s) = AtomToBytes(s.atom)
  BY <1>2, SegmentOfAtom
<1> QED  BY <1>1, <1>2, <1>3, <1>4 DEF Atom

LEMMA NumeralAtom ==
  ASSUME NEW a, LegalAtom(a), a.kind \in NumberKinds
  PROVE  IsNumeral(a.num)
<1>1. a.kind \notin TextKinds /\ a.kind \notin PlainKinds
  BY DEF NumberKinds, TextKinds, PlainKinds
<1> QED  BY <1>1, AtomShape

LEMMA UnsignedNumbers ==
  ASSUME NEW num, IsNumeral(num), NEW b \in UintBytes(num)
  PROVE  /\ BytesToUint(b) = NumValue(num)
         /\ num.base = 10 => (b = <<>> \/ b[1] # 0)
         /\ MandosIntToInt(num) \subseteq {NumValue(num)}
<1>1. PICK u \in ConvertStringToUint(num) : b = ToBytes(u.int, u.len)
  BY DEF UintBytes
<1>2. Reads(num, u)
  BY UintReads
<1>3. PICK n \in Nat : n = u.int /\ n = NumValue(num)
  BY <1>2 DEF Reads
<1>4. PICK k \in Nat : k = u.len /\ BitLength[n] <= 8 * k
                       /\ (num.base = 10 => k = (BitLength[n] + 7) \div 8)
  BY <1>2, <1>3 DEF Reads
<1>5. b = ToBytes(n, k)
  BY <1>1, <1>3, <1>4
<1>6. BytesToUint(b) = NumValue(num)
  BY <1>3, <1>4, <1>5, ToBytesUnsigned
<1>7. num.base = 10 => (b = <<>> \/ b[1] # 0)
  BY <1>4, <1>5, UnsignedShortest
<1>8. MandosIntToInt(num) \subseteq {NumValue(num)}
  BY DEF MandosIntToInt
<1> QED  BY <1>6, <1>7, <1>8

LEMMA SignedText ==
  ASSUME NEW num, IsNumeral(num), NEW sign \in {"+", "-"}, NumValue(num) \in Nat
  PROVE  NumValue(Numeral(sign, num)) = SignedNumber(sign, NumValue(num))
<1>1. CASE sign = "+"
  BY <1>1 DEF Numeral, SignedNumber
<1>2. CASE sign = "-"
  <2>1. PICK neg : neg = [num EXCEPT !.minus = TRUE]
    OBVIOUS
  <2>2. neg.minus = TRUE /\ neg.digits = num.digits /\ neg.base = num.base
    BY <2>1 DEF IsNumeral, NumeralRecord
  <2>3. PICK v \in Nat : v = Value(num.digits, num.base)
    <3>1. num.base \in Nat /\ num.digits \in Seq(Nat)
      BY NumeralDigits
    <3> QED  BY <3>1, ValueNat
  <2>4. NumValue(neg) = -v
    BY <2>2, <2>3 DEF NumValue
  <2>5. NumValue(num) = IF num.minus THEN -v ELSE v
    BY <2>3 DEF NumValue
  <2>6. -NumValue(num) = -v
    BY <2>5
  <2> QED  BY <1>2, <2>1, <2>4, <2>6 DEF Numeral, SignedNumber
<1> QED  BY <1>1, <1>2

LEMMA SignedNumbersRead ==
  ASSUME NEW num, IsNumeral(num), NEW sign \in {"+", "-"}, NEW b \in SintBytes(sign, num)
  PROVE  /\ BytesToInt(b) = SignedNumber(sign, NumValue(num))
         /\ Len(b) > 1 => BytesToInt(Tail(b)) # BytesToInt(b)
         /\ MandosIntToInt(Numeral(sign, num)) \subseteq {BytesToInt(b)}
<1>1. PICK s \in ConvertStringToSint(sign, num) : b = ToBytes(s.int, s.len)
  BY DEF SintBytes
<1>2. PICK n \in Int : n = s.int
  BY SintReads
<1>3. PICK k : k = s.len
  OBVIOUS
<1>4. /\ n = SignedNumber(sign, NumValue(num)) /\ k = (8 + BitLength[Magnitude(n)]) \div 8
      /\ NumValue(num) \in Nat
  BY <1>2, <1>3, SintReads
<1>5. /\ k \in Nat /\ BytesToInt(ToBytes(n, k)) = n
      /\ k > 1 => BytesToInt(Tail(ToBytes(n, k))) # n
  BY <1>4, SignedNumbers
<1>6. b = ToBytes(n, k) /\ Len(b) = k
  BY <1>1, <1>2, <1>3, <1>5, ToBytesType
<1>7. NumValue(Numeral(sign, num)) = n
  BY <1>4, SignedText
<1>8. MandosIntToInt(Numeral(sign, num)) \subseteq {n}
  BY <1>7 DEF MandosIntToInt
<1> QED  BY <1>4, <1>5, <1>6, <1>8

LEMMA InvariantKeepsNumbers == ASSUME IInv PROVE NumbersKeepTheirValue
<1> SUFFICES ASSUME Len(elems) = 1, IsAtom(elems[1])
             PROVE  LET a == Atom(elems[1]) IN
    /\ a.kind = "uint" =>
         /\ BytesToUint(barr) = NumValue(a.num)
         /\ a.num.base = 10 => (barr = <<>> \/ barr[1] # 0)
         /\ MandosIntToInt(a.num) \subseteq {BytesToUint(barr)}
    /\ a.kind \in {"+", "-"} =>
         /\ BytesToInt(barr) = SignedNumber(a.kind, NumValue(a.num))
         /\ Len(barr) > 1 => BytesToInt(Tail(barr)) # BytesToInt(barr)
         /\ MandosIntToInt(Numeral(a.kind, a.num)) \subseteq {BytesToInt(barr)}
  BY DEF NumbersKeepTheirValue
<1>1. PICK a : a = Atom(elems[1])
  OBVIOUS
<1>2. LegalAtom(a) /\ barr \in AtomToBytes(a)
  BY <1>1, OneElement, AtomArgument
<1>3. CASE a.kind = "uint"
  <2>1. IsNumeral(a.num) /\ barr \in UintBytes(a.num)
    BY <1>2, <1>3, NumeralAtom, AtomCases DEF NumberKinds
  <2>2. /\ BytesToUint(barr) = NumValue(a.num)
        /\ a.num.base = 10 => (barr = <<>> \/ barr[1] # 0)
        /\ MandosIntToInt(a.num) \subseteq {NumValue(a.num)}
    BY <2>1, UnsignedNumbers
  <2> QED  BY <1>1, <1>3, <2>2
<1>4. CASE a.kind \in {"+", "-"}
  <2>1. IsNumeral(a.num) /\ barr \in SintBytes(a.kind, a.num)
    BY <1>2, <1>4, NumeralAtom, AtomCases DEF NumberKinds
  <2>2. /\ BytesToInt(barr) = SignedNumber(a.kind, NumValue(a.num))
        /\ Len(barr) > 1 => BytesToInt(Tail(barr)) # BytesToInt(barr)
        /\ MandosIntToInt(Numeral(a.kind, a.num)) \subseteq {BytesToInt(barr)}
    BY <1>4, <2>1, SignedNumbersRead
  <2> QED  BY <1>1, <1>4, <2>2
<1> QED  BY <1>1, <1>3, <1>4

(* ------------------------------- Addresses ------------------------------- *)

IsPadded(name, zeros, c) ==
  \A i \in 1..32 : c[i] = IF i <= zeros THEN 0
                          ELSE IF i <= zeros + Len(name) THEN name[i - zeros] ELSE 95
NameFits(name, zeros) ==
  /\ name \in Seq(Nat) /\ Len(name) \in Nat /\ Len(name) + zeros <= 32
  /\ Len(name) # 0 => name[Len(name)] # 95 /\ name[1] # 0

LEMMA PrefixIsSeen ==
  ASSUME NEW c, NEW name, IsPadded(name, 0, c), NameFits(name, 0),
         NEW other, IsPadded(other, 10, c)
  PROVE  FALSE
<1>1. c[1] = 0
  BY DEF IsPadded
<1>2. PICK n \in Nat : n = Len(name) /\ (n # 0 => name[1] # 0)
  BY DEF NameFits
<1>3. c[1] = IF 1 <= n THEN name[1] ELSE 95
  BY <1>2 DEF IsPadded
<1> QED  BY <1>1, <1>2, <1>3

LEMMA LongerIsSeen ==
  ASSUME NEW c, NEW zeros \in Nat, NEW name, IsPadded(name, zeros, c), NameFits(name, zeros),
         NEW other, IsPadded(other, zeros, c), NameFits(other, zeros)
  PROVE  ~ (Len(name) < Len(other))
<1> SUFFICES ASSUME Len(name) < Len(other) PROVE FALSE
  OBVIOUS
<1>1. PICK n \in Nat : n = Len(name)
  BY DEF NameFits
<1>2. PICK m \in Nat : m = Len(other) /\ m + zeros <= 32 /\ n < m /\ other[m] # 95
  BY <1>1 DEF NameFits
<1>3. PICK i \in 1..32 : i = zeros + m /\ ~ (i <= zeros) /\ i - zeros = m /\ ~ (i <= zeros + n)
  <2>1. m \in Nat /\ n \in Nat /\ n < m /\ m + zeros <= 32
    BY <1>2
  <2>2. /\ zeros + m \in 1..32 /\ ~ (zeros + m <= zeros) /\ (zeros + m) - zeros = m
        /\ ~ (zeros + m <= zeros + n)
    BY <2>1
  <2> QED  BY <2>2
<1>4. c[i] = other[m]
  <2>1. c[i] = IF i <= zeros THEN 0
               ELSE IF i <= zeros + Len(other) THEN other[i - zeros] ELSE 95
    BY Zenon DEF IsPadded
  <2>2. zeros + Len(other) = i
    BY <1>2, <1>3
  <2>3. i <= zeros + Len(other)
    BY <2>2
  <2> QED  BY <1>3, <2>1, <2>3
<1>5. c[i] = 95
  <2>1. c[i] = IF i <= zeros THEN 0
               ELSE IF i <= zeros + Len(name) THEN name[i - zeros] ELSE 95
    BY Zenon DEF IsPadded
  <2> QED  BY <1>1, <1>3, <2>1
<1> QED  BY <1>2, <1>4, <1>5

LEMMA NamesAreSeen ==
  ASSUME NEW c, NEW zeros \in Nat, NEW name, IsPadded(name, zeros, c), NameFits(name, zeros),
         NEW other, IsPadded(other, zeros, c), NameFits(other, zeros)
  PROVE  name = other
<1>1. ~ (Len(name) < Len(other)) /\ ~ (Len(other) < Len(name))
  BY LongerIsSeen
<1>2. PICK n \in Nat : n = Len(name) /\ n = Len(other) /\ n + zeros <= 32
  BY <1>1 DEF NameFits
<1>3. ASSUME NEW j \in 1..n PROVE name[j] = other[j]
  <2>1. PICK i \in 1..32 : i = zeros + j /\ ~ (i <= zeros) /\ i - zeros = j /\ i <= zeros + n
    <3>1. j \in Nat /\ 1 <= j /\ j <= n /\ n + zeros <= 32
      BY <1>2
    <3>2. zeros + j \in 1..32 /\ ~ (zeros + j <= zeros) /\ zeros + j <= zeros + n
      BY <3>1
    <3> QED  BY <3>1, <3>2
  <2>2. c[i] = name[j]
    BY <1>2, <2>1 DEF IsPadded
  <2>3. c[i] = other[j]
    BY <1>2, <2>1 DEF IsPadded
  <2> QED  BY <2>2, <2>3
<1>4. name \in Seq(Nat) /\ other \in Seq(Nat)
  BY DEF NameFits
<1> QED  BY <1>2, <1>3, <1>4, SeqEqual

ZerosOf(kind) == IF kind = "sc" THEN 10 ELSE 0

LEMMA AddressArgument ==
  ASSUME NEW arg \in Elements, IsAddress(arg), NEW c \in MandosArgumentToBytes[arg]
  PROVE  \E kind \in {"address", "sc"}, name \in Seq(Nat) :
           /\ NameFits(name, ZerosOf(kind)) /\ IsPadded(name, ZerosOf(kind), c)
           /\ Len(c) = 32
           /\ arg = [kind |-> "string",
                     segments |-> <<[prefixes |-> <<>>, atom |-> [kind |-> kind, text |-> name]]>>]
<1>1. PICK a : a = Atom(arg)
  OBVIOUS
<1>2. /\ LegalAtom(a) /\ c \in AtomToBytes(a) /\ a.kind \in {"address", "sc"}
      /\ arg = [kind |-> "string", segments |-> <<[prefixes |-> <<>>, atom |-> a]>>]
  BY <1>1, AtomArgument DEF IsAddress
<1>3. a.text \in Seq(Nat) /\ a = [kind |-> a.kind, text |-> a.text]
  <2>1. a.kind \notin NumberKinds /\ a.kind \notin PlainKinds
    BY <1>2 DEF NumberKinds, PlainKinds
  <2> QED  BY <1>2, <2>1, AtomShape
<1>4. PICK zeros \in Nat : zeros = ZerosOf(a.kind)
  BY DEF ZerosOf
<1>5. c \in CreateAddressOptionalShardId(a.text, zeros)
  BY <1>2, <1>4, AtomCases DEF AddressExpression, ScExpression, ScReservedPrefixLen, ZerosOf
<1>6. IsPadded(a.text, zeros, c) /\ Len(c) = 32
  <2>1. PICK name \in Seq(Nat) : name = a.text
    BY <1>3
  <2>2. c \in CreateAddressOptionalShardId(name, zeros)
    BY <1>5, <2>1
  <2>3. IsPadded(name, zeros, c) /\ Len(c) = 32
    BY <2>2, AddressBytes DEF IsPadded
  <2> QED  BY <2>1, <2>3
<1>7. NameFits(a.text, zeros)
  <2>1. PICK name \in Seq(Nat) : name = a.text
    BY <1>3
  <2>2. Len(name) \in Nat
    BY LenProperties
  <2>3. Len(name) <= 32 - zeros
    BY <1>1, <1>4, <2>1
      DEF IsAddress, ZerosOf, AddressLength, ScReservedPrefixLen
  <2>4. name # <<>> => Last(name) # 95 /\ Head(name) # 0
    BY <1>1, <2>1 DEF IsAddress, Underscore
  <2>5. Len(name) # 0 => name[Len(name)] # 95 /\ name[1] # 0
    BY <2>1, <2>4, EmptySeq DEF Last
  <2> QED  BY <1>4, <2>1, <2>2, <2>3, <2>5 DEF NameFits
<1> QED  BY <1>2, <1>3, <1>4, <1>6, <1>7

LEMMA InvariantKeepsAddresses == ASSUME IInv PROVE AddressesDoNotCollide
<1> SUFFICES ASSUME Len(elems) = 2, IsAddress(elems[1]), IsAddress(elems[2])
             PROVE  /\ Len(barr) = 2 * AddressLength
                    /\ (TakeFirst(barr, AddressLength) = Drop(barr, AddressLength))
                         => elems[1] = elems[2]
  BY DEF AddressesDoNotCollide
<1>1. PICK m \in Nat : /\ m <= Len(barr)
                       /\ Piece(barr, 0, m) \in MandosArgumentToBytes[elems[1]]
                       /\ Piece(barr, m, Len(barr)) \in MandosArgumentToBytes[elems[2]]
  BY TwoElements
<1>2. elems[1] \in Elements /\ elems[2] \in Elements
  BY TwoElements
<1>3. PICK c : c = Piece(barr, 0, m)
  OBVIOUS
<1>4. PICK d : d = Piece(barr, m, Len(barr))
  OBVIOUS
<1>5. PICK kind \in {"address", "sc"}, name \in Seq(Nat) :
        /\ NameFits(name, ZerosOf(kind)) /\ IsPadded(name, ZerosOf(kind), c) /\ Len(c) = 32
        /\ elems[1] = [kind |-> "string", segments |->
                         <<[prefixes |-> <<>>, atom |-> [kind |-> kind, text |-> name]]>>]
  BY <1>1, <1>2, <1>3, AddressArgument
<1>6. PICK other \in {"address", "sc"}, text \in Seq(Nat) :
        /\ NameFits(text, ZerosOf(other)) /\ IsPadded(text, ZerosOf(other), d) /\ Len(d) = 32
        /\ elems[2] = [kind |-> "string", segments |->
                         <<[prefixes |-> <<>>, atom |-> [kind |-> other, text |-> text]]>>]
  BY <1>1, <1>2, <1>4, AddressArgument
<1>7. PICK n \in Nat : n = Len(barr) /\ m <= n /\ barr \in Seq(Byte)
  BY <1>1, LenProperties DEF IInv, TypeOK
<1>8. Len(c) = m
  <2>1. PICK z \in Nat : z = 0 /\ z <= m /\ m - z = m
    OBVIOUS
  <2>2. Len(Piece(barr, z, m)) = m - z
    BY <1>7, <2>1, PieceIs
  <2> QED  BY <1>3, <2>1, <2>2
<1>9. Len(d) = n - m
  <2>0. m <= n /\ n <= Len(barr) /\ barr \in Seq(Byte)
    BY <1>7
  <2>1. Len(Piece(barr, m, n)) = n - m
    BY <2>0, PieceIs
  <2> QED  BY <1>4, <1>7, <2>1
<1>10. m = 32 /\ n = 64
  <2>1. Len(c) = 32 /\ Len(d) = 32
    BY <1>5, <1>6
  <2>2. m = 32
    BY <1>8, <2>1
  <2>3. n - m = 32
    BY <1>9, <2>1
  <2> QED  BY <2>2, <2>3
<1>11. TakeFirst(barr, AddressLength) = c /\ Drop(barr, AddressLength) = d
  BY <1>3, <1>4, <1>10 DEF TakeFirst, Drop, Piece, AddressLength
<1>12. ASSUME c = d PROVE elems[1] = elems[2]
  <2>1. CASE kind = other
    <3>1. PICK zeros \in Nat : zeros = ZerosOf(kind)
      BY DEF ZerosOf
    <3>2. name = text
      BY <1>5, <1>6, <1>12, <2>1, <3>1, NamesAreSeen
    <3> QED  BY <1>5, <1>6, <2>1, <3>2
  <2>2. CASE kind = "address" /\ other = "sc"
    <3>1. ZerosOf(kind) = 0 /\ ZerosOf(other) = 10
      BY <2>2 DEF ZerosOf
    <3> QED  BY <1>5, <1>6, <1>12, <3>1, PrefixIsSeen
  <2>3. CASE kind = "sc" /\ other = "address"
    <3>1. ZerosOf(kind) = 10 /\ ZerosOf(other) = 0
      BY <2>3 DEF ZerosOf
    <3> QED  BY <1>5, <1>6, <1>12, <3>1, PrefixIsSeen
  <2> QED  BY <2>1, <2>2, <2>3
<1>13. Len(barr) = 2 * AddressLength
  BY <1>7, <1>10 DEF AddressLength
<1> QED  BY <1>11, <1>12, <1>13

(* ----------------------- Arguments of test endpoints --------------------- *)

LEMMA ClaimBytes ==
  ASSUME NEW n \in Nat
  PROVE  /\ BytesToUint(VarToBytes(n)) = n /\ BytesToInt(VarToBytes(n)) = n
         /\ Len(VarToBytes(n)) = IF n = 0 THEN 0 ELSE (BitLength[n] + 8) \div 8
<1>1. CASE n = 0
  <2>1. VarToBytes(n) = <<>>
    BY <1>1 DEF VarToBytes
  <2>2. Value(<<>>, 256) = 0
    BY ValueEmpty
  <2>3. Len(<<>>) = 0
    OBVIOUS
  <2> QED  BY <1>1, <2>1, <2>2, <2>3 DEF BytesToUint, BytesToInt
<1>2. CASE n # 0
  <2>1. PICK bl \in Nat : bl = BitLength[n]
    BY BitLengthIs
  <2>2. PICK k \in Nat : k = (bl + 8) \div 8 /\ k >= 1 /\ bl < 8 * k /\ bl <= 8 * k
    OBVIOUS
  <2>3. VarToBytes(n) = ToBytes(n, k)
    BY <1>2, <2>1, <2>2 DEF VarToBytes
  <2>4. BytesToUint(ToBytes(n, k)) = n
    BY <2>1, <2>2, ToBytesUnsigned
  <2>5. n \in Int /\ Magnitude(n) = n
    BY DEF Magnitude
  <2>6. Fits(n, k)
    BY <2>1, <2>2, <2>5, FitsByBits
  <2>7. BytesToInt(ToBytes(n, k)) = n
    BY <2>2, <2>5, <2>6, ToBytesSigned DEF Fits
  <2>8. Len(ToBytes(n, k)) = k
    BY <2>5, ToBytesType
  <2> QED  BY <1>2, <2>1, <2>2, <2>3, <2>4, <2>7, <2>8
<1> QED  BY <1>1, <1>2

LEMMA FuzzedBytes ==
  ASSUME NEW n \in Nat, NEW b \in MandosStringToBytes(FuzzArgument(n))
  PROVE  BytesToUint(b) = n /\ Len(b) = (BitLength[n] + 7) \div 8
<1>1. PICK num : num = [base |-> 10, digits |-> Decimal[n], minus |-> FALSE]
  OBVIOUS
<1>2. PICK a : a = [kind |-> "uint", num |-> num]
  OBVIOUS
<1>3. PICK s : s = [prefixes |-> <<>>, atom |-> a]
  OBVIOUS
<1>4. FuzzArgument(n) = <<s>>
  BY <1>1, <1>2, <1>3 DEF FuzzArgument
<1>5. IsNumeral(num) /\ NumValue(num) = n
  <2>1. IsDigits(Decimal[n], n)
    BY DecimalDigits
  <2>2. num \in NumeralRecord
    BY <1>1, <2>1 DEF NumeralRecord, IsDigits
  <2> QED  BY <1>1, <2>1, <2>2 DEF IsNumeral, NumValue, IsDigits
<1>6. LegalSegment(s)
  <2>1. a \in AtomRecord
    BY <1>2, <1>5 DEF AtomRecord, IsNumeral
  <2>2. <<>> \in Seq({"nested", "keccak256"})
    OBVIOUS
  <2> QED  BY <1>2, <1>3, <1>5, <2>1, <2>2 DEF LegalSegment, SegmentRecord
<1>7. PICK r : r = [i \in DOMAIN <<s>> |-> SegmentToBytes(<<s>>[i])]
  OBVIOUS
<1>8. DOMAIN r = 1..1 /\ r[1] = SegmentToBytes(s)
  BY <1>7
<1>9. SegmentToBytes(s) \in SUBSET Seq(Byte)
  BY <1>6, SegmentChunks DEF Chunks
<1>10. Concatenation(r) = SegmentToBytes(s)
  BY <1>8, <1>9, ConcatenationOne
<1>11. MandosStringToBytes(FuzzArgument(n)) = Concatenation(r)
  BY <1>4, <1>7 DEF MandosStringToBytes
<1>12. b \in UintBytes(num)
  <2>1. SegmentToBytes(s) = AtomToBytes(a)
    BY <1>3, <1>6, SegmentOfAtom
  <2>2. AtomToBytes(a) = UintBytes(num)
    BY <1>2, AtomCases
  <2> QED  BY <1>10, <1>11, <2>1, <2>2
<1>13. PICK u \in ConvertStringToUint(num) : b = ToBytes(u.int, u.len)
  BY <1>12 DEF UintBytes
<1>14. /\ u.int = n /\ u.len \in Nat /\ BitLength[n] <= 8 * u.len
       /\ u.len = (BitLength[n] + 7) \div 8
  BY <1>1, <1>5, UintReads DEF Reads
<1>15. PICK k \in Nat : k = u.len
  BY <1>14
<1>16. b = ToBytes(n, k) /\ BitLength[n] <= 8 * k /\ k = (BitLength[n] + 7) \div 8
  BY <1>13, <1>14, <1>15
<1>17. BytesToUint(b) = n
  BY <1>16, ToBytesUnsigned
<1>18. Len(b) = k
  BY <1>16, ToBytesType
<1> QED  BY <1>16, <1>17, <1>18

LEMMA InvariantPassesNumbers == ASSUME IInv PROVE ClaimsPassTheFuzzedNumbers
<1> SUFFICES ASSUME Len(elems) = 1, IsAtom(elems[1]), Atom(elems[1]).kind = "uint"
             PROVE  LET n == NumValue(Atom(elems[1]).num) IN
    \A typ \in ArgTypes : InType(typ, n) =>
      /\ BytesToUint(VarToBytes(n)) = n /\ BytesToInt(VarToBytes(n)) = n
      /\ \A fuzzed \in MandosStringToBytes(FuzzArgument(n)) :
           BytesToUint(fuzzed) = n /\ Len(VarToBytes(n)) - Len(fuzzed) \in {0, 1}
  BY DEF ClaimsPassTheFuzzedNumbers
<1>1. PICK a : a = Atom(elems[1])
  OBVIOUS
<1>2. LegalAtom(a) /\ barr \in AtomToBytes(a)
  BY <1>1, OneElement, AtomArgument
<1>3. IsNumeral(a.num) /\ barr \in UintBytes(a.num)
  BY <1>1, <1>2, NumeralAtom, AtomCases DEF NumberKinds
<1>4. PICK u \in ConvertStringToUint(a.num) : TRUE
  BY <1>3 DEF UintBytes
<1>5. PICK n \in Nat : n = NumValue(a.num)
  BY <1>3, <1>4, UintReads DEF Reads
<1>6. /\ BytesToUint(VarToBytes(n)) = n /\ BytesToInt(VarToBytes(n)) = n
      /\ Len(VarToBytes(n)) = IF n = 0 THEN 0 ELSE (BitLength[n] + 8) \div 8
  BY ClaimBytes
<1>7. ASSUME NEW fuzzed \in MandosStringToBytes(FuzzArgument(n))
      PROVE  BytesToUint(fuzzed) = n /\ Len(VarToBytes(n)) - Len(fuzzed) \in {0, 1}
  <2>1. PICK bl \in Nat : bl = BitLength[n] /\ (n = 0 => bl = 0)
    BY BitLengthIs, BitLengthZero
  <2>2. BytesToUint(fuzzed) = n /\ Len(fuzzed) = (bl + 7) \div 8
    BY <2>1, FuzzedBytes
  <2>3. ((bl + 8) \div 8) - ((bl + 7) \div 8) \in {0, 1}
    OBVIOUS
  <2>4. bl = 0 => (bl + 7) \div 8 = 0
    OBVIOUS
  <2>5. CASE n = 0
    <3>1. Len(VarToBytes(n)) = 0 /\ Len(fuzzed) = 0
      BY <1>6, <2>1, <2>2, <2>4, <2>5
    <3> QED  BY <2>2, <3>1
  <2>6. CASE n # 0
    <3>1. Len(VarToBytes(n)) = (bl + 8) \div 8
      BY <1>6, <2>1, <2>6
    <3> QED  BY <2>2, <2>3, <3>1
  <2> QED  BY <2>5, <2>6
<1> QED  BY <1>1, <1>5, <1>6, <1>7

(* -------------------------------- Theorems ------------------------------- *)

LEMMA LiteralsInvariant == Spec => []IInv
<1>1. Init => IInv
  BY LaidInit
<1>2. IInv /\ [Next]_vars => IInv'
  BY LaidNext
<1> QED  BY <1>1, <1>2, PTL DEF Spec

(* Whatever the arguments of a list, interpreting them gives bytes: the loop *)
(* of mandos_argument_to_bytes keeps its types for elements nested to any    *)
(* depth.                                                                    *)
THEOREM LiteralTypes == Spec => []TypeOK
<1>1. IInv => TypeOK
  BY DEF IInv
<1> QED  BY <1>1, LiteralsInvariant, PTL

(* A list of self-delimiting arguments of any length is read back element by *)
(* element from the bytes that mandos_argument_to_bytes concatenates.        *)
THEOREM ListsDecode == Spec => []ListsAreDecodable
<1>1. IInv => ListsAreDecodable
  BY InvariantReads
<1> QED  BY <1>1, LiteralsInvariant, PTL

(* Numerals of any size keep their value, in as few bytes as their kind      *)
(* allows, as arguments and as the numbers of other fields.                  *)
THEOREM NumbersKept == Spec => []NumbersKeepTheirValue
<1>1. IInv => NumbersKeepTheirValue
  BY InvariantKeepsNumbers
<1> QED  BY <1>1, LiteralsInvariant, PTL

(* Two names that fit, of user accounts or of contracts, have the same       *)
(* address only if they are the same name of the same kind.                  *)
THEOREM AddressesDiffer == Spec => []AddressesDoNotCollide
<1>1. IInv => AddressesDoNotCollide
  BY InvariantKeepsAddresses
<1> QED  BY <1>1, LiteralsInvariant, PTL

(* Claims and fuzzed calls of kasmer pass the same number, whatever it is.   *)
THEOREM ClaimsAgree == Spec => []ClaimsPassTheFuzzedNumbers
<1>1. IInv => ClaimsPassTheFuzzedNumbers
  BY InvariantPassesNumbers
<1> QED  BY <1>1, LiteralsInvariant, PTL
===============================================================================
