------------------------------ MODULE EsdtProofs ------------------------------
(***************************************************************************)
(* The builtin functions on tokens: their data stay well formed, the nonces*)
(* of NFTs are counted, and supplies change with a role only, for every set*)
(* of accounts, tokens, transfers and initial data, and every bound.       *)
(***************************************************************************)
EXTENDS EsdtProperties, Sums, SequenceTheorems

(* ------------------------------ Keys and entries ------------------------- *)

LEMMA TokenKeys ==
  ASSUME NEW t \in Tokens
  PROVE  Len(t) = 1 /\ ~IsNft(t) /\ TokenOf(t) = t
<1>1. t = <<t[1]>>
  BY DataAssumption
<1>2. Len(t) = 1
  BY <1>1
<1> QED  BY <1>2 DEF IsNft, TokenOf

LEMMA NftKeys ==
  ASSUME NEW t \in Tokens, NEW n \in Nat \ {0}
  PROVE  IsNft(KeyWithNonce(t, n)) /\ TokenOf(KeyWithNonce(t, n)) = t
<1>1. PICK key : key = KeyWithNonce(t, n)
  OBVIOUS
<1>2. PICK x : t = <<x>>
  BY DataAssumption
<1> DEFINE S == {x, n}
<1>3. t \in Seq(S) /\ Len(t) = 1 /\ t[1] = x
  BY <1>2
<1>4. n \in S /\ x \in S
  OBVIOUS
<1>5. key = Append(t, n)
  BY <1>1 DEF KeyWithNonce
<1> HIDE DEF S
<1>6. Len(Append(t, n)) = Len(t) + 1 /\ \A i \in 1..Len(t) : Append(t, n)[i] = t[i]
  <2>1. t \in Seq(S) /\ n \in S
    BY <1>3, <1>4
  <2> QED  BY <2>1, AppendProperties
<1>7. Len(key) = 2 /\ key[1] = t[1]
  BY <1>3, <1>5, <1>6
<1>8. SubSeq(key, 1, 1) \in Seq(S) /\ Len(SubSeq(key, 1, 1)) = 1 /\ SubSeq(key, 1, 1)[1] = key[1]
  <2>1. \A i \in 1..1 : key[i] \in S
    BY <1>3, <1>4, <1>7
  <2> QED  BY <2>1, SubSeqProperties
<1>9. SubSeq(key, 1, 1) = t
  BY <1>3, <1>7, <1>8, SeqEqual
<1> QED  BY <1>1, <1>7, <1>9 DEF IsNft, TokenOf

(* The key of a token, or of an NFT of it.                                   *)
LEMMA KeyOfToken ==
  ASSUME NEW t \in Tokens, NEW n \in Nat
  PROVE  /\ TokenOf(KeyWithNonce(t, n)) = t
         /\ IsNft(KeyWithNonce(t, n)) <=> n # 0
         /\ n = 0 => KeyWithNonce(t, n) = t
BY TokenKeys, NftKeys DEF KeyWithNonce

(* No identifier with a nonce is a token.                                    *)
LEMMA NoTokenKey ==
  ASSUME NEW id \in Identifiers, NEW n \in Nat \ {0}
  PROVE  KeyWithNonce(id, n) \notin Tokens
<1> DEFINE S == {id[i] : i \in 1..Len(id)} \cup {n}
<1>1. Len(id) \in Nat \ {0} /\ id = [i \in 1..Len(id) |-> id[i]]
  BY DataAssumption DEF IsBytes
<1>2. id \in [1..Len(id) -> S]
  BY <1>1
<1>3. id \in Seq(S)
  BY <1>1, <1>2
<1> HIDE DEF S
<1>4. Len(Append(id, n)) = Len(id) + 1
  <2>1. n \in S
    BY DEF S
  <2> QED  BY <1>3, <2>1, AppendProperties
<1>5. Len(KeyWithNonce(id, n)) = Len(id) + 1
  BY <1>4 DEF KeyWithNonce
<1>6. Len(KeyWithNonce(id, n)) # 1
  BY <1>1, <1>5
<1> QED  BY <1>6, TokenKeys

(* Data that are well formed but for the range of balances, as they are      *)
(* between the commands of a builtin.                                        *)
AnyEntry == [balance : Int, roles : SUBSET Roles, metadata : SUBSET Metadata,
             lastNonce : 0..MaxNonce]
Fits(key, entry) ==
  /\ entry \in AnyEntry
  /\ IsNft(key) => entry.roles = {}
  /\ \A m \in entry.metadata :
       TokenOf(key) \in Tokens /\ key = KeyWithNonce(TokenOf(key), m.nonce)
Shaped(d) ==
  DOMAIN d = Address /\ \A a \in Address : \A key \in DOMAIN d[a] : Fits(key, d[a][key])

LEMMA ShapeIs ==
  ASSUME NEW d
  PROVE  WellFormed(d) <=>
           /\ Shaped(d)
           /\ \A a \in Address : \A key \in DOMAIN d[a] : d[a][key].balance \in 0..MaxSupply
<1>1. MaxSupply \in Nat
  BY EsdtAssumption
<1>2. \A e \in Entry : e \in AnyEntry /\ e.balance \in 0..MaxSupply
  BY <1>1 DEF Entry, AnyEntry
<1>3. \A e \in AnyEntry : e.balance \in 0..MaxSupply => e \in Entry
  BY DEF Entry, AnyEntry
<1> QED  BY <1>2, <1>3 DEF WellFormed, Shaped, Fits

LEMMA BalanceType ==
  ASSUME NEW d, Shaped(d), NEW a \in Address, NEW key
  PROVE  BalanceOf(d, a, key) \in Int
BY DEF Shaped, Fits, AnyEntry, BalanceOf, Holds

LEMMA NewFits ==
  ASSUME NEW key
  PROVE  Fits(key, NewEntry)
<1>1. MaxNonce \in Nat
  BY EsdtAssumption
<1> QED  BY <1>1 DEF Fits, NewEntry, AnyEntry

(* -------------------------------- Supplies ------------------------------- *)

Balances(d, key) == [a \in Address |-> BalanceOf(d, a, key)]

LEMMA BalancesType ==
  ASSUME NEW d, Shaped(d), NEW key
  PROVE  Balances(d, key) \in [Address -> Int] /\ Supply(d, key) \in Int
<1>1. Balances(d, key) \in [Address -> Int]
  BY BalanceType DEF Balances
<1>2. SumFunction(Balances(d, key)) \in Int
  BY <1>1, SumInt, DataAssumption
<1> QED  BY <1>1, <1>2 DEF Supply, Balances

(* Account a has v more of key in e than in d, and all else is the same.      *)
Adds(d, e, a, key, v) ==
  \A b \in Address : \A k :
    BalanceOf(e, b, k) = BalanceOf(d, b, k) + (IF b = a /\ k = key THEN v ELSE 0)

LEMMA SupplyAdds ==
  ASSUME NEW d, Shaped(d), NEW e, NEW a \in Address, NEW key, NEW v \in Int,
         Adds(d, e, a, key, v), NEW k
  PROVE  Supply(e, k) = Supply(d, k) + (IF k = key THEN v ELSE 0)
<1> DEFINE f == Balances(d, k)
           w == IF k = key THEN v ELSE 0
<1>1. f \in [Address -> Int] /\ w \in Int
  BY BalancesType
<1>2. Balances(e, k) = [f EXCEPT ![a] = @ + w]
  <2>1. \A b \in Address : BalanceOf(e, b, k) = IF b = a THEN f[b] + w ELSE f[b]
    BY BalanceType DEF Adds, Balances
  <2>2. Balances(e, k) = [b \in Address |-> BalanceOf(e, b, k)]
    BY DEF Balances
  <2> HIDE DEF f, w
  <2> QED  BY <1>1, <2>1, <2>2
<1>3. SumFunction([f EXCEPT ![a] = @ + w]) = SumFunction(f) + w
  <2>1. IsFiniteSet(Address)
    BY DataAssumption
  <2> HIDE DEF f, w
  <2> QED  BY <1>1, <2>1, SumAdd
<1> QED  BY <1>2, <1>3 DEF Supply, Balances

LEMMA SameSupply ==
  ASSUME NEW d, NEW e, NEW k, \A b \in Address : BalanceOf(e, b, k) = BalanceOf(d, b, k)
  PROVE  Supply(e, k) = Supply(d, k)
<1>1. Balances(e, k) = Balances(d, k)
  BY DEF Balances
<1> QED  BY <1>1 DEF Supply, Balances

(* No balance is above the supply, so a bound on supplies bounds balances.    *)
Covered(d) ==
  /\ \A a \in Address : \A k : BalanceOf(d, a, k) >= 0
  /\ \A k : Supply(d, k) <= MaxSupply

LEMMA CoveredIsWellFormed ==
  ASSUME NEW d, Shaped(d), Covered(d)
  PROVE  WellFormed(d)
<1> SUFFICES ASSUME NEW a \in Address, NEW key \in DOMAIN d[a]
             PROVE  d[a][key].balance \in 0..MaxSupply
  BY ShapeIs
<1>1. Balances(d, key) \in [Address -> Nat]
  BY BalanceType DEF Balances, Covered
<1>2. Balances(d, key)[a] <= SumFunction(Balances(d, key))
  BY <1>1, SumBound, DataAssumption
<1>3. Balances(d, key)[a] = BalanceOf(d, a, key) /\ BalanceOf(d, a, key) \in Nat
  BY <1>1 DEF Balances
<1>4. SumFunction(Balances(d, key)) <= MaxSupply
  BY DEF Covered, Supply, Balances
<1>5. SumFunction(Balances(d, key)) \in Int /\ MaxSupply \in Nat
  BY BalancesType, EsdtAssumption DEF Supply, Balances
<1>6. BalanceOf(d, a, key) = d[a][key].balance
  BY DEF Shaped, BalanceOf, Holds
<1> QED  BY <1>2, <1>3, <1>4, <1>5, <1>6

(* ------------------------ Commands on the token data --------------------- *)

(* What SetEntry does.                                                       *)
LEMMA EntryIsSet ==
  ASSUME NEW d, DOMAIN d = Address, NEW a \in Address, NEW key, NEW entry,
         NEW e, e = SetEntry(d, a, key, entry)
  PROVE  /\ DOMAIN e = Address
         /\ \A b \in Address : b # a => e[b] = d[b]
         /\ DOMAIN e[a] = DOMAIN d[a] \cup {key}
         /\ e[a][key] = entry
         /\ \A k \in DOMAIN d[a] : k # key => e[a][k] = d[a][k]
BY DEF SetEntry, Put

LEMMA SetShaped ==
  ASSUME NEW d, Shaped(d), NEW a \in Address, NEW key, NEW entry, Fits(key, entry)
  PROVE  LET e == SetEntry(d, a, key, entry)
         IN  Shaped(e) /\ Adds(d, e, a, key, entry.balance - BalanceOf(d, a, key))
<1>1. PICK e : e = SetEntry(d, a, key, entry)
  OBVIOUS
<1>2. DOMAIN d = Address /\ \A b \in Address : \A k \in DOMAIN d[b] : Fits(k, d[b][k])
  BY DEF Shaped
<1>3. /\ DOMAIN e = Address
      /\ \A b \in Address : b # a => e[b] = d[b]
      /\ DOMAIN e[a] = DOMAIN d[a] \cup {key}
      /\ e[a][key] = entry
      /\ \A k \in DOMAIN d[a] : k # key => e[a][k] = d[a][k]
  BY <1>1, <1>2, EntryIsSet
<1>4. Shaped(e)
  <2>1. ASSUME NEW b \in Address, NEW k \in DOMAIN e[b] PROVE Fits(k, e[b][k])
    <3>1. CASE b = a /\ k = key
      BY <1>3, <3>1
    <3>2. CASE ~(b = a /\ k = key)
      BY <1>2, <1>3, <2>1, <3>2
    <3> QED  BY <3>1, <3>2
  <2> QED  BY <1>3, <2>1 DEF Shaped
<1>5. entry.balance \in Int
  BY DEF Fits, AnyEntry
<1>6. Adds(d, e, a, key, entry.balance - BalanceOf(d, a, key))
  <2> SUFFICES ASSUME NEW b \in Address, NEW k
               PROVE  BalanceOf(e, b, k) = BalanceOf(d, b, k)
                        + (IF b = a /\ k = key THEN entry.balance - BalanceOf(d, a, key) ELSE 0)
    BY DEF Adds
  <2>1. BalanceOf(d, b, k) \in Int
    BY BalanceType
  <2>2. CASE b = a /\ k = key
    <3>1. BalanceOf(e, b, k) = entry.balance
      BY <1>3, <2>2 DEF BalanceOf, Holds
    <3> QED  BY <1>5, <2>1, <2>2, <3>1
  <2>3. CASE ~(b = a /\ k = key)
    <3>1. BalanceOf(e, b, k) = BalanceOf(d, b, k)
      BY <1>2, <1>3, <2>3 DEF BalanceOf, Holds
    <3> QED  BY <2>1, <2>3, <3>1
  <2> QED  BY <2>2, <2>3
<1> QED  BY <1>1, <1>4, <1>6

(* NFTs keep their nonce and creator where they go, and an account the last  *)
(* nonce it has given.                                                       *)
MetadataFrom(d, e) ==
  \A a \in Address : \A key \in DOMAIN e[a] : \A m \in e[a][key].metadata :
    \E b \in Address :
      /\ key \in DOMAIN d[b]
      /\ \E n \in d[b][key].metadata : n.nonce = m.nonce /\ n.creator = m.creator
CountKept(d, e, a, token) ==
  token \in DOMAIN d[a] =>
    token \in DOMAIN e[a] /\ d[a][token].lastNonce <= e[a][token].lastNonce
Keeps(d, e) == MetadataFrom(d, e) /\ \A a \in Address, token \in Tokens : CountKept(d, e, a, token)

LEMMA SetKeeps ==
  ASSUME NEW d, Shaped(d), NEW a \in Address, NEW key, NEW entry, Fits(key, entry),
         key \in DOMAIN d[a] =>
           d[a][key].lastNonce <= entry.lastNonce
  PROVE  \A b \in Address, token \in Tokens :
           CountKept(d, SetEntry(d, a, key, entry), b, token)
<1>1. PICK e : e = SetEntry(d, a, key, entry)
  OBVIOUS
<1>2. /\ \A b \in Address : b # a => e[b] = d[b]
      /\ DOMAIN e[a] = DOMAIN d[a] \cup {key}
      /\ e[a][key] = entry
      /\ \A k \in DOMAIN d[a] : k # key => e[a][k] = d[a][k]
  BY <1>1, EntryIsSet DEF Shaped
<1>3. \A b \in Address : \A k \in DOMAIN d[b] : d[b][k].lastNonce <= d[b][k].lastNonce
  <2> SUFFICES ASSUME NEW b \in Address, NEW k \in DOMAIN d[b]
               PROVE  d[b][k].lastNonce <= d[b][k].lastNonce
    OBVIOUS
  <2>1. d[b][k].lastNonce \in Int
    BY EsdtAssumption DEF Shaped, Fits, AnyEntry
  <2> QED  BY <2>1
<1>4. ASSUME NEW b \in Address, NEW token \in Tokens PROVE CountKept(d, e, b, token)
  <2>1. CASE b = a /\ token = key
    BY <1>2, <2>1 DEF CountKept
  <2>2. CASE ~(b = a /\ token = key)
    BY <1>2, <1>3, <2>2 DEF CountKept
  <2> QED  BY <2>1, <2>2
<1> QED  BY <1>1, <1>4

LEMMA SetMetadata ==
  ASSUME NEW d, Shaped(d), NEW a \in Address, NEW key, NEW entry,
         \A m \in entry.metadata :
           \E b \in Address :
             /\ key \in DOMAIN d[b]
             /\ \E n \in d[b][key].metadata : n.nonce = m.nonce /\ n.creator = m.creator
  PROVE  MetadataFrom(d, SetEntry(d, a, key, entry))
<1>1. PICK e : e = SetEntry(d, a, key, entry)
  OBVIOUS
<1>2. /\ \A b \in Address : b # a => e[b] = d[b]
      /\ DOMAIN e[a] = DOMAIN d[a] \cup {key}
      /\ e[a][key] = entry
      /\ \A k \in DOMAIN d[a] : k # key => e[a][k] = d[a][k]
  BY <1>1, EntryIsSet DEF Shaped
<1> SUFFICES ASSUME NEW b \in Address, NEW k \in DOMAIN e[b], NEW m \in e[b][k].metadata
             PROVE  \E c \in Address :
                      /\ k \in DOMAIN d[c]
                      /\ \E n \in d[c][k].metadata : n.nonce = m.nonce /\ n.creator = m.creator
  BY <1>1 DEF MetadataFrom
<1>3. CASE b = a /\ k = key
  BY <1>2, <1>3
<1>4. CASE ~(b = a /\ k = key)
  <2>1. k \in DOMAIN d[b] /\ e[b][k] = d[b][k]
    BY <1>2, <1>4
  <2> QED  BY <2>1
<1> QED  BY <1>3, <1>4

LEMMA MetadataOn ==
  ASSUME NEW d, NEW e, NEW f, MetadataFrom(d, e), MetadataFrom(e, f)
  PROVE  MetadataFrom(d, f)
<1> SUFFICES ASSUME NEW a \in Address, NEW key \in DOMAIN f[a], NEW m \in f[a][key].metadata
             PROVE  \E b \in Address :
                      /\ key \in DOMAIN d[b]
                      /\ \E n \in d[b][key].metadata :
                           n.nonce = m.nonce /\ n.creator = m.creator
  BY DEF MetadataFrom
<1>1. PICK c \in Address :
        /\ key \in DOMAIN e[c]
        /\ \E n \in e[c][key].metadata : n.nonce = m.nonce /\ n.creator = m.creator
  BY DEF MetadataFrom
<1>2. PICK p \in e[c][key].metadata : p.nonce = m.nonce /\ p.creator = m.creator
  BY <1>1
<1>3. PICK b \in Address :
        /\ key \in DOMAIN d[b]
        /\ \E n \in d[b][key].metadata : n.nonce = p.nonce /\ n.creator = p.creator
  BY <1>1, <1>2 DEF MetadataFrom
<1> QED  BY <1>2, <1>3

LEMMA CountOn ==
  ASSUME NEW d, Shaped(d), NEW e, Shaped(e), NEW f, Shaped(f),
         NEW a \in Address, NEW token, CountKept(d, e, a, token), CountKept(e, f, a, token)
  PROVE  CountKept(d, f, a, token)
<1>1. \A g \in {d, e, f} : token \in DOMAIN g[a] => g[a][token].lastNonce \in Int
  BY EsdtAssumption DEF Shaped, Fits, AnyEntry
<1> QED  BY <1>1 DEF CountKept

LEMMA KeepsOn ==
  ASSUME NEW d, Shaped(d), NEW e, Shaped(e), NEW f, Shaped(f), Keeps(d, e), Keeps(e, f)
  PROVE  Keeps(d, f)
BY MetadataOn, CountOn DEF Keeps

LEMMA AddBalance ==
  ASSUME NEW d, Shaped(d), NEW a \in Address, NEW key, NEW v \in Int, NEW new \in BOOLEAN,
         NEW e \in AddToESDTBalance(d, a, key, v, new)
  PROVE  Shaped(e) /\ Keeps(d, e) /\ Adds(d, e, a, key, v)
<1>1. PICK old : old = EntryOrNew(d, a, key)
  OBVIOUS
<1>2. Fits(key, old)
  BY <1>1, NewFits DEF EntryOrNew, Holds, Shaped
<1>3. old.balance \in Int /\ BalanceOf(d, a, key) = old.balance
  BY <1>1, <1>2 DEF EntryOrNew, BalanceOf, NewEntry, Fits, AnyEntry
<1>4. PICK entry : entry = [old EXCEPT !.balance = @ + v]
  OBVIOUS
<1>5. /\ Fits(key, entry) /\ entry.metadata = old.metadata
      /\ entry.lastNonce = old.lastNonce /\ entry.balance = old.balance + v
  BY <1>2, <1>4 DEF Fits, AnyEntry
<1>6. e = SetEntry(d, a, key, entry)
  BY <1>1, <1>4 DEF AddToESDTBalance
<1>7. Shaped(e) /\ Adds(d, e, a, key, entry.balance - BalanceOf(d, a, key))
  BY <1>5, <1>6, SetShaped
<1>8. entry.balance - BalanceOf(d, a, key) = v
  BY <1>3, <1>5
<1>9. key \in DOMAIN d[a] => old = d[a][key]
  BY <1>1 DEF EntryOrNew, Holds, Shaped
<1>10. \A b \in Address, token \in Tokens : CountKept(d, e, b, token)
  <2>1. old.lastNonce \in Int
    BY <1>2, EsdtAssumption DEF Fits, AnyEntry
  <2>2. key \in DOMAIN d[a] => d[a][key].lastNonce <= entry.lastNonce
    BY <1>5, <1>9, <2>1
  <2> QED  BY <1>5, <1>6, <2>2, SetKeeps
<1>11. MetadataFrom(d, e)
  <2>1. ~(key \in DOMAIN d[a]) => old.metadata = {}
    BY <1>1 DEF EntryOrNew, Holds, NewEntry
  <2>2. \A m \in entry.metadata :
          \E b \in Address :
            /\ key \in DOMAIN d[b]
            /\ \E n \in d[b][key].metadata : n.nonce = m.nonce /\ n.creator = m.creator
    BY <1>5, <1>9, <2>1
  <2> QED  BY <1>6, <2>2, SetMetadata
<1> QED  BY <1>7, <1>8, <1>10, <1>11 DEF Keeps

(* An empty entry is worth nothing, and only its own count is lost with it.  *)
LEMMA RemoveEmpty ==
  ASSUME NEW d, Shaped(d), NEW a \in Address, NEW key, NEW e, e = RemoveEmptyNft(d, a, key)
  PROVE  /\ Shaped(e) /\ MetadataFrom(d, e)
         /\ \A b \in Address, token \in Tokens :
              (b = a /\ token = key /\ ~Holds(e, a, key)) \/ CountKept(d, e, b, token)
         /\ \A b \in Address : \A k : BalanceOf(e, b, k) = BalanceOf(d, b, k)
<1>1. DOMAIN d = Address /\ \A b \in Address : \A k \in DOMAIN d[b] : Fits(k, d[b][k])
  BY DEF Shaped
<1>2. \A b \in Address : \A k \in DOMAIN d[b] : d[b][k].lastNonce <= d[b][k].lastNonce
  <2> SUFFICES ASSUME NEW b \in Address, NEW k \in DOMAIN d[b]
               PROVE  d[b][k].lastNonce <= d[b][k].lastNonce
    OBVIOUS
  <2>1. d[b][k].lastNonce \in Int
    BY <1>1, EsdtAssumption DEF Fits, AnyEntry
  <2> QED  BY <2>1
<1>3. CASE Holds(d, a, key) /\ d[a][key].balance = 0
  <2>1. /\ DOMAIN e = Address
        /\ \A b \in Address : b # a => e[b] = d[b]
        /\ DOMAIN e[a] = DOMAIN d[a] \ {key}
        /\ \A k \in DOMAIN e[a] : e[a][k] = d[a][k]
    BY <1>1, <1>3 DEF RemoveEmptyNft, Without
  <2>2. \A b \in Address : \A k \in DOMAIN e[b] : k \in DOMAIN d[b] /\ e[b][k] = d[b][k]
    BY <2>1
  <2>3. Shaped(e)
    BY <1>1, <2>1, <2>2 DEF Shaped
  <2>4. MetadataFrom(d, e)
    BY <2>2 DEF MetadataFrom
  <2>5. ASSUME NEW b \in Address, NEW token \in Tokens, ~(b = a /\ token = key)
        PROVE  CountKept(d, e, b, token)
    BY <1>2, <2>1, <2>2, <2>5 DEF CountKept
  <2>6. ASSUME NEW b \in Address, NEW k PROVE BalanceOf(e, b, k) = BalanceOf(d, b, k)
    <3>1. CASE b = a /\ k = key
      BY <1>3, <2>1, <3>1 DEF BalanceOf, Holds
    <3>2. CASE ~(b = a /\ k = key)
      BY <1>1, <2>1, <3>2 DEF BalanceOf, Holds
    <3> QED  BY <3>1, <3>2
  <2>7. ~Holds(e, a, key)
    BY <2>1 DEF Holds
  <2> QED  BY <2>3, <2>4, <2>5, <2>6, <2>7
<1>4. CASE ~(Holds(d, a, key) /\ d[a][key].balance = 0)
  <2>1. e = d
    BY <1>4 DEF RemoveEmptyNft
  <2> QED  BY <1>2, <2>1 DEF MetadataFrom, CountKept
<1> QED  BY <1>3, <1>4

(* ------------------------------- Transfers ------------------------------- *)

(* A transfer moves what is there: no account is overdrawn, no supply changes.*)
Moves(d, e) ==
  /\ Shaped(e) /\ Keeps(d, e)
  /\ \A k : Supply(e, k) = Supply(d, k)
  /\ (\A a \in Address : \A k : BalanceOf(d, a, k) >= 0)
       => \A a \in Address : \A k : BalanceOf(e, a, k) >= 0

LEMMA NothingMoves == ASSUME NEW d, Shaped(d) PROVE Moves(d, d)
<1>1. MetadataFrom(d, d)
  BY DEF MetadataFrom
<1>2. ASSUME NEW b \in Address, NEW token \in Tokens PROVE CountKept(d, d, b, token)
  <2>1. token \in DOMAIN d[b] => d[b][token].lastNonce \in Int
    BY EsdtAssumption DEF Shaped, Fits, AnyEntry
  <2> QED  BY <2>1 DEF CountKept
<1> QED  BY <1>1, <1>2 DEF Moves, Keeps

LEMMA CheckedBalance ==
  ASSUME NEW d, NEW a, NEW key, NEW v, CheckESDTBalance(d, a, key, v) # {}
  PROVE  Holds(d, a, key) /\ v <= BalanceOf(d, a, key)
BY DEF CheckESDTBalance, BalanceOf

LEMMA Pays ==
  ASSUME NEW d, Shaped(d), NEW from \in Address, NEW to \in Address, NEW key, NEW v \in Nat,
         v <= BalanceOf(d, from, key),
         NEW e, Shaped(e), Adds(d, e, from, key, 0 - v),
         NEW f, Shaped(f), Adds(e, f, to, key, v)
  PROVE  /\ \A k : Supply(f, k) = Supply(d, k)
         /\ (\A a \in Address : \A k : BalanceOf(d, a, k) >= 0)
              => \A a \in Address : \A k : BalanceOf(f, a, k) >= 0
<1>1. ASSUME NEW k PROVE Supply(f, k) = Supply(d, k)
  <2>1. Supply(e, k) = Supply(d, k) + (IF k = key THEN 0 - v ELSE 0)
    BY SupplyAdds
  <2>2. Supply(f, k) = Supply(e, k) + (IF k = key THEN v ELSE 0)
    BY SupplyAdds
  <2>3. Supply(d, k) \in Int
    BY BalancesType
  <2> QED  BY <2>1, <2>2, <2>3
<1>2. ASSUME \A a \in Address : \A k : BalanceOf(d, a, k) >= 0, NEW a \in Address, NEW k
      PROVE  BalanceOf(f, a, k) >= 0
  <2>1. BalanceOf(e, a, k) = BalanceOf(d, a, k) + (IF a = from /\ k = key THEN 0 - v ELSE 0)
    BY DEF Adds
  <2>2. BalanceOf(f, a, k) = BalanceOf(e, a, k) + (IF a = to /\ k = key THEN v ELSE 0)
    BY DEF Adds
  <2>3. BalanceOf(d, a, k) \in Int /\ BalanceOf(d, a, k) >= 0
    BY <1>2, BalanceType
  <2>4. BalanceOf(e, a, k) \in Int /\ BalanceOf(e, a, k) >= 0
    BY <2>1, <2>3
  <2> QED  BY <2>2, <2>4
<1> QED  BY <1>1, <1>2

LEMMA MoveNFT ==
  ASSUME NEW d, Shaped(d), NEW from \in Address, NEW to \in Address, NEW key, NEW v \in Nat,
         Holds(d, from, key), v <= BalanceOf(d, from, key),
         NEW f, f = MoveNFTToDestination(d, from, to, key, v)
  PROVE  Moves(d, f)
<1>0. DOMAIN d = Address /\ \A b \in Address : \A k \in DOMAIN d[b] : Fits(k, d[b][k])
  BY DEF Shaped
<1>1. CASE from = to
  BY <1>1, NothingMoves DEF MoveNFTToDestination
<1>2. CASE from # to
  <2>1. PICK sent : sent = d[from][key]
    OBVIOUS
  <2>2. key \in DOMAIN d[from] /\ Fits(key, sent) /\ BalanceOf(d, from, key) = sent.balance
    BY <1>0, <2>1 DEF Holds, BalanceOf
  <2>3. PICK got : got = IF Holds(d, to, key) THEN d[to][key]
                         ELSE [NewEntry EXCEPT !.metadata = sent.metadata]
    OBVIOUS
  <2>4. /\ Holds(d, to, key) => got = d[to][key]
        /\ ~Holds(d, to, key) =>
             got.metadata = sent.metadata /\ got.balance = 0 /\ got.roles = {}
               /\ got.lastNonce = 0 /\ got \in AnyEntry
    <3>1. ~Holds(d, to, key) => got = [NewEntry EXCEPT !.metadata = sent.metadata]
      BY <2>3
    <3>2. sent.metadata \subseteq Metadata /\ 0 \in 0..MaxNonce
      BY <2>2, EsdtAssumption DEF Fits, AnyEntry
    <3> QED  BY <2>3, <3>1, <3>2 DEF NewEntry, AnyEntry
  <2>5. Fits(key, got)
    <3>1. CASE Holds(d, to, key)
      BY <1>0, <2>4, <3>1 DEF Holds
    <3>2. CASE ~Holds(d, to, key)
      BY <2>2, <2>4, <3>2 DEF Fits
    <3> QED  BY <3>1, <3>2
  <2>6. BalanceOf(d, to, key) = got.balance /\ got.balance \in Int /\ sent.balance \in Int
    BY <2>2, <2>4, <2>5 DEF BalanceOf, Fits, AnyEntry
  <2>7. PICK less : less = [sent EXCEPT !.balance = @ - v]
    OBVIOUS
  <2>8. /\ Fits(key, less) /\ less.balance = sent.balance - v
        /\ less.lastNonce = sent.lastNonce /\ less.metadata = sent.metadata
    BY <2>2, <2>7 DEF Fits, AnyEntry
  <2>9. PICK more : more = [got EXCEPT !.balance = @ + v]
    OBVIOUS
  <2>10. /\ Fits(key, more) /\ more.balance = got.balance + v
         /\ more.lastNonce = got.lastNonce /\ more.metadata = got.metadata
    BY <2>5, <2>9 DEF Fits, AnyEntry
  <2>11. PICK e : e = SetEntry(d, from, key, less)
    OBVIOUS
  <2>12. f = SetEntry(e, to, key, more)
    BY <1>2, <2>1, <2>3, <2>7, <2>9, <2>11 DEF MoveNFTToDestination
  <2>13. Shaped(e) /\ Adds(d, e, from, key, less.balance - BalanceOf(d, from, key))
    BY <2>8, <2>11, SetShaped
  <2>14. less.balance - BalanceOf(d, from, key) = 0 - v
    BY <2>2, <2>6, <2>8
  <2>15. Shaped(f) /\ Adds(e, f, to, key, more.balance - BalanceOf(e, to, key))
    BY <2>10, <2>12, <2>13, SetShaped
  <2>16. BalanceOf(e, to, key) = BalanceOf(d, to, key)
    <3>1. BalanceOf(e, to, key) = BalanceOf(d, to, key) + 0
      BY <1>2, <2>13 DEF Adds
    <3> QED  BY <2>6, <3>1
  <2>17. more.balance - BalanceOf(e, to, key) = v
    BY <2>6, <2>10, <2>16
  <2>18. /\ \A k : Supply(f, k) = Supply(d, k)
         /\ (\A a \in Address : \A k : BalanceOf(d, a, k) >= 0)
              => \A a \in Address : \A k : BalanceOf(f, a, k) >= 0
    BY <2>13, <2>14, <2>15, <2>17, Pays
  <2>19. sent.lastNonce \in Int /\ got.lastNonce \in Int
    BY <2>2, <2>5, EsdtAssumption DEF Fits, AnyEntry
  <2>20. Keeps(d, e)
    <3>1. d[from][key].lastNonce <= less.lastNonce
      BY <2>1, <2>8, <2>19
    <3>2. \A m \in less.metadata :
            \E b \in Address :
              /\ key \in DOMAIN d[b]
              /\ \E n \in d[b][key].metadata : n.nonce = m.nonce /\ n.creator = m.creator
      BY <2>1, <2>2, <2>8
    <3> QED  BY <2>8, <2>11, <3>1, <3>2, SetKeeps, SetMetadata DEF Keeps
  <2>21. e[from][key] = less /\ key \in DOMAIN e[from] /\ e[to] = d[to]
    BY <1>0, <1>2, <2>11, EntryIsSet
  <2>22. Keeps(e, f)
    <3>1. key \in DOMAIN e[to] => e[to][key].lastNonce <= more.lastNonce
      BY <1>0, <2>4, <2>10, <2>19, <2>21 DEF Holds
    <3>2. \A m \in more.metadata :
            \E b \in Address :
              /\ key \in DOMAIN e[b]
              /\ \E n \in e[b][key].metadata : n.nonce = m.nonce /\ n.creator = m.creator
      <4>1. CASE Holds(d, to, key)
        BY <2>4, <2>10, <2>21, <4>1 DEF Holds
      <4>2. CASE ~Holds(d, to, key)
        BY <2>4, <2>8, <2>10, <2>21, <4>2
      <4> QED  BY <4>1, <4>2
    <3> QED  BY <2>10, <2>12, <2>13, <3>1, <3>2, SetKeeps, SetMetadata DEF Keeps
  <2>23. Keeps(d, f)
    BY <2>13, <2>15, <2>20, <2>22, KeepsOn
  <2> QED  BY <2>15, <2>18, <2>23 DEF Moves
<1> QED  BY <1>1, <1>2

LEMMA TransferMoves ==
  ASSUME NEW d, Shaped(d), NEW from \in Address, NEW to \in Address,
         NEW t \in [token : Identifiers, nonce : Nat, value : Nat],
         NEW f \in TransferESDT(d, from, to, t)
  PROVE  Moves(d, f)
<1>1. PICK key : key = KeyWithNonce(t.token, t.nonce)
  OBVIOUS
<1>2. CheckESDTBalance(d, from, key, t.value) # {}
  BY <1>1 DEF TransferESDT
<1>3. Holds(d, from, key) /\ t.value <= BalanceOf(d, from, key) /\ t.value \in Nat
  BY <1>2, CheckedBalance
<1>4. CASE t.nonce = 0
  <2>1. PICK e \in AddToESDTBalance(d, from, key, 0 - t.value, FALSE) :
          f \in AddToESDTBalance(e, to, key, t.value, TRUE)
    <3>1. -t.value = 0 - t.value
      BY <1>3
    <3> QED  BY <1>1, <1>4, <3>1 DEF TransferESDT
  <2>2. 0 - t.value \in Int /\ t.value \in Int
    BY <1>3
  <2>3. Shaped(e) /\ Keeps(d, e) /\ Adds(d, e, from, key, 0 - t.value)
    BY <2>1, <2>2, AddBalance
  <2>4. Shaped(f) /\ Keeps(e, f) /\ Adds(e, f, to, key, t.value)
    BY <2>1, <2>2, <2>3, AddBalance
  <2>5. Keeps(d, f)
    BY <2>3, <2>4, KeepsOn
  <2>6. /\ \A k : Supply(f, k) = Supply(d, k)
        /\ (\A a \in Address : \A k : BalanceOf(d, a, k) >= 0)
             => \A a \in Address : \A k : BalanceOf(f, a, k) >= 0
    BY <1>3, <2>3, <2>4, Pays
  <2> QED  BY <2>4, <2>5, <2>6 DEF Moves
<1>5. CASE t.nonce # 0
  <2>1. PICK e : e = MoveNFTToDestination(d, from, to, key, t.value)
    OBVIOUS
  <2>2. f = RemoveEmptyNft(e, from, key)
    BY <1>1, <1>2, <1>5, <2>1 DEF TransferESDT
  <2>3. Moves(d, e)
    BY <1>3, <2>1, MoveNFT
  <2>4. key \notin Tokens
    BY <1>1, <1>5, NoTokenKey
  <2>5. /\ Shaped(f) /\ MetadataFrom(e, f)
        /\ \A b \in Address, token \in Tokens :
             (b = from /\ token = key /\ ~Holds(f, from, key)) \/ CountKept(e, f, b, token)
        /\ \A b \in Address : \A k : BalanceOf(f, b, k) = BalanceOf(e, b, k)
    BY <2>2, <2>3, RemoveEmpty DEF Moves
  <2>6. Keeps(e, f)
    BY <2>4, <2>5 DEF Keeps
  <2>7. Keeps(d, f)
    BY <2>3, <2>5, <2>6, KeepsOn DEF Moves
  <2>8. \A k : Supply(f, k) = Supply(d, k)
    BY <2>3, <2>5, SameSupply DEF Moves
  <2> QED  BY <2>3, <2>5, <2>7, <2>8 DEF Moves
<1> QED  BY <1>4, <1>5

LEMMA MovesOn ==
  ASSUME NEW d, Shaped(d), NEW e, Moves(d, e), NEW f, Moves(e, f)
  PROVE  Moves(d, f)
BY KeepsOn DEF Moves

(* The data after the first transfers of a list, as TransferESDTs defines    *)
(* them: the function exists, so its equation can be used.                   *)
Sent(d, from, to, list, n, g) ==
  g = [i \in 0..n |->
         IF i = 0 THEN {d} ELSE UNION {TransferESDT(e, from, to, list[i]) : e \in g[i - 1]}]

LEMMA SentExists ==
  ASSUME NEW d, NEW from, NEW to, NEW list
  PROVE  \A n \in Nat : \E g : Sent(d, from, to, list, n, g)
<1> DEFINE Missing == {n \in Nat : ~ \E g : Sent(d, from, to, list, n, g)}
           Next1(g, i) == UNION {TransferESDT(e, from, to, list[i]) : e \in g[i - 1]}
<1> SUFFICES ASSUME Missing # {} PROVE FALSE
  OBVIOUS
<1>1. PICK n \in Missing : \A m \in Missing : n <= m
  <2>1. Missing \in SUBSET Nat
    OBVIOUS
  <2> QED  BY <2>1, LeastNat
<1>2. CASE n = 0
  <2> DEFINE g == [i \in 0..0 |-> {d}]
  <2>1. g = [i \in 0..0 |-> IF i = 0 THEN {d} ELSE Next1(g, i)]
    <3> HIDE DEF Next1
    <3> QED  OBVIOUS
  <2>2. Sent(d, from, to, list, 0, g)
    BY <2>1 DEF Sent
  <2> QED  BY <1>2, <2>2
<1>3. CASE n # 0
  <2>1. n - 1 \in Nat /\ n - 1 \notin Missing
    BY <1>1, <1>3
  <2>2. PICK g : Sent(d, from, to, list, n - 1, g)
    BY <2>1
  <2>3. g = [i \in 0..(n - 1) |-> IF i = 0 THEN {d} ELSE Next1(g, i)]
    BY <2>2 DEF Sent
  <2> DEFINE h == [i \in 0..n |-> IF i = 0 THEN {d} ELSE Next1(g, i)]
  <2>4. \A i \in 0..(n - 1) : h[i] = g[i]
    <3> HIDE DEF Next1
    <3> QED  BY <2>1, <2>3
  <2>5. \A i \in 0..n : i # 0 => h[i - 1] = g[i - 1]
    <3> HIDE DEF h
    <3> QED  BY <2>1, <2>4
  <2>6. \A i \in 0..n : i # 0 => Next1(h, i) = Next1(g, i)
    <3> SUFFICES ASSUME NEW i \in 0..n, i # 0 PROVE Next1(h, i) = Next1(g, i)
      OBVIOUS
    <3>1. h[i - 1] = g[i - 1]
      BY <2>5
    <3> HIDE DEF h
    <3> QED  BY <3>1
  <2>7. h = [i \in 0..n |-> IF i = 0 THEN {d} ELSE Next1(h, i)]
    <3> HIDE DEF Next1
    <3> QED  BY <2>6
  <2>8. Sent(d, from, to, list, n, h)
    <3> HIDE DEF h
    <3> QED  BY <2>7 DEF Sent
  <2> QED  BY <2>8
<1> QED  BY <1>2, <1>3

LEMMA ListMoves ==
  ASSUME NEW d, Shaped(d), NEW from \in Address, NEW to \in Address, NEW list \in Lists,
         NEW f \in TransferESDTs(d, from, to, list)
  PROVE  Moves(d, f)
<1>1. list \in Seq([token : Identifiers, nonce : Nat, value : Nat]) /\ Len(list) \in Nat
  BY LenProperties, DataAssumption
<1> DEFINE after == CHOOSE g : Sent(d, from, to, list, Len(list), g)
<1>2. Sent(d, from, to, list, Len(list), after)
  BY <1>1, SentExists
<1>3. f \in after[Len(list)]
  BY DEF TransferESDTs, Sent
<1> HIDE DEF after
<1>4. after[0] = {d}
  BY <1>1, <1>2 DEF Sent
<1>5. \A i \in 1..Len(list) : \A e \in after[i] :
        \E c \in after[i - 1] : e \in TransferESDT(c, from, to, list[i])
  <2> SUFFICES ASSUME NEW i \in 1..Len(list), NEW e \in after[i]
               PROVE  \E c \in after[i - 1] : e \in TransferESDT(c, from, to, list[i])
    OBVIOUS
  <2>1. i \in 0..Len(list) /\ i # 0
    BY <1>1
  <2>2. after[i] = UNION {TransferESDT(c, from, to, list[i]) : c \in after[i - 1]}
    BY <1>2, <2>1 DEF Sent
  <2> QED  BY <2>2
<1> DEFINE Bad == {i \in 0..Len(list) : \E e \in after[i] : ~Moves(d, e)}
<1>6. Moves(d, d)
  BY NothingMoves
<1>7. Bad = {}
  <2> SUFFICES ASSUME Bad # {} PROVE FALSE
    OBVIOUS
  <2>1. PICK i \in Bad : \A j \in Bad : i <= j
    <3>1. Bad \in SUBSET Nat
      BY <1>1
    <3> HIDE DEF Bad
    <3> QED  BY <3>1, LeastNat
  <2>2. PICK e \in after[i] : ~Moves(d, e)
    OBVIOUS
  <2>3. i # 0
    BY <1>4, <1>6, <2>2
  <2>4. i \in 1..Len(list) /\ i - 1 \in 0..Len(list)
    BY <1>1, <2>3
  <2>5. PICK c \in after[i - 1] : e \in TransferESDT(c, from, to, list[i])
    BY <1>5, <2>4
  <2>6. i - 1 \notin Bad
    BY <1>1, <2>1, <2>4
  <2>7. Moves(d, c)
    BY <2>4, <2>5, <2>6
  <2>8. list[i] \in [token : Identifiers, nonce : Nat, value : Nat]
    BY <1>1, <2>4, ElementOfSeq
  <2>9. Moves(c, e)
    BY <2>5, <2>7, <2>8, TransferMoves DEF Moves
  <2> QED  BY <2>2, <2>7, <2>9, MovesOn
<1>8. Len(list) \in 0..Len(list)
  BY <1>1
<1> QED  BY <1>3, <1>7, <1>8

(* ------------------------------- The invariant --------------------------- *)

(* A change of one balance: the supply changes with it, within its bound, by *)
(* an account that may.                                                      *)
Authorised(a, key, v) ==
  v # 0 =>
    IF v < 0 THEN \/ May(a, key, "ESDTRoleNFTBurn")
                  \/ ~IsNft(key) /\ May(a, key, "ESDTRoleLocalBurn")
    ELSE IF ~IsNft(key) THEN May(a, key, "ESDTRoleLocalMint")
    ELSE \/ May(a, key, "ESDTRoleNFTAddQuantity")
         \/ v = 1 /\ May(a, key, "ESDTRoleNFTCreate") /\ ~Holds(esdtDatas, a, key)
Changes(a, key, v) ==
  /\ Adds(esdtDatas, esdtDatas', a, key, v)
  /\ BalanceOf(esdtDatas, a, key) + v >= 0 /\ Supply(esdtDatas, key) + v <= MaxSupply
  /\ Authorised(a, key, v)

(* What every step does.                                                     *)
Works ==
  /\ Shaped(esdtDatas') /\ stuck' \in BOOLEAN
  /\ \/ Moves(esdtDatas, esdtDatas')
     \/ \E a \in Address : \E key : \E v \in Int : Changes(a, key, v)
  /\ ~stuck' /\ Counted(esdtDatas, dropped) => Counted(esdtDatas', dropped')

DataInv ==
  Shaped(esdtDatas) /\ Covered(esdtDatas) /\ stuck \in BOOLEAN

LEMMA StaysCounted ==
  ASSUME NEW d, Shaped(d), NEW e, Shaped(e), NEW lost, NEW gone, lost \subseteq gone,
         Counted(d, lost), MetadataFrom(d, e),
         \A a \in Address, token \in Tokens : <<a, token>> \in gone \/ CountKept(d, e, a, token)
  PROVE  Counted(e, gone)
<1> SUFFICES ASSUME NEW a \in Address, NEW key \in DOMAIN e[a], NEW m \in e[a][key].metadata,
                    <<m.creator, TokenOf(key)>> \notin gone
             PROVE  /\ Holds(e, m.creator, TokenOf(key))
                    /\ m.nonce <= e[m.creator][TokenOf(key)].lastNonce
  BY DEF Counted
<1>1. PICK b \in Address :
        /\ key \in DOMAIN d[b]
        /\ \E n \in d[b][key].metadata : n.nonce = m.nonce /\ n.creator = m.creator
  BY DEF MetadataFrom
<1>2. PICK n \in d[b][key].metadata : n.nonce = m.nonce /\ n.creator = m.creator
  BY <1>1
<1> DEFINE c     == m.creator
           token == TokenOf(key)
<1>3. Fits(key, d[b][key])
  BY <1>1 DEF Shaped
<1>4. c \in Address /\ m.nonce \in Nat /\ token \in Tokens
  BY <1>2, <1>3 DEF Fits, AnyEntry, Metadata
<1>5. Holds(d, c, token) /\ m.nonce <= d[c][token].lastNonce
  BY <1>1, <1>2 DEF Counted
<1>6. CountKept(d, e, c, token)
  BY <1>4
<1>7. Holds(e, c, token) /\ d[c][token].lastNonce <= e[c][token].lastNonce
  BY <1>4, <1>5, <1>6 DEF CountKept, Holds, Shaped
<1>8. d[c][token].lastNonce \in Int /\ e[c][token].lastNonce \in Int
  BY <1>4, <1>5, <1>7, EsdtAssumption DEF Shaped, Fits, AnyEntry, Holds
<1> QED  BY <1>4, <1>5, <1>7, <1>8

LEMMA MovesWork ==
  ASSUME DataInv, Moves(esdtDatas, esdtDatas'), UNCHANGED <<stuck, dropped>>
  PROVE  Works
<1>1. Counted(esdtDatas, dropped) => Counted(esdtDatas', dropped')
  <2>1. dropped' = dropped
    OBVIOUS
  <2> QED  BY <2>1, StaysCounted DEF Moves, Keeps, DataInv
<1> QED  BY <1>1 DEF Works, Moves, DataInv

LEMMA ChangesWork ==
  ASSUME DataInv, NEW a \in Address, NEW key, NEW v \in Int, Changes(a, key, v),
         Shaped(esdtDatas'), Keeps(esdtDatas, esdtDatas'), UNCHANGED <<stuck, dropped>>
  PROVE  Works
<1>1. Counted(esdtDatas, dropped) => Counted(esdtDatas', dropped')
  <2>1. dropped' = dropped
    OBVIOUS
  <2> QED  BY <2>1, StaysCounted DEF Keeps, DataInv
<1>2. \E b \in Address : \E k : \E w \in Int : Changes(b, k, w)
  OBVIOUS
<1> QED  BY <1>1, <1>2 DEF Works, DataInv

(* A step keeps the invariant.                                               *)
LEMMA WorksInv ==
  ASSUME DataInv, Works
  PROVE  DataInv'
<1>1. Shaped(esdtDatas)' /\ (stuck \in BOOLEAN)'
  BY DEF Works
<1>2. ASSUME Moves(esdtDatas, esdtDatas') PROVE Covered(esdtDatas')
  BY <1>2 DEF Moves, Covered, DataInv
<1>3. ASSUME NEW a \in Address, NEW key, NEW v \in Int, Changes(a, key, v)
      PROVE  Covered(esdtDatas')
  <2>1. ASSUME NEW b \in Address, NEW k PROVE BalanceOf(esdtDatas', b, k) >= 0
    <3>1. BalanceOf(esdtDatas, b, k) \in Int /\ BalanceOf(esdtDatas, b, k) >= 0
      BY BalanceType DEF DataInv, Covered
    <3>2. BalanceOf(esdtDatas', b, k)
            = BalanceOf(esdtDatas, b, k) + (IF b = a /\ k = key THEN v ELSE 0)
      BY <1>3 DEF Changes, Adds
    <3> QED  BY <1>3, <3>1, <3>2 DEF Changes
  <2>2. ASSUME NEW k PROVE Supply(esdtDatas', k) <= MaxSupply
    <3>1. Supply(esdtDatas', k) = Supply(esdtDatas, k) + (IF k = key THEN v ELSE 0)
      BY <1>3, SupplyAdds DEF Changes, DataInv
    <3>2. Supply(esdtDatas, k) \in Int /\ Supply(esdtDatas, k) <= MaxSupply
      BY BalancesType DEF DataInv, Covered
    <3> QED  BY <1>3, <3>1, <3>2 DEF Changes
  <2> QED  BY <2>1, <2>2 DEF Covered
<1>4. Covered(esdtDatas')
  BY <1>2, <1>3 DEF Works
<1> QED  BY <1>1, <1>4 DEF DataInv

(* ------------------------------ The functions ---------------------------- *)

LEMMA FungibleWorks ==
  ASSUME DataInv, NEW a \in Address, NEW token \in Tokens, Fungible(a, token)
  PROVE  Works
<1>0. Shaped(esdtDatas) /\ Covered(esdtDatas) /\ ~IsNft(token) /\ TokenOf(token) = token
  BY TokenKeys DEF DataInv
<1>1. PICK value \in Quantities : ESDTLocalMint(a, token, value) \/ ESDTLocalBurn(a, token, value)
  BY DEF Fungible
<1>2. value \in Nat /\ BalanceOf(esdtDatas, a, token) \in Int /\ BalanceOf(esdtDatas, a, token) >= 0
  BY <1>0, EsdtAssumption, BalanceType DEF Covered
<1>3. Supply(esdtDatas, token) \in Int /\ Supply(esdtDatas, token) <= MaxSupply
      /\ MaxSupply \in Nat
  BY <1>0, BalancesType, EsdtAssumption DEF Covered
<1>4. CASE ESDTLocalMint(a, token, value)
  <2>1. /\ CheckAllowedToExecute(a, token, "ESDTRoleLocalMint")
        /\ Supply(esdtDatas, token) + value <= MaxSupply
        /\ esdtDatas' \in AddToESDTBalance(esdtDatas, a, token, value, TRUE)
        /\ UNCHANGED <<stuck, dropped>>
    BY <1>4 DEF ESDTLocalMint, Room, Becomes
  <2>2. value \in Int
    BY <1>2
  <2>3. /\ Shaped(esdtDatas') /\ Keeps(esdtDatas, esdtDatas')
        /\ Adds(esdtDatas, esdtDatas', a, token, value)
    BY <1>0, <2>1, <2>2, AddBalance
  <2>4. Authorised(a, token, value)
    BY <1>0, <1>2, <2>1 DEF Authorised, May
  <2>5. Changes(a, token, value)
    BY <1>2, <2>1, <2>3, <2>4 DEF Changes
  <2> QED  BY <2>1, <2>2, <2>3, <2>5, ChangesWork
<1>5. CASE ESDTLocalBurn(a, token, value)
  <2>1. /\ CheckAllowedToExecute(a, token, "ESDTRoleLocalBurn")
        /\ CheckESDTBalance(esdtDatas, a, token, value) # {}
        /\ esdtDatas' \in AddToESDTBalance(esdtDatas, a, token, -value, FALSE)
        /\ UNCHANGED <<stuck, dropped>>
    BY <1>5 DEF ESDTLocalBurn, Becomes
  <2>2. PICK v \in Int : v = -value
    BY <1>2
  <2>3. /\ Shaped(esdtDatas') /\ Keeps(esdtDatas, esdtDatas')
        /\ Adds(esdtDatas, esdtDatas', a, token, v)
    BY <1>0, <2>1, <2>2, AddBalance
  <2>4. value <= BalanceOf(esdtDatas, a, token)
    BY <2>1, CheckedBalance
  <2>5. Authorised(a, token, v)
    BY <1>0, <1>2, <2>1, <2>2 DEF Authorised, May
  <2>6. BalanceOf(esdtDatas, a, token) + v >= 0 /\ Supply(esdtDatas, token) + v <= MaxSupply
    BY <1>2, <1>3, <2>2, <2>4
  <2>7. Changes(a, token, v)
    BY <2>3, <2>5, <2>6 DEF Changes
  <2> QED  BY <2>1, <2>3, <2>7, ChangesWork
<1> QED  BY <1>1, <1>4, <1>5

LEMMA TransferWorks ==
  ASSUME DataInv, NEW from \in Address, NEW to \in Address, NEW id \in Identifiers,
         NEW q \in Quantities, ESDTTransfer(from, to, id, q)
  PROVE  Works
<1>1. [token |-> id, nonce |-> 0, value |-> q] \in [token : Identifiers, nonce : Nat, value : Nat]
  BY EsdtAssumption
<1>2. /\ esdtDatas' \in TransferESDT(esdtDatas, from, to,
                                     [token |-> id, nonce |-> 0, value |-> q])
      /\ UNCHANGED <<stuck, dropped>>
  BY DEF ESDTTransfer, Becomes
<1>3. Moves(esdtDatas, esdtDatas')
  BY <1>1, <1>2, TransferMoves DEF DataInv
<1> QED  BY <1>2, <1>3, MovesWork

LEMMA NFTTransferWorks ==
  ASSUME DataInv, NEW from \in Address, NEW to \in Address, NEW list \in Lists,
         ESDTNFTTransfer(from, to, list)
  PROVE  Works
<1>1. esdtDatas' \in TransferESDTs(esdtDatas, from, to, list) /\ UNCHANGED <<stuck, dropped>>
  BY DEF ESDTNFTTransfer, Becomes
<1>2. Moves(esdtDatas, esdtDatas')
  BY <1>1, ListMoves DEF DataInv
<1> QED  BY <1>1, <1>2, MovesWork

LEMMA SetMoves ==
  ASSUME DataInv, NEW a \in Address, NEW key, NEW entry, Fits(key, entry),
         entry.balance = BalanceOf(esdtDatas, a, key),
         key \in DOMAIN esdtDatas[a] => esdtDatas[a][key].lastNonce = entry.lastNonce,
         \A m \in entry.metadata :
           /\ key \in DOMAIN esdtDatas[a]
           /\ \E n \in esdtDatas[a][key].metadata : n.nonce = m.nonce /\ n.creator = m.creator,
         esdtDatas' = SetEntry(esdtDatas, a, key, entry), UNCHANGED <<stuck, dropped>>
  PROVE  Works
<1>1. Shaped(esdtDatas)
  BY DEF DataInv
<1>2. entry.balance \in Int /\ entry.lastNonce \in Int /\ BalanceOf(esdtDatas, a, key) \in Int
  BY <1>1, BalanceType, EsdtAssumption DEF Fits, AnyEntry
<1>3. /\ Shaped(esdtDatas')
      /\ Adds(esdtDatas, esdtDatas', a, key, entry.balance - BalanceOf(esdtDatas, a, key))
  BY <1>1, SetShaped
<1>4. entry.balance - BalanceOf(esdtDatas, a, key) = 0
  BY <1>2
<1>5. \A b \in Address : \A k : BalanceOf(esdtDatas', b, k) = BalanceOf(esdtDatas, b, k)
  <2> SUFFICES ASSUME NEW b \in Address, NEW k
               PROVE  BalanceOf(esdtDatas', b, k) = BalanceOf(esdtDatas, b, k)
    OBVIOUS
  <2>1. BalanceOf(esdtDatas, b, k) \in Int
    BY <1>1, BalanceType
  <2>2. BalanceOf(esdtDatas', b, k) = BalanceOf(esdtDatas, b, k) + 0
    BY <1>3, <1>4 DEF Adds
  <2> QED  BY <2>1, <2>2
<1>6. \A k : Supply(esdtDatas', k) = Supply(esdtDatas, k)
  BY <1>5, SameSupply
<1>7. \A b \in Address, token \in Tokens : CountKept(esdtDatas, esdtDatas', b, token)
  <2>1. key \in DOMAIN esdtDatas[a] => esdtDatas[a][key].lastNonce <= entry.lastNonce
    BY <1>2
  <2> QED  BY <1>1, <2>1, SetKeeps
<1>8. MetadataFrom(esdtDatas, esdtDatas')
  BY <1>1, SetMetadata
<1>9. Moves(esdtDatas, esdtDatas')
  BY <1>3, <1>5, <1>6, <1>7, <1>8 DEF Moves, Keeps
<1> QED  BY <1>9, MovesWork

LEMMA AddURIWorks ==
  ASSUME DataInv, NEW a \in Address, NEW token \in Tokens, NEW nonce \in Nonces,
         NEW uri \in Uris, ESDTNFTAddURI(a, token, nonce, uri)
  PROVE  Works
<1>1. PICK key : key = KeyWithNonce(token, nonce)
  OBVIOUS
<1>2. PICK old : old = esdtDatas[a][key]
  OBVIOUS
<1>3. PICK m \in old.metadata :
        /\ Holds(esdtDatas, a, key)
        /\ esdtDatas' = SetEntry(esdtDatas, a, key,
                          [old EXCEPT !.metadata = {[m EXCEPT !.uris = Append(@, uri)]}])
        /\ UNCHANGED <<stuck, dropped>>
  BY <1>1, <1>2 DEF ESDTNFTAddURI, Becomes
<1>4. key \in DOMAIN esdtDatas[a] /\ Fits(key, old)
  BY <1>2, <1>3 DEF Holds, DataInv, Shaped
<1>5. PICK n : n = [m EXCEPT !.uris = Append(@, uri)]
  OBVIOUS
<1>6. n \in Metadata /\ n.nonce = m.nonce /\ n.creator = m.creator
  <2>1. m \in Metadata
    BY <1>4 DEF Fits, AnyEntry
  <2>2. m.uris \in Seq(Uris)
    BY <2>1 DEF Metadata
  <2>3. Append(m.uris, uri) \in Seq(Uris)
    BY <2>2, AppendProperties
  <2> QED  BY <1>5, <2>1, <2>3 DEF Metadata
<1>7. PICK entry : entry = [old EXCEPT !.metadata = {n}]
  OBVIOUS
<1>8. /\ entry \in AnyEntry /\ entry.balance = old.balance /\ entry.roles = old.roles
      /\ entry.lastNonce = old.lastNonce /\ entry.metadata = {n}
  BY <1>4, <1>6, <1>7 DEF Fits, AnyEntry
<1>9. Fits(key, entry)
  BY <1>3, <1>4, <1>6, <1>8 DEF Fits
<1>10. entry.balance = BalanceOf(esdtDatas, a, key)
  BY <1>2, <1>3, <1>8 DEF BalanceOf
<1>11. esdtDatas' = SetEntry(esdtDatas, a, key, entry) /\ UNCHANGED <<stuck, dropped>>
  BY <1>3, <1>5, <1>7
<1>12. key \in DOMAIN esdtDatas[a] => esdtDatas[a][key].lastNonce = entry.lastNonce
  BY <1>2, <1>8
<1>13. \A x \in entry.metadata :
         /\ key \in DOMAIN esdtDatas[a]
         /\ \E y \in esdtDatas[a][key].metadata : y.nonce = x.nonce /\ y.creator = x.creator
  BY <1>2, <1>3, <1>4, <1>6, <1>8
<1> QED  BY <1>9, <1>10, <1>11, <1>12, <1>13, SetMoves

LEMMA SetRoleWorks ==
  ASSUME DataInv, NEW g \in Grants, NEW p \in BOOLEAN, SetESDTRole(g, p)
  PROVE  Works
<1>1. g.account \in Address /\ g.token \in Tokens /\ g.role \in Roles
  BY DataAssumption
<1>2. PICK old : old = EntryOrNew(esdtDatas, g.account, g.token)
  OBVIOUS
<1>3. PICK entry : entry = [old EXCEPT !.roles = IF p THEN @ \cup {g.role} ELSE @ \ {g.role}]
  OBVIOUS
<1>4. esdtDatas' = SetEntry(esdtDatas, g.account, g.token, entry) /\ UNCHANGED <<stuck, dropped>>
  BY <1>2, <1>3 DEF SetESDTRole, Becomes
<1>5. Fits(g.token, old)
  BY <1>1, <1>2, NewFits DEF EntryOrNew, Holds, DataInv, Shaped
<1>6. /\ entry \in AnyEntry /\ entry.balance = old.balance
      /\ entry.lastNonce = old.lastNonce /\ entry.metadata = old.metadata
  BY <1>1, <1>3, <1>5 DEF Fits, AnyEntry
<1>7. Fits(g.token, entry)
  BY <1>1, <1>5, <1>6, TokenKeys DEF Fits
<1>8. entry.balance = BalanceOf(esdtDatas, g.account, g.token)
  BY <1>2, <1>6 DEF BalanceOf, EntryOrNew, NewEntry
<1>9. DOMAIN esdtDatas = Address
  BY DEF DataInv, Shaped
<1>10. /\ g.token \in DOMAIN esdtDatas[g.account] => old = esdtDatas[g.account][g.token]
       /\ ~(g.token \in DOMAIN esdtDatas[g.account]) => old.metadata = {}
  BY <1>1, <1>2, <1>9 DEF EntryOrNew, Holds, NewEntry
<1> QED  BY <1>1, <1>4, <1>6, <1>7, <1>8, <1>10, SetMoves

LEMMA AddQuantityWorks ==
  ASSUME DataInv, NEW a \in Address, NEW token \in Tokens, NEW nonce \in Nonces,
         NEW q \in Quantities, ESDTNFTAddQuantity(a, token, nonce, q)
  PROVE  Works
<1>1. PICK key : key = KeyWithNonce(token, nonce)
  OBVIOUS
<1>2. /\ CheckAllowedToExecute(a, token, "ESDTRoleNFTAddQuantity") /\ nonce # 0
      /\ Supply(esdtDatas, key) + q <= MaxSupply
      /\ esdtDatas' \in AddToESDTBalance(esdtDatas, a, key, q, FALSE)
      /\ UNCHANGED <<stuck, dropped>>
  BY <1>1 DEF ESDTNFTAddQuantity, Room, Becomes
<1>3. Shaped(esdtDatas) /\ IsNft(key) /\ TokenOf(key) = token /\ q \in Nat
  BY <1>1, <1>2, KeyOfToken, EsdtAssumption DEF DataInv
<1>4. BalanceOf(esdtDatas, a, key) \in Int /\ BalanceOf(esdtDatas, a, key) >= 0
  BY <1>3, BalanceType DEF DataInv, Covered
<1>5. /\ Shaped(esdtDatas') /\ Keeps(esdtDatas, esdtDatas')
      /\ Adds(esdtDatas, esdtDatas', a, key, q)
  <2>1. q \in Int /\ FALSE \in BOOLEAN
    BY <1>3
  <2> QED  BY <1>2, <1>3, <2>1, AddBalance
<1>6. Authorised(a, key, q)
  BY <1>2, <1>3 DEF Authorised, May
<1>7. Changes(a, key, q) /\ q \in Int
  BY <1>2, <1>3, <1>4, <1>5, <1>6 DEF Changes
<1> QED  BY <1>2, <1>5, <1>7, ChangesWork

LEMMA BurnWorks ==
  ASSUME DataInv, NEW a \in Address, NEW token \in Tokens, NEW nonce \in Nonces,
         NEW q \in Quantities, ESDTNFTBurn(a, token, nonce, q)
  PROVE  Works
<1>1. PICK key : key = KeyWithNonce(token, nonce)
  OBVIOUS
<1>2. PICK v : v = -q
  OBVIOUS
<1>3. /\ CheckAllowedToExecute(a, token, "ESDTRoleNFTBurn")
      /\ CheckESDTBalance(esdtDatas, a, key, q) # {}
      /\ dropped' = dropped \cup (IF nonce # 0 \/ Holds(esdtDatas', a, key) THEN {}
                                  ELSE {<<a, token>>})
      /\ UNCHANGED stuck
  BY <1>1 DEF ESDTNFTBurn
<1>4. PICK d \in AddToESDTBalance(esdtDatas, a, key, v, FALSE) :
        esdtDatas' = RemoveEmptyNft(d, a, key)
  BY <1>1, <1>2 DEF ESDTNFTBurn
<1>5. /\ Shaped(esdtDatas) /\ q \in Nat /\ v \in Int /\ v = 0 - q /\ v <= 0 /\ nonce \in Nat
      /\ MaxSupply \in Nat
  BY <1>2, EsdtAssumption DEF DataInv
<1>6. TokenOf(key) = token /\ (IsNft(key) <=> nonce # 0) /\ (nonce = 0 => key = token)
  BY <1>1, <1>5, KeyOfToken
<1>7. Shaped(d) /\ Keeps(esdtDatas, d) /\ Adds(esdtDatas, d, a, key, v)
  <2>1. FALSE \in BOOLEAN
    OBVIOUS
  <2> QED  BY <1>4, <1>5, <2>1, AddBalance
<1>8. /\ Shaped(esdtDatas') /\ MetadataFrom(d, esdtDatas')
      /\ \A b \in Address, t \in Tokens :
           (b = a /\ t = key /\ ~Holds(esdtDatas', a, key)) \/ CountKept(d, esdtDatas', b, t)
      /\ \A b \in Address : \A k : BalanceOf(esdtDatas', b, k) = BalanceOf(d, b, k)
  BY <1>4, <1>7, RemoveEmpty
<1>9. Counted(esdtDatas, dropped) => Counted(esdtDatas', dropped')
  <2>1. dropped \subseteq dropped'
    BY <1>3
  <2>2. MetadataFrom(esdtDatas, esdtDatas')
    BY <1>7, <1>8, MetadataOn DEF Keeps
  <2>3. ASSUME NEW b \in Address, NEW t \in Tokens, <<b, t>> \notin dropped'
        PROVE  CountKept(esdtDatas, esdtDatas', b, t)
    <3>1. ~(b = a /\ t = key /\ ~Holds(esdtDatas', a, key))
      <4> SUFFICES ASSUME b = a, t = key, ~Holds(esdtDatas', a, key) PROVE FALSE
        OBVIOUS
      <4>1. nonce = 0
        BY <1>6, TokenKeys
      <4> QED  BY <1>3, <1>6, <2>3, <4>1
    <3>2. CountKept(d, esdtDatas', b, t) /\ CountKept(esdtDatas, d, b, t)
      BY <1>7, <1>8, <3>1 DEF Keeps
    <3> QED  BY <1>5, <1>7, <1>8, <3>2, CountOn
  <2> QED  BY <1>5, <1>8, <2>1, <2>2, <2>3, StaysCounted
<1>10. Adds(esdtDatas, esdtDatas', a, key, v)
  BY <1>7, <1>8 DEF Adds
<1>11. q <= BalanceOf(esdtDatas, a, key) /\ BalanceOf(esdtDatas, a, key) \in Int
  BY <1>3, <1>5, CheckedBalance, BalanceType
<1>12. Supply(esdtDatas, key) \in Int /\ Supply(esdtDatas, key) <= MaxSupply
  BY <1>5, BalancesType DEF DataInv, Covered
<1>13. Authorised(a, key, v)
  BY <1>3, <1>5, <1>6 DEF Authorised, May
<1>14. Changes(a, key, v)
  <2>1. BalanceOf(esdtDatas, a, key) + v >= 0 /\ Supply(esdtDatas, key) + v <= MaxSupply
    BY <1>5, <1>11, <1>12
  <2> QED  BY <1>10, <1>13, <2>1 DEF Changes
<1>15. stuck' \in BOOLEAN
  BY <1>3 DEF DataInv
<1> QED  BY <1>5, <1>8, <1>9, <1>14, <1>15 DEF Works

(* A new NFT, before its nonce is counted.                                   *)
LEMMA NewNFT ==
  ASSUME DataInv, NEW a \in Address, NEW token \in Tokens, NEW q \in Quantities,
         MayCreate(a, token, q), NEW nonce, nonce = GetLatestNonce(a, token) + 1,
         nonce <= MaxNonce, NEW key, key = KeyWithNonce(token, nonce), Room(key, q),
         ~Holds(esdtDatas, a, key), NEW e, e = SaveNFT(a, token, nonce, q)
  PROVE  /\ Shaped(e) /\ Adds(esdtDatas, e, a, key, q) /\ q \in Int
         /\ BalanceOf(esdtDatas, a, key) + q >= 0 /\ Supply(esdtDatas, key) + q <= MaxSupply
         /\ Authorised(a, key, q)
         /\ nonce \in Nat \ {0} /\ IsNft(key) /\ TokenOf(key) = token /\ key # token
         /\ \A b \in Address, t \in Tokens : CountKept(esdtDatas, e, b, t)
         /\ DOMAIN e = Address
         /\ \A b \in Address : b # a => e[b] = esdtDatas[b]
         /\ DOMAIN e[a] = DOMAIN esdtDatas[a] \cup {key}
         /\ \A m \in e[a][key].metadata : m.nonce = nonce /\ m.creator = a
         /\ \A k \in DOMAIN esdtDatas[a] : k # key => e[a][k] = esdtDatas[a][k]
<1>1. Shaped(esdtDatas) /\ q \in Nat /\ MaxNonce \in Nat
  BY EsdtAssumption DEF DataInv
<1>2. nonce \in Nat \ {0} /\ nonce <= MaxNonce
  <2>1. GetLatestNonce(a, token) \in Nat
    BY <1>1 DEF GetLatestNonce, Holds, Shaped, Fits, AnyEntry
  <2> QED  BY <2>1
<1>3. IsNft(key) /\ TokenOf(key) = token /\ key # token
  BY <1>2, NftKeys, TokenKeys
<1>4. PICK m : m = [nonce |-> nonce, creator |-> a, uris |-> <<>>]
  OBVIOUS
<1>5. m \in Metadata /\ m.nonce = nonce /\ m.creator = a
  <2>1. <<>> \in Seq(Uris)
    OBVIOUS
  <2> QED  BY <1>2, <1>4, <2>1 DEF Metadata
<1>6. PICK entry : entry = [NewEntry EXCEPT !.balance = q, !.metadata = {m}]
  OBVIOUS
<1>7. e = SetEntry(esdtDatas, a, key, entry)
  BY <1>4, <1>6 DEF SaveNFT, EsdtMetadata
<1>8. /\ entry.balance = q /\ entry.roles = {} /\ entry.metadata = {m}
      /\ entry \in AnyEntry
  <2>1. entry = [balance |-> q, roles |-> {}, metadata |-> {m}, lastNonce |-> 0]
    BY <1>6 DEF NewEntry
  <2>2. {m} \in SUBSET Metadata /\ 0 \in 0..MaxNonce /\ q \in Int
    BY <1>1, <1>5
  <2> QED  BY <2>1, <2>2 DEF AnyEntry
<1>9. Fits(key, entry)
  BY <1>3, <1>5, <1>8 DEF Fits
<1>10. BalanceOf(esdtDatas, a, key) = 0 /\ key \notin DOMAIN esdtDatas[a]
  BY <1>1 DEF BalanceOf, Holds, Shaped
<1>11. Shaped(e) /\ Adds(esdtDatas, e, a, key, entry.balance - BalanceOf(esdtDatas, a, key))
  BY <1>1, <1>7, <1>9, SetShaped
<1>12. entry.balance - BalanceOf(esdtDatas, a, key) = q
  BY <1>1, <1>8, <1>10
<1>13. \A b \in Address, t \in Tokens : CountKept(esdtDatas, e, b, t)
  BY <1>1, <1>7, <1>9, <1>10, SetKeeps
<1>14. Authorised(a, key, q)
  BY <1>1, <1>3 DEF Authorised, May, MayCreate
<1>15. /\ DOMAIN e = Address
       /\ \A b \in Address : b # a => e[b] = esdtDatas[b]
       /\ DOMAIN e[a] = DOMAIN esdtDatas[a] \cup {key}
       /\ e[a][key] = entry
       /\ \A k \in DOMAIN esdtDatas[a] : k # key => e[a][k] = esdtDatas[a][k]
  BY <1>1, <1>7, EntryIsSet DEF Shaped
<1>16. \A n \in e[a][key].metadata : n.nonce = nonce /\ n.creator = a
  BY <1>5, <1>8, <1>15
<1>17. BalanceOf(esdtDatas, a, key) + q >= 0 /\ Supply(esdtDatas, key) + q <= MaxSupply
  BY <1>1, <1>10 DEF Room
<1> QED  BY <1>1, <1>2, <1>3, <1>11, <1>12, <1>13, <1>14, <1>15, <1>16, <1>17

LEMMA CreateStuckWorks ==
  ASSUME DataInv, NEW a \in Address, NEW token \in Tokens, NEW q \in Quantities,
         NFTCreateStuck(a, token, q)
  PROVE  Works
<1>1. PICK nonce : nonce = GetLatestNonce(a, token) + 1
  OBVIOUS
<1>2. PICK key : key = KeyWithNonce(token, nonce)
  OBVIOUS
<1>3. MayCreate(a, token, q) /\ nonce <= MaxNonce /\ Room(key, q) /\ stuck'
  BY <1>1, <1>2 DEF NFTCreateStuck
<1>4. CASE UNCHANGED esdtDatas
  <2>1. Shaped(esdtDatas') /\ Moves(esdtDatas, esdtDatas')
    BY <1>4, NothingMoves DEF DataInv
  <2> QED  BY <1>3, <2>1 DEF Works
<1>5. CASE ~Holds(esdtDatas, a, key) /\ esdtDatas' = SaveNFT(a, token, nonce, q)
  <2>1. /\ Shaped(esdtDatas') /\ Adds(esdtDatas, esdtDatas', a, key, q) /\ q \in Int
        /\ BalanceOf(esdtDatas, a, key) + q >= 0 /\ Supply(esdtDatas, key) + q <= MaxSupply
        /\ Authorised(a, key, q)
    BY <1>1, <1>2, <1>3, <1>5, NewNFT
  <2>2. Changes(a, key, q)
    BY <2>1 DEF Changes
  <2>3. \E b \in Address : \E k : \E w \in Int : Changes(b, k, w)
    BY <2>1, <2>2
  <2> QED  BY <1>3, <2>1, <2>3 DEF Works
<1> QED  BY <1>1, <1>2, <1>4, <1>5 DEF NFTCreateStuck

LEMMA CreateWorks ==
  ASSUME DataInv, NEW a \in Address, NEW token \in Tokens, NEW q \in Quantities,
         ESDTNFTCreate(a, token, q)
  PROVE  Works
<1>1. PICK nonce : nonce = GetLatestNonce(a, token) + 1
  OBVIOUS
<1>2. PICK key : key = KeyWithNonce(token, nonce)
  OBVIOUS
<1>3. PICK e : e = SaveNFT(a, token, nonce, q)
  OBVIOUS
<1>4. /\ MayCreate(a, token, q) /\ nonce <= MaxNonce /\ Room(key, q)
      /\ ~Holds(esdtDatas, a, key) /\ Holds(esdtDatas, a, token)
      /\ esdtDatas' = [e EXCEPT ![a][token].lastNonce = nonce]
      /\ UNCHANGED <<stuck, dropped>>
  BY <1>1, <1>2, <1>3 DEF ESDTNFTCreate, Becomes
<1>5. /\ Shaped(e) /\ Adds(esdtDatas, e, a, key, q) /\ q \in Int
      /\ BalanceOf(esdtDatas, a, key) + q >= 0 /\ Supply(esdtDatas, key) + q <= MaxSupply
      /\ Authorised(a, key, q)
  BY <1>1, <1>2, <1>3, <1>4, NewNFT
<1>6. /\ nonce \in Nat \ {0} /\ IsNft(key) /\ TokenOf(key) = token /\ key # token
      /\ \A b \in Address, t \in Tokens : CountKept(esdtDatas, e, b, t)
      /\ DOMAIN e = Address
      /\ \A b \in Address : b # a => e[b] = esdtDatas[b]
      /\ DOMAIN e[a] = DOMAIN esdtDatas[a] \cup {key}
      /\ \A m \in e[a][key].metadata : m.nonce = nonce /\ m.creator = a
      /\ \A k \in DOMAIN esdtDatas[a] : k # key => e[a][k] = esdtDatas[a][k]
  BY <1>1, <1>2, <1>3, <1>4, NewNFT
<1>7. PICK old : old = e[a][token]
  OBVIOUS
<1>8. token \in DOMAIN e[a] /\ old = esdtDatas[a][token] /\ Fits(token, old)
  BY <1>4, <1>5, <1>6, <1>7 DEF Holds, Shaped
<1>9. PICK entry : entry = [old EXCEPT !.lastNonce = nonce]
  OBVIOUS
<1>10. /\ entry \in AnyEntry /\ entry.balance = old.balance /\ entry.lastNonce = nonce
       /\ entry.roles = old.roles /\ entry.metadata = old.metadata
  <2>1. nonce \in 0..MaxNonce
    BY <1>4, <1>6, EsdtAssumption
  <2> QED  BY <1>8, <1>9, <2>1 DEF Fits, AnyEntry
<1>11. Fits(token, entry)
  BY <1>8, <1>10 DEF Fits
<1>12. PICK f : f = esdtDatas'
  OBVIOUS
<1>13. f = SetEntry(e, a, token, entry)
  <2>1. f = [e EXCEPT ![a] = [e[a] EXCEPT ![token] = [e[a][token] EXCEPT !.lastNonce = nonce]]]
    BY <1>4, <1>12
  <2>2. f = [e EXCEPT ![a] = [e[a] EXCEPT ![token] = entry]]
    BY <1>7, <1>9, <2>1
  <2>3. [e[a] EXCEPT ![token] = entry] = Put(e[a], token, entry)
    <3>1. DOMAIN e[a] \cup {token} = DOMAIN e[a]
      BY <1>8
    <3> QED  BY <3>1 DEF Put
  <2>4. SetEntry(e, a, token, entry) = [e EXCEPT ![a] = Put(e[a], token, entry)]
    BY DEF SetEntry
  <2> QED  BY <2>2, <2>3, <2>4
<1>14. Shaped(f) /\ Adds(e, f, a, token, entry.balance - BalanceOf(e, a, token))
  BY <1>5, <1>11, <1>13, SetShaped
<1>15. entry.balance - BalanceOf(e, a, token) = 0 /\ entry.balance \in Int
  BY <1>6, <1>7, <1>8, <1>10 DEF BalanceOf, Holds, AnyEntry
<1>16. Adds(esdtDatas, f, a, key, q)
  <2> SUFFICES ASSUME NEW b \in Address, NEW k
               PROVE  BalanceOf(f, b, k) = BalanceOf(esdtDatas, b, k)
                                             + (IF b = a /\ k = key THEN q ELSE 0)
    BY DEF Adds
  <2>1. BalanceOf(e, b, k) \in Int
    BY <1>5, BalanceType
  <2>2. BalanceOf(f, b, k) = BalanceOf(e, b, k) + 0
    BY <1>14, <1>15 DEF Adds
  <2> QED  BY <1>5, <2>1, <2>2 DEF Adds
<1>17. \A b \in Address : \A k \in DOMAIN f[b] :
         k \in DOMAIN e[b] /\ f[b][k].metadata = e[b][k].metadata
  <2>1. /\ \A b \in Address : b # a => f[b] = e[b]
        /\ DOMAIN f[a] = DOMAIN e[a] \cup {token}
        /\ f[a][token] = entry
        /\ \A k \in DOMAIN e[a] : k # token => f[a][k] = e[a][k]
    BY <1>6, <1>13, EntryIsSet
  <2> QED  BY <1>7, <1>8, <1>10, <2>1
<1>18. f[a][token].lastNonce = nonce /\ Holds(f, a, token)
  BY <1>6, <1>10, <1>13, EntryIsSet DEF Holds
<1>19. \A b \in Address, t \in Tokens : CountKept(esdtDatas, f, b, t)
  <2>1. esdtDatas[a][token].lastNonce + 1 = nonce
    BY <1>1, <1>4 DEF GetLatestNonce
  <2>2. e[a][token].lastNonce \in Int /\ e[a][token].lastNonce <= entry.lastNonce
    <3>1. old.lastNonce \in Int
      BY <1>8, EsdtAssumption DEF Fits, AnyEntry
    <3> QED  BY <1>6, <1>7, <1>8, <1>10, <2>1, <3>1
  <2>3. \A b \in Address, t \in Tokens : CountKept(e, f, b, t)
    BY <1>5, <1>11, <1>13, <2>2, SetKeeps
  <2> QED  BY <1>5, <1>6, <1>14, <2>3, CountOn DEF DataInv
<1>20. Counted(esdtDatas, dropped) => Counted(f, dropped)
  <2> SUFFICES ASSUME Counted(esdtDatas, dropped),
                      NEW b \in Address, NEW k \in DOMAIN f[b], NEW m \in f[b][k].metadata,
                      <<m.creator, TokenOf(k)>> \notin dropped
               PROVE  /\ Holds(f, m.creator, TokenOf(k))
                      /\ m.nonce <= f[m.creator][TokenOf(k)].lastNonce
    BY DEF Counted
  <2>1. k \in DOMAIN e[b] /\ m \in e[b][k].metadata
    BY <1>17
  <2>2. CASE b = a /\ k = key
    BY <1>6, <1>18, <2>1, <2>2
  <2>3. CASE ~(b = a /\ k = key)
    <3>1. k \in DOMAIN esdtDatas[b] /\ m \in esdtDatas[b][k].metadata
      BY <1>6, <2>1, <2>3
    <3>2. Fits(k, esdtDatas[b][k]) /\ DOMAIN esdtDatas = Address /\ DOMAIN f = Address
      BY <1>14, <3>1 DEF DataInv, Shaped
    <3>3. m.creator \in Address /\ m.nonce \in Nat /\ TokenOf(k) \in Tokens
      BY <3>1, <3>2 DEF Fits, AnyEntry, Metadata
    <3>4. /\ Holds(esdtDatas, m.creator, TokenOf(k))
          /\ m.nonce <= esdtDatas[m.creator][TokenOf(k)].lastNonce
      BY <3>1 DEF Counted
    <3>5. /\ Holds(f, m.creator, TokenOf(k))
          /\ esdtDatas[m.creator][TokenOf(k)].lastNonce <= f[m.creator][TokenOf(k)].lastNonce
      BY <1>19, <3>2, <3>3, <3>4 DEF CountKept, Holds
    <3>6. /\ esdtDatas[m.creator][TokenOf(k)].lastNonce \in Int
          /\ f[m.creator][TokenOf(k)].lastNonce \in Int
      BY <1>14, <3>3, <3>4, <3>5, EsdtAssumption DEF DataInv, Shaped, Fits, AnyEntry, Holds
    <3> QED  BY <3>3, <3>4, <3>5, <3>6
  <2> QED  BY <2>2, <2>3
<1>21. Changes(a, key, q)
  BY <1>5, <1>12, <1>16 DEF Changes
<1>22. \E b \in Address : \E k : \E w \in Int : Changes(b, k, w)
  BY <1>5, <1>21
<1> QED  BY <1>4, <1>12, <1>14, <1>20, <1>22 DEF Works, DataInv

LEMMA NextWorks ==
  ASSUME DataInv, Next
  PROVE  Works
<1>1. ASSUME NEW a \in Address, NEW token \in Tokens, NFT(a, token) PROVE Works
  <2>1. ASSUME NEW q \in Quantities, ESDTNFTCreate(a, token, q) PROVE Works
    BY <2>1, CreateWorks
  <2>2. ASSUME NEW q \in Quantities, NFTCreateStuck(a, token, q) PROVE Works
    BY <2>2, CreateStuckWorks
  <2>3. ASSUME NEW n \in Nonces, NEW q \in Quantities, ESDTNFTAddQuantity(a, token, n, q)
        PROVE  Works
    BY <2>3, AddQuantityWorks
  <2>4. ASSUME NEW n \in Nonces, NEW q \in Quantities, ESDTNFTBurn(a, token, n, q) PROVE Works
    BY <2>4, BurnWorks
  <2>5. ASSUME NEW n \in Nonces, NEW uri \in Uris, ESDTNFTAddURI(a, token, n, uri) PROVE Works
    BY <2>5, AddURIWorks
  <2> QED  BY <1>1, <2>1, <2>2, <2>3, <2>4, <2>5 DEF NFT
<1>2. ASSUME NEW from \in Address, NEW to \in Address, NEW id \in Identifiers,
             NEW q \in Quantities, ESDTTransfer(from, to, id, q)
      PROVE  Works
  BY <1>2, TransferWorks
<1>3. ASSUME NEW from \in Address, NEW to \in Address, NEW list \in Lists,
             ESDTNFTTransfer(from, to, list)
      PROVE  Works
  BY <1>3, NFTTransferWorks
<1>4. ASSUME NEW g \in Grants, NEW p \in BOOLEAN, SetESDTRole(g, p) PROVE Works
  BY <1>4, SetRoleWorks
<1> QED  BY <1>1, <1>2, <1>3, <1>4, FungibleWorks DEF Next

(* Nothing happens after a command got stuck.                                *)
LEMMA StuckStays == ASSUME [Next]_vars PROVE ~stuck' => ~stuck
<1>1. ASSUME NEW a, NEW token, Fungible(a, token) PROVE ~stuck
  BY <1>1 DEF Fungible, ESDTLocalMint, ESDTLocalBurn, Becomes
<1>2. ASSUME NEW a, NEW token, NFT(a, token) PROVE ~stuck
  <2>1. ASSUME NEW q, ESDTNFTCreate(a, token, q) PROVE ~stuck
    BY <2>1 DEF ESDTNFTCreate, Becomes
  <2>2. ASSUME NEW q, NFTCreateStuck(a, token, q) PROVE ~stuck
    BY <2>2 DEF NFTCreateStuck
  <2>3. ASSUME NEW n, NEW q, ESDTNFTAddQuantity(a, token, n, q) PROVE ~stuck
    BY <2>3 DEF ESDTNFTAddQuantity, Becomes
  <2>4. ASSUME NEW n, NEW q, ESDTNFTBurn(a, token, n, q) PROVE ~stuck
    BY <2>4 DEF ESDTNFTBurn
  <2>5. ASSUME NEW n, NEW uri, ESDTNFTAddURI(a, token, n, uri) PROVE ~stuck
    BY <2>5 DEF ESDTNFTAddURI, Becomes
  <2> QED  BY <1>2, <2>1, <2>2, <2>3, <2>4, <2>5 DEF NFT
<1>3. ASSUME NEW from, NEW to, NEW id, NEW q, ESDTTransfer(from, to, id, q) PROVE ~stuck
  BY <1>3 DEF ESDTTransfer, Becomes
<1>4. ASSUME NEW from, NEW to, NEW list, ESDTNFTTransfer(from, to, list) PROVE ~stuck
  BY <1>4 DEF ESDTNFTTransfer, Becomes
<1>5. ASSUME NEW g, NEW p, SetESDTRole(g, p) PROVE ~stuck
  BY <1>5 DEF SetESDTRole, Becomes
<1>6. ASSUME Next PROVE ~stuck
  BY <1>1, <1>2, <1>3, <1>4, <1>5, <1>6 DEF Next
<1> QED  BY <1>6 DEF vars

LEMMA StepWorks ==
  ASSUME DataInv, [Next]_vars
  PROVE  Works
<1>1. ASSUME UNCHANGED vars PROVE Works
  <2>1. Shaped(esdtDatas') /\ Moves(esdtDatas, esdtDatas') /\ UNCHANGED <<stuck, dropped>>
    BY <1>1, NothingMoves DEF vars, DataInv
  <2> QED  BY <2>1, MovesWork
<1> QED  BY <1>1, NextWorks

LEMMA DataInvHolds == Spec => []DataInv
<1>1. Init => DataInv
  <2> SUFFICES ASSUME Init PROVE DataInv
    OBVIOUS
  <2>1. esdtDatas = InitialData /\ stuck \in BOOLEAN
    BY DEF Init
  <2>2. WellFormed(InitialData)
    BY DataAssumption
  <2>3. /\ Shaped(InitialData)
        /\ \A a \in Address : \A key \in DOMAIN InitialData[a] :
             InitialData[a][key].balance \in 0..MaxSupply
    BY <2>2, ShapeIs
  <2>4. \A a \in Address : \A k : BalanceOf(InitialData, a, k) >= 0
    BY <2>3, EsdtAssumption DEF BalanceOf, Holds
  <2>5. ASSUME NEW k PROVE Supply(InitialData, k) <= MaxSupply
    <3>1. CASE \E a \in Address : k \in DOMAIN InitialData[a]
      BY <3>1, DataAssumption
    <3>2. CASE \A a \in Address : k \notin DOMAIN InitialData[a]
      <4>1. \A a \in Address : BalanceOf(InitialData, a, k) = 0
        BY <3>2 DEF BalanceOf, Holds
      <4>2. Supply(InitialData, k) = 0
        <5>1. PICK f : f = [a \in Address |-> 0]
          OBVIOUS
        <5>2. Balances(InitialData, k) = f
          BY <4>1, <5>1 DEF Balances
        <5>3. f \in [Address -> Int]
          BY <5>1
        <5>4. SumFunction(f) = 0
          BY <5>1, SumZero, DataAssumption
        <5> QED  BY <5>2, <5>4 DEF Supply, Balances
      <4> QED  BY <4>2, EsdtAssumption
    <3> QED  BY <3>1, <3>2
  <2> QED  BY <2>1, <2>3, <2>4, <2>5 DEF DataInv, Covered
<1>2. DataInv /\ [Next]_vars => DataInv'
  BY StepWorks, WorksInv
<1> QED  BY <1>1, <1>2, PTL DEF Spec

(* The token data stay well formed: whatever builtins do in any order, and   *)
(* whatever tests grant, no balance is negative, and no NFT is under another *)
(* token or nonce than those of its metadata.                                *)
THEOREM TypeCorrect == Spec => []TypeOK
<1>1. DataInv => TypeOK
  BY CoveredIsWellFormed DEF DataInv, TypeOK
<1> QED  BY <1>1, DataInvHolds, PTL

(* A nonce that ESDTNFTCreate gives is new: the count of its creator is at   *)
(* least the nonce of every NFT it created, whoever has it, for as long as   *)
(* its entry was not removed by a burn with nonce 0.                         *)
THEOREM NoncesStayCounted == Spec => []NoncesAreCounted
<1>1. Init => NoncesAreCounted
  BY DataAssumption DEF Init, NoncesAreCounted
<1>2. DataInv /\ NoncesAreCounted /\ [Next]_vars => NoncesAreCounted'
  <2> SUFFICES ASSUME DataInv, NoncesAreCounted, [Next]_vars PROVE NoncesAreCounted'
    OBVIOUS
  <2>1. ~stuck' => ~stuck
    BY StuckStays
  <2>2. ~stuck' /\ Counted(esdtDatas, dropped) => Counted(esdtDatas', dropped')
    BY StepWorks DEF Works
  <2> QED  BY <2>1, <2>2 DEF NoncesAreCounted
<1> QED  BY <1>1, <1>2, DataInvHolds, PTL DEF Spec

(* Whoever changes the supply of a token has the role for it, and transfers  *)
(* change none.                                                              *)
THEOREM SuppliesNeedRoles == Spec => SupplyIsAuthorised
<1>1. ASSUME DataInv, Works, NEW key
      PROVE  LET delta == Supply(esdtDatas', key) - Supply(esdtDatas, key)
             IN  delta # 0 =>
                   \E a \in Address :
                     /\ \A b \in Address \ {a} :
                          BalanceOf(esdtDatas', b, key) = BalanceOf(esdtDatas, b, key)
                     /\ Authorised(a, key, delta)
  <2>1. Supply(esdtDatas, key) \in Int
    BY <1>1, BalancesType DEF DataInv
  <2>2. CASE Moves(esdtDatas, esdtDatas')
    <3>1. Supply(esdtDatas', key) = Supply(esdtDatas, key)
      BY <2>2 DEF Moves
    <3> QED  BY <2>1, <3>1
  <2>3. ASSUME NEW a \in Address, NEW k, NEW v \in Int, Changes(a, k, v)
        PROVE  LET delta == Supply(esdtDatas', key) - Supply(esdtDatas, key)
               IN  delta # 0 =>
                     \E b \in Address :
                       /\ \A c \in Address \ {b} :
                            BalanceOf(esdtDatas', c, key) = BalanceOf(esdtDatas, c, key)
                       /\ Authorised(b, key, delta)
    <3>1. Supply(esdtDatas', key) = Supply(esdtDatas, key) + (IF key = k THEN v ELSE 0)
      BY <1>1, <2>3, SupplyAdds DEF Changes, DataInv
    <3>2. CASE key # k
      BY <2>1, <3>1, <3>2
    <3>3. CASE key = k
      <4>1. Supply(esdtDatas', key) - Supply(esdtDatas, key) = v
        BY <2>1, <3>1, <3>3
      <4>2. ASSUME NEW c \in Address \ {a}
            PROVE  BalanceOf(esdtDatas', c, key) = BalanceOf(esdtDatas, c, key)
        <5>1. BalanceOf(esdtDatas', c, key) = BalanceOf(esdtDatas, c, key) + 0
          BY <2>3 DEF Changes, Adds
        <5>2. BalanceOf(esdtDatas, c, key) \in Int
          BY <1>1, BalanceType DEF DataInv
        <5> QED  BY <5>1, <5>2
      <4>3. Authorised(a, key, v)
        BY <2>3, <3>3 DEF Changes
      <4> QED  BY <4>1, <4>2, <4>3
    <3> QED  BY <3>2, <3>3
  <2> QED  BY <1>1, <2>2, <2>3 DEF Works
<1>2. DataInv /\ [Next]_vars =>
        [\A key \in Keys \cup Keys' :
           LET delta == Supply(esdtDatas', key) - Supply(esdtDatas, key)
           IN  delta # 0 =>
                 \E a \in Address :
                   /\ \A b \in Address \ {a} :
                        BalanceOf(esdtDatas', b, key) = BalanceOf(esdtDatas, b, key)
                   /\ IF delta < 0 THEN \/ May(a, key, "ESDTRoleNFTBurn")
                                        \/ ~IsNft(key) /\ May(a, key, "ESDTRoleLocalBurn")
                      ELSE IF ~IsNft(key) THEN May(a, key, "ESDTRoleLocalMint")
                      ELSE \/ May(a, key, "ESDTRoleNFTAddQuantity")
                           \/ delta = 1 /\ May(a, key, "ESDTRoleNFTCreate")
                                        /\ ~Holds(esdtDatas, a, key)]_vars
  BY <1>1, StepWorks DEF Authorised
<1> QED  BY <1>2, DataInvHolds, PTL DEF Spec, SupplyIsAuthorised
===============================================================================
