----------------------------- MODULE SupplyProofs -----------------------------
(***************************************************************************)
(* The token supply of CallMachine: transfers debit what is there, credit  *)
(* accounts that exist, and change no supply, for every set of addresses,  *)
(* tokens, amounts and calls.                                              *)
(***************************************************************************)
EXTENDS CallMachineProofs, Sums

(* ------------------------- Supplies of a world --------------------------- *)

LEMMA SupplyType ==
  ASSUME NEW w \in World
  PROVE  EGLDSupply(w) \in Int /\ \A t \in Token : ESDTSupply(w, t) \in Int
<1>1. /\ [a \in Address |-> w[a].balance] \in [Address -> Int]
      /\ \A t \in Token : [a \in Address |-> w[a].esdt[t]] \in [Address -> Int]
  BY DEF World, Account
<1> QED  BY <1>1, SumInt, AddressAssumption DEF EGLDSupply, ESDTSupply

LEMMA CreditSupply ==
  ASSUME NEW w \in World, NEW a \in Address, NEW v \in Int
  PROVE  /\ EGLDSupply(Credit(w, a, v)) = EGLDSupply(w) + v
         /\ \A t : ESDTSupply(Credit(w, a, v), t) = ESDTSupply(w, t)
<1> DEFINE f == [b \in Address |-> w[b].balance]
<1>1. f \in [Address -> Int]
  BY DEF World, Account
<1>2. [b \in Address |-> Credit(w, a, v)[b].balance] = [f EXCEPT ![a] = @ + v]
  BY DEF Credit, World, Account
<1>3. \A t : [b \in Address |-> Credit(w, a, v)[b].esdt[t]] = [b \in Address |-> w[b].esdt[t]]
  BY DEF Credit, World, Account
<1> HIDE DEF f
<1>4. SumFunction([f EXCEPT ![a] = @ + v]) = SumFunction(f) + v
  BY <1>1, SumAdd, AddressAssumption
<1> QED  BY <1>2, <1>3, <1>4 DEF EGLDSupply, ESDTSupply, f

(* <accounts> after a token balance of an account becomes n.                 *)
SetESDT(w, a, t, n) == [w EXCEPT ![a].held = @ \cup {t}, ![a].esdt[t] = n]

LEMMA SetESDTSupply ==
  ASSUME NEW w \in World, NEW a \in Address, NEW t \in Token, NEW n \in Int
  PROVE  /\ EGLDSupply(SetESDT(w, a, t, n)) = EGLDSupply(w)
         /\ ESDTSupply(SetESDT(w, a, t, n), t) = ESDTSupply(w, t) + (n - w[a].esdt[t])
         /\ \A u \in Token \ {t} : ESDTSupply(SetESDT(w, a, t, n), u) = ESDTSupply(w, u)
<1> DEFINE f == [b \in Address |-> w[b].esdt[t]]
           v == n - w[a].esdt[t]
<1>1. f \in [Address -> Int] /\ v \in Int
  BY DEF World, Account
<1>2. SetESDT(w, a, t, n)
        = [w EXCEPT ![a] = [w[a] EXCEPT !.held = @ \cup {t}, !.esdt[t] = n]]
  BY DEF SetESDT, World
<1>3. [b \in Address |-> SetESDT(w, a, t, n)[b].esdt[t]] = [f EXCEPT ![a] = @ + v]
  <2>1. \A b \in Address : SetESDT(w, a, t, n)[b].esdt[t] = IF b = a THEN n ELSE f[b]
    BY <1>2 DEF World, Account
  <2>2. f[a] = w[a].esdt[t] /\ f[a] \in Int
    BY <1>1
  <2>3. f[a] + v = n
    BY <2>2
  <2> HIDE DEF v
  <2>4. \A b \in Address : [f EXCEPT ![a] = @ + v][b] = IF b = a THEN n ELSE f[b]
    BY <1>1, <2>3
  <2> QED  BY <2>1, <2>4
<1>4. [b \in Address |-> SetESDT(w, a, t, n)[b].balance] = [b \in Address |-> w[b].balance]
  BY <1>2 DEF World, Account
<1>5. \A u \in Token \ {t} :
        [b \in Address |-> SetESDT(w, a, t, n)[b].esdt[u]] = [b \in Address |-> w[b].esdt[u]]
  BY <1>2 DEF World, Account
<1> HIDE DEF f, v
<1>6. SumFunction([f EXCEPT ![a] = @ + v]) = SumFunction(f) + v
  BY <1>1, SumAdd, AddressAssumption
<1> QED  BY <1>3, <1>4, <1>5, <1>6 DEF EGLDSupply, ESDTSupply, f, v


(* -------------------- The commands of a token transfer ------------------- *)

IsCheck(c) == c.op = "checkESDTBalance"
IsDebit(c) == c.op = "addToESDTBalance" /\ ~c.allowNew
IsCredit(c) == c.op = "addToESDTBalance" /\ c.allowNew

(* A debit c and the credit d of what it takes.                              *)
Paired(c, d) == /\ IsDebit(c) /\ IsCredit(d)
                /\ c.token = d.token /\ c.delta = 0 - d.delta

(* A transfer checks the receiver, then the balance, then debits and credits *)
(* it; only an exception can skip the first of these.                        *)
TransferAt(s, i) ==
  /\ IsCheck(s[i]) =>
       /\ i + 2 <= Len(s) /\ Paired(s[i + 1], s[i + 2])
       /\ s[i + 1].addr = s[i].addr /\ s[i + 1].token = s[i].token
       /\ s[i + 2].delta = s[i].value
  /\ IsDebit(s[i]) => i + 1 <= Len(s) /\ Paired(s[i], s[i + 1])
  /\ IsCredit(s[i]) => s[i].delta \in Amount
  /\ i > 1 /\ s[i - 1].op # "exception" =>
       /\ IsCheck(s[i]) =>
            s[i - 1].op = "checkAccountExists" /\ s[i - 1].addr = s[i + 2].addr
       /\ IsDebit(s[i]) => IsCheck(s[i - 1])
       /\ IsCredit(s[i]) => IsDebit(s[i - 1])
TransfersOrdered(s) == \A i \in 1..Len(s) : TransferAt(s, i)

NoTransferFirst(s) == s # <<>> => Head(s).op \notin TransferOps

LEMMA TransferOpsAre ==
  ASSUME NEW c, c.op \notin TransferOps
  PROVE  ~IsCheck(c) /\ ~IsDebit(c) /\ ~IsCredit(c)
BY DEF TransferOps, IsCheck, IsDebit, IsCredit

LEMMA NoneOrdered ==
  ASSUME NEW s \in Seq(Command), NoneOf(s, TransferOps)
  PROVE  TransfersOrdered(s)
<1> SUFFICES ASSUME NEW i \in 1..Len(s) PROVE TransferAt(s, i)
  BY DEF TransfersOrdered
<1>1. s[i].op \notin TransferOps
  BY DEF NoneOf
<1> QED  BY <1>1, TransferOpsAre DEF TransferAt

LEMMA TailOrdered ==
  ASSUME NEW s \in Seq(Command), s # <<>>, TransfersOrdered(s)
  PROVE  TransfersOrdered(Tail(s)) /\ Tail(s) \in Seq(Command)
<1> DEFINE t == Tail(s)
<1>1. /\ t \in Seq(Command) /\ Len(t) = Len(s) - 1 /\ Len(s) \in Nat
      /\ \A i \in 1..Len(t) : t[i] = s[i + 1]
  BY HeadTailProperties, LenProperties
<1> HIDE DEF t
<1> SUFFICES ASSUME NEW i \in 1..Len(t) PROVE TransferAt(t, i)
  BY <1>1 DEF TransfersOrdered, t
<1>2. i + 1 \in 1..Len(s) /\ i \in Nat
  BY <1>1
<1>3. TransferAt(s, i + 1)
  BY <1>2 DEF TransfersOrdered
<1>4. t[i] = s[i + 1]
  BY <1>1
<1>5. i + 2 <= Len(s) => t[i + 1] = s[i + 2]
  BY <1>1, <1>2
<1>6. i + 3 <= Len(s) => t[i + 2] = s[i + 3]
  BY <1>1, <1>2
<1>7. i > 1 => t[i - 1] = s[i]
  <2>1. i > 1 => i - 1 \in 1..Len(t) /\ (i - 1) + 1 = i
    BY <1>1
  <2> QED  BY <1>1, <2>1
<1> QED  BY <1>1, <1>2, <1>3, <1>4, <1>5, <1>6, <1>7 DEF TransferAt, Paired

LEMMA ConcatOrdered ==
  ASSUME NEW s \in Seq(Command), NEW t \in Seq(Command), TransfersOrdered(s),
         TransfersOrdered(t),
         \/ NoTransferFirst(t)
         \/ Len(s) = 1 /\ s[1].op = "exception"
  PROVE  TransfersOrdered(s \o t) /\ s \o t \in Seq(Command)
<1> DEFINE r == s \o t
           n == Len(s)
<1>1. /\ r \in Seq(Command) /\ Len(r) = n + Len(t) /\ n \in Nat /\ Len(t) \in Nat
      /\ \A i \in 1..Len(r) : r[i] = IF i <= n THEN s[i] ELSE t[i - n]
  BY ConcatProperties, LenProperties
<1> HIDE DEF r, n
<1> SUFFICES ASSUME NEW i \in 1..Len(r) PROVE TransferAt(r, i)
  BY <1>1 DEF TransfersOrdered, r
<1>2. CASE i <= n
  <2>1. i \in 1..Len(s) /\ TransferAt(s, i)
    BY <1>1, <1>2 DEF TransfersOrdered, n
  <2>2. /\ r[i] = s[i]
        /\ i + 1 <= n => r[i + 1] = s[i + 1]
        /\ i + 2 <= n => r[i + 2] = s[i + 2]
        /\ i > 1 => r[i - 1] = s[i - 1]
    BY <1>1, <1>2
  <2> QED  BY <1>1, <2>1, <2>2 DEF TransferAt, Paired, n
<1>3. CASE i > n
  <2> DEFINE k == i - n
  <2>1. k \in 1..Len(t) /\ TransferAt(t, k) /\ i = k + n
    BY <1>1, <1>3 DEF TransfersOrdered
  <2>2. /\ r[i] = t[k]
        /\ k + 1 <= Len(t) => r[i + 1] = t[k + 1]
        /\ k + 2 <= Len(t) => r[i + 2] = t[k + 2]
        /\ k > 1 => r[i - 1] = t[k - 1]
    <3>1. r[i] = t[k]
      BY <1>1, <1>3
    <3>2. k + 1 <= Len(t) => i + 1 \in 1..Len(r) /\ (i + 1) - n = k + 1
      BY <1>1, <1>3
    <3>3. k + 2 <= Len(t) => i + 2 \in 1..Len(r) /\ (i + 2) - n = k + 2
      BY <1>1, <1>3
    <3>4. k > 1 => i - 1 \in 1..Len(r) /\ (i - 1) - n = k - 1 /\ i - 1 > n
      BY <1>1, <1>3
    <3> QED  BY <1>1, <1>3, <3>1, <3>2, <3>3, <3>4
  <2>3. i > 1 /\ k = 1 => r[i - 1].op = "exception" \/ t[k].op \notin TransferOps
    <3>1. ASSUME NoTransferFirst(t), k = 1 PROVE t[k].op \notin TransferOps
      <4>1. t # <<>>
        BY <2>1
      <4>2. Head(t) = t[1]
        BY <4>1
      <4> QED  BY <3>1, <4>1, <4>2 DEF NoTransferFirst
    <3>2. ASSUME Len(s) = 1 /\ s[1].op = "exception", k = 1
          PROVE  r[i - 1].op = "exception"
      BY <1>1, <2>1, <3>2 DEF n
    <3> QED  BY <3>1, <3>2
  <2> HIDE DEF k
  <2>4. k \in Nat /\ n \in Nat /\ Len(t) \in Nat /\ Len(r) = n + Len(t)
    BY <1>1, <2>1
  <2>5. CASE t[k].op \notin TransferOps
    BY <2>2, <2>5, TransferOpsAre DEF TransferAt
  <2>6. CASE t[k].op \in TransferOps
    <3>1. i > 1 /\ r[i - 1].op # "exception" => k > 1 /\ r[i - 1] = t[k - 1]
      BY <2>1, <2>2, <2>3, <2>6
    <3>2. IsCheck(r[i]) =>
            /\ i + 2 <= Len(r) /\ Paired(r[i + 1], r[i + 2])
            /\ r[i + 1].addr = r[i].addr /\ r[i + 1].token = r[i].token
            /\ r[i + 2].delta = r[i].value
            /\ r[i + 2] = t[k + 2]
      BY <2>1, <2>2, <2>4 DEF TransferAt
    <3>3. /\ IsDebit(r[i]) => i + 1 <= Len(r) /\ Paired(r[i], r[i + 1])
          /\ IsCredit(r[i]) => r[i].delta \in Amount
      BY <2>1, <2>2, <2>4 DEF TransferAt
    <3> QED  BY <2>1, <2>2, <3>1, <3>2, <3>3 DEF TransferAt
  <2> QED  BY <2>5, <2>6
<1> QED  BY <1>1, <1>2, <1>3

(* The commands of one transfer, made by #transferESDTs.                     *)
LEMMA TransferOrdered ==
  ASSUME NEW a \in AnyAddress, NEW b \in AnyAddress, NEW t \in ESDTTransfer
  PROVE  /\ TransferESDT(a, b, t) \in Seq(Command)
         /\ TransfersOrdered(TransferESDT(a, b, t))
<1> DEFINE s == TransferESDT(a, b, t)
<1>1. s \in Seq(Command)
  BY TransferESDTType
<1>2. t.token \in Token /\ t.value \in Amount /\ t.value \in Int
  BY AmountAssumption DEF ESDTTransfer
<1>3. /\ Len(s) = 5 /\ s[1] = CheckAccountExists(a) /\ s[2] = CheckAccountExists(b)
      /\ s[3] = CheckESDTBalance(a, t.token, t.value)
      /\ s[4] = AddToESDTBalance(a, t.token, 0 - t.value, FALSE)
      /\ s[5] = AddToESDTBalance(b, t.token, t.value, TRUE)
  BY DEF TransferESDT
<1>4. /\ s[1].op = "checkAccountExists" /\ s[2].op = "checkAccountExists" /\ s[2].addr = b
      /\ s[3].op = "checkESDTBalance" /\ s[3].addr = a /\ s[3].token = t.token
      /\ s[3].value = t.value
      /\ s[4].op = "addToESDTBalance" /\ ~s[4].allowNew /\ s[4].addr = a
      /\ s[4].token = t.token /\ s[4].delta = 0 - t.value
      /\ s[5].op = "addToESDTBalance" /\ s[5].allowNew /\ s[5].addr = b
      /\ s[5].token = t.token /\ s[5].delta = t.value
  BY <1>3 DEF CheckAccountExists, CheckESDTBalance, AddToESDTBalance
<1> HIDE DEF s
<1>5. Paired(s[4], s[5])
  BY <1>4 DEF Paired, IsDebit, IsCredit
<1>6. /\ IsCheck(s[3]) /\ ~IsDebit(s[3]) /\ ~IsCredit(s[3])
      /\ ~IsCheck(s[4]) /\ IsDebit(s[4]) /\ ~IsCredit(s[4])
      /\ ~IsCheck(s[5]) /\ ~IsDebit(s[5]) /\ IsCredit(s[5])
      /\ \A i \in 1..2 : ~IsCheck(s[i]) /\ ~IsDebit(s[i]) /\ ~IsCredit(s[i])
  BY <1>4 DEF IsCheck, IsDebit, IsCredit
<1>7. TransferAt(s, 1) /\ TransferAt(s, 2)
  BY <1>6 DEF TransferAt
<1>8. TransferAt(s, 3)
  <2>1. 3 + 1 = 4 /\ 3 + 2 = 5 /\ 3 - 1 = 2 /\ 3 + 2 <= Len(s)
    BY <1>3
  <2>2. s[3 + 1] = s[4] /\ s[3 + 2] = s[5] /\ s[3 - 1] = s[2]
    BY <2>1
  <2> QED  BY <1>4, <1>5, <1>6, <2>1, <2>2 DEF TransferAt
<1>9. TransferAt(s, 4)
  <2>1. 4 + 1 = 5 /\ 4 - 1 = 3 /\ 4 + 1 <= Len(s)
    BY <1>3
  <2>2. s[4 + 1] = s[5] /\ s[4 - 1] = s[3]
    BY <2>1
  <2> QED  BY <1>4, <1>5, <1>6, <2>1, <2>2 DEF TransferAt
<1>10. TransferAt(s, 5)
  <2>1. s[5 - 1] = s[4]
    BY 5 - 1 = 4
  <2> QED  BY <1>2, <1>4, <1>6, <2>1 DEF TransferAt
<1>11. \A i \in 1..Len(s) : i = 1 \/ i = 2 \/ i = 3 \/ i = 4 \/ i = 5
  BY <1>3
<1>12. \A i \in 1..Len(s) : TransferAt(s, i)
  BY <1>7, <1>8, <1>9, <1>10, <1>11
<1> QED  BY <1>1, <1>12 DEF TransfersOrdered, s

(* Only the commands of a transfer come before a command of a transfer.      *)
LEMMA NoTransferNext ==
  ASSUME NEW s \in Seq(Command), s # <<>>, TransfersOrdered(s),
         Head(s).op \notin TransferOps \cup {"checkAccountExists", "exception"}
  PROVE  NoTransferFirst(Tail(s)) /\ NoTransferFirst(s)
<1>1. NoTransferFirst(s)
  BY DEF NoTransferFirst
<1>2. ASSUME Tail(s) # <<>>, Head(Tail(s)).op \in TransferOps PROVE FALSE
  <2>1. /\ Tail(s) \in Seq(Command) /\ Len(Tail(s)) = Len(s) - 1 /\ Len(s) \in Nat
        /\ \A i \in 1..Len(Tail(s)) : Tail(s)[i] = s[i + 1]
    BY HeadTailProperties, LenProperties
  <2>2. Len(Tail(s)) \in Nat \ {0}
    BY <1>2, <2>1, EmptySeq
  <2>3. Head(Tail(s)) = s[2] /\ 2 \in 1..Len(s) /\ Head(s) = s[1]
    BY <2>1, <2>2
  <2>4. TransferAt(s, 2) /\ s[1].op \notin TransferOps \cup {"checkAccountExists", "exception"}
    BY <2>3 DEF TransfersOrdered
  <2>5. ~IsCheck(s[2]) /\ ~IsDebit(s[2]) /\ ~IsCredit(s[2])
    BY <2>3, <2>4, TransferOpsAre DEF TransferAt
  <2> QED  BY <1>2, <2>3, <2>5 DEF TransferOps, IsCheck, IsDebit, IsCredit
<1> QED  BY <1>1, <1>2 DEF NoTransferFirst

LEMMA ConcatNoTransferFirst ==
  ASSUME NEW s \in Seq(Command), NoneOf(s, TransferOps),
         NEW t \in Seq(Command), NoTransferFirst(t)
  PROVE  NoTransferFirst(s \o t)
<1>1. CASE s = <<>>
  <2>1. s \o t = t
    BY <1>1
  <2> QED  BY <2>1
<1>2. CASE s # <<>>
  <2>1. /\ s \o t \in Seq(Command) /\ Len(s \o t) = Len(s) + Len(t)
        /\ Len(s) \in Nat \ {0} /\ Len(t) \in Nat
        /\ \A i \in 1..Len(s) + Len(t) : (s \o t)[i] = IF i <= Len(s) THEN s[i] ELSE t[i - Len(s)]
    BY <1>2, ConcatProperties, EmptySeq, LenProperties
  <2>2. 1 \in 1..Len(s) + Len(t) /\ 1 <= Len(s) /\ s[1].op \notin TransferOps
    BY <2>1 DEF NoneOf
  <2>3. Head(s \o t) = (s \o t)[1]
    BY <2>1
  <2> QED  BY <2>1, <2>2, <2>3 DEF NoTransferFirst
<1> QED  BY <1>1, <1>2

(* What the top command of a transfer relies on.                             *)
TransferIsCovered ==
  commands # <<>> =>
    /\ IsCheck(Top) => IsAccount(accounts, commands[3].addr)
    /\ IsDebit(Top) => /\ HoldsESDT(accounts, Top.addr, Top.token, 0 - Top.delta)
                       /\ IsAccount(accounts, commands[2].addr)
    /\ IsCredit(Top) => IsAccount(accounts, Top.addr)

TransfersInOrder == TransfersOrdered(commands) /\ TransferIsCovered

(* A debit was made, and its credit is next.                                 *)
CreditFirst == commands # <<>> /\ IsCredit(Top)

LEMMA QuietTop ==
  ASSUME NoTransferFirst(commands')
  PROVE  TransferIsCovered' /\ ~CreditFirst'
BY DEF NoTransferFirst, TransferIsCovered, CreditFirst, Top, TransferOps, IsCheck, IsDebit,
       IsCredit

LEMMA RewriteOrdered ==
  ASSUME TypeOK, TransfersInOrder, commands # <<>>,
         Top.op \notin TransferOps \cup {"checkAccountExists", "exception"},
         NEW new \in Seq(Command), NoneOf(new, TransferOps), commands' = new \o Tail(commands)
  PROVE  TransfersInOrder' /\ ~CreditFirst'
<1>1. commands \in Seq(Command) /\ TransfersOrdered(commands)
  BY DEF TypeOK, TransfersInOrder
<1>2. NoTransferFirst(Tail(commands))
  BY <1>1, NoTransferNext DEF Top
<1> DEFINE t == Tail(commands)
<1>3. TransfersOrdered(t) /\ t \in Seq(Command) /\ NoTransferFirst(t)
  BY <1>1, <1>2, TailOrdered
<1>4. TransfersOrdered(new)
  BY NoneOrdered
<1> HIDE DEF t
<1>5. TransfersOrdered(new \o t) /\ NoTransferFirst(new \o t)
  BY <1>3, <1>4, ConcatOrdered, ConcatNoTransferFirst
<1>6. TransfersOrdered(commands') /\ NoTransferFirst(commands')
  BY <1>5 DEF t
<1> QED  BY <1>6, QuietTop DEF TransfersInOrder

(* An exception takes the place of the top command.                          *)
LEMMA FailOrdered ==
  ASSUME TypeOK, TransfersInOrder, commands # <<>>, NEW ec \in ExceptionCode,
         commands' = <<Exception(ec)>> \o Tail(commands)
  PROVE  TransfersInOrder' /\ ~CreditFirst'
<1> DEFINE new == <<Exception(ec)>>
           t == Tail(commands)
<1>1. TransfersOrdered(t) /\ t \in Seq(Command)
  BY TailOrdered DEF TypeOK, TransfersInOrder
<1>2. /\ new \in Seq(Command) /\ NoneOf(new, TransferOps)
      /\ Len(new) = 1 /\ new[1].op = "exception"
  BY ExceptionType DEF Exception, NoneOf, TransferOps
<1>3. commands' = new \o t /\ Head(commands') = Exception(ec)
  BY <1>1
<1> HIDE DEF new, t
<1>4. TransfersOrdered(commands')
  BY <1>1, <1>2, <1>3, NoneOrdered, ConcatOrdered
<1>5. NoTransferFirst(commands')
  BY <1>3 DEF NoTransferFirst, Exception, TransferOps
<1> QED  BY <1>4, <1>5, QuietTop DEF TransfersInOrder

(* A command of a transfer succeeds: the next one is uncovered.              *)
LEMMA NextOrdered ==
  ASSUME TypeOK, TransfersInOrder, commands # <<>>, commands' = <<>> \o Tail(commands)
  PROVE  /\ TransfersOrdered(commands') /\ TransferAt(commands, 1)
         /\ Top = commands[1] /\ 1 \in 1..Len(commands)
         /\ Len(commands') = Len(commands) - 1 /\ Len(commands) \in Nat
         /\ \A i \in 1..Len(commands') : commands'[i] = commands[i + 1]
         /\ commands' # <<>> =>
              /\ 2 \in 1..Len(commands) /\ TransferAt(commands, 2) /\ Top' = commands[2]
         /\ Len(commands) >= 3 => commands'[2] = commands[3]
         /\ Len(commands) >= 4 => commands'[3] = commands[4]
<1> DEFINE t == Tail(commands)
<1>1. commands \in Seq(Command) /\ TransfersOrdered(commands)
  BY DEF TypeOK, TransfersInOrder
<1>2. /\ t \in Seq(Command) /\ TransfersOrdered(t)
      /\ Len(t) = Len(commands) - 1 /\ Len(commands) \in Nat \ {0}
      /\ \A i \in 1..Len(t) : t[i] = commands[i + 1]
  BY <1>1, TailOrdered, HeadTailProperties, EmptySeq, LenProperties
<1>3. commands' = t
  BY <1>2
<1>4. Top = commands[1]
  BY DEF Top
<1> HIDE DEF t
<1>5. t # <<>> => Len(t) # 0 /\ Head(t) = t[1]
  BY <1>2, EmptySeq
<1>6. 1 \in 1..Len(commands) /\ TransferAt(commands, 1)
  BY <1>1, <1>2 DEF TransfersOrdered
<1>7. ASSUME t # <<>>
      PROVE  2 \in 1..Len(commands) /\ TransferAt(commands, 2) /\ Head(t) = commands[2]
  <2>1. 2 \in 1..Len(commands) /\ 1 \in 1..Len(t) /\ t[1] = commands[1 + 1]
    BY <1>2, <1>5, <1>7
  <2> QED  BY <1>1, <1>5, <1>7, <2>1 DEF TransfersOrdered
<1>8. /\ Len(commands) >= 3 => t[2] = commands[3]
      /\ Len(commands) >= 4 => t[3] = commands[4]
  <2>1. Len(commands) >= 3 => 2 \in 1..Len(t)
    BY <1>2
  <2>2. Len(commands) >= 4 => 3 \in 1..Len(t)
    BY <1>2
  <2> QED  BY <1>2, <2>1, <2>2
<1> QED  BY <1>2, <1>3, <1>4, <1>6, <1>7, <1>8 DEF Top

LEMMA CheckAccountOrdered ==
  ASSUME TypeOK, TransfersInOrder, DoCheckAccountExists
  PROVE  TransfersInOrder' /\ ~CreditFirst'
<1>1. /\ commands # <<>> /\ Top.op = "checkAccountExists"
      /\ accounts' = accounts
      /\ commands' = (IF IsAccount(accounts, Top.addr) THEN <<>>
                      ELSE <<Exception("ExecutionFailed")>>) \o Tail(commands)
  BY DEF DoCheckAccountExists, TopIs, Top, Replace
<1>2. CASE ~IsAccount(accounts, Top.addr)
  BY <1>1, <1>2, FailOrdered DEF ExceptionCode
<1>3. CASE IsAccount(accounts, Top.addr)
  <2>1. commands' = <<>> \o Tail(commands)
    BY <1>1, <1>3
  <2>2. /\ TransfersOrdered(commands') /\ Top = commands[1] /\ Len(commands) \in Nat
        /\ commands' # <<>> => TransferAt(commands, 2) /\ Top' = commands[2]
        /\ Len(commands) >= 4 => commands'[3] = commands[4]
    BY <1>1, <2>1, NextOrdered
  <2>3. ~IsCheck(commands[1]) /\ ~IsDebit(commands[1]) /\ commands[1].op # "exception"
    BY <1>1, <2>2 DEF IsCheck, IsDebit
  <2>4. ASSUME TransferAt(commands, 2)
        PROVE  /\ ~IsDebit(commands[2]) /\ ~IsCredit(commands[2])
               /\ IsCheck(commands[2]) =>
                    Len(commands) >= 4 /\ commands[1].addr = commands[4].addr
    <3>1. 2 > 1 /\ 2 - 1 = 1 /\ 2 + 2 = 4
      OBVIOUS
    <3>2. commands[2 - 1] = commands[1] /\ commands[2 + 2] = commands[4]
      BY <3>1
    <3> QED  BY <2>2, <2>3, <2>4, <3>1, <3>2 DEF TransferAt
  <2>5. TransferIsCovered' /\ ~CreditFirst'
    BY <1>1, <1>3, <2>2, <2>4 DEF TransferIsCovered, CreditFirst
  <2> QED  BY <2>2, <2>5 DEF TransfersInOrder
<1> QED  BY <1>2, <1>3

LEMMA CheckBalanceOrdered ==
  ASSUME TypeOK, TransfersInOrder, DoCheckESDTBalance
  PROVE  TransfersInOrder' /\ ~CreditFirst'
<1> DEFINE held == HoldsESDT(accounts, Top.addr, Top.token, Top.value)
<1>1. /\ commands # <<>> /\ Top.op = "checkESDTBalance"
      /\ accounts' = accounts
      /\ commands' = (IF held THEN <<>> ELSE <<Exception("OutOfFunds")>>) \o Tail(commands)
  BY DEF DoCheckESDTBalance, TopIs, Top, Replace
<1> HIDE DEF held
<1>2. CASE ~held
  BY <1>1, <1>2, FailOrdered DEF ExceptionCode
<1>3. CASE held
  <2>1. commands' = <<>> \o Tail(commands)
    BY <1>1, <1>3
  <2>2. /\ TransfersOrdered(commands') /\ Top = commands[1] /\ Len(commands) \in Nat
        /\ TransferAt(commands, 1)
        /\ commands' # <<>> => TransferAt(commands, 2) /\ Top' = commands[2]
        /\ Len(commands) >= 3 => commands'[2] = commands[3]
    BY <1>1, <2>1, NextOrdered
  <2>3. IsCheck(commands[1])
    BY <1>1, <2>2 DEF IsCheck
  <2>4. /\ Len(commands) >= 3 /\ Paired(commands[2], commands[3])
        /\ commands[2].addr = Top.addr /\ commands[2].token = Top.token
        /\ commands[3].delta = Top.value
    <3>1. 1 + 1 = 2 /\ 1 + 2 = 3
      OBVIOUS
    <3>2. commands[1 + 1] = commands[2] /\ commands[1 + 2] = commands[3]
      BY <3>1
    <3> QED  BY <2>2, <2>3, <3>1, <3>2 DEF TransferAt
  <2>5. IsAccount(accounts, commands[3].addr)
    BY <1>1, <2>2, <2>3 DEF TransfersInOrder, TransferIsCovered
  <2>6. Top.value \in Int
    BY <1>1, TopType, FieldTypes, AmountAssumption
  <2>7. 0 - commands[2].delta = Top.value
    BY <2>4, <2>6 DEF Paired
  <2>8. IsDebit(commands[2]) /\ ~IsCheck(commands[2]) /\ ~IsCredit(commands[2])
    BY <2>4 DEF Paired, IsDebit, IsCheck, IsCredit
  <2>9. TransferIsCovered' /\ ~CreditFirst'
    BY <1>1, <1>3, <2>2, <2>4, <2>5, <2>7, <2>8 DEF TransferIsCovered, CreditFirst, held
  <2> QED  BY <2>2, <2>9 DEF TransfersInOrder
<1> QED  BY <1>2, <1>3

LEMMA AddToBalanceOrdered ==
  ASSUME TypeOK, TransfersInOrder, DoAddToESDTBalance
  PROVE  TransfersInOrder'
<1>1. /\ commands # <<>> /\ Top.op = "addToESDTBalance"
      /\ commands' = <<>> \o Tail(commands)
  BY DEF DoAddToESDTBalance, TopIs, Top, Replace
<1>2. \A a : IsAccount(accounts, a) => IsAccount(accounts', a)
  <2>1. accounts \in World /\ Top.addr \in Address
    BY DEF TypeOK, DoAddToESDTBalance, IsAccount
  <2>2. accounts' = [accounts EXCEPT ![Top.addr] = accounts'[Top.addr]]
    BY <2>1 DEF DoAddToESDTBalance, World
  <2>3. accounts'[Top.addr].exists = accounts[Top.addr].exists
    BY <2>1 DEF DoAddToESDTBalance, World, Account
  <2> QED  BY <2>1, <2>2, <2>3 DEF IsAccount, World
<1>3. /\ TransfersOrdered(commands') /\ Top = commands[1] /\ Len(commands) \in Nat
      /\ TransferAt(commands, 1)
      /\ commands' # <<>> => TransferAt(commands, 2) /\ Top' = commands[2]
  BY <1>1, NextOrdered
<1>4. ~IsCheck(commands[1]) /\ commands[1].op \notin {"checkAccountExists", "exception"}
  BY <1>1, <1>3 DEF IsCheck
<1>5. ASSUME TransferAt(commands, 2)
      PROVE  /\ ~IsDebit(commands[2]) /\ ~IsCheck(commands[2])
             /\ IsCredit(commands[2]) => IsDebit(commands[1])
  <2>1. 2 > 1 /\ 2 - 1 = 1
    OBVIOUS
  <2>2. commands[2 - 1] = commands[1]
    BY <2>1
  <2> QED  BY <1>4, <1>5, <2>1, <2>2 DEF TransferAt
<1>6. IsDebit(commands[1]) => IsAccount(accounts, commands[2].addr)
  BY <1>1, <1>3 DEF TransfersInOrder, TransferIsCovered
<1>7. TransferIsCovered'
  BY <1>2, <1>3, <1>5, <1>6 DEF TransferIsCovered
<1> QED  BY <1>3, <1>7 DEF TransfersInOrder

LEMMA ExpansionOrdered ==
  ASSUME TypeOK, TransfersInOrder, DoTransferESDTs
  PROVE  TransfersInOrder' /\ ~CreditFirst'
<1> DEFINE group == TransferESDT(Top.from, Top.to, Head(Top.esdt))
           rest  == <<TransferESDTsAux(Top.from, Top.to, Tail(Top.esdt))>>
           t     == Tail(commands)
<1>1. /\ commands # <<>> /\ Top.op = "transferESDTs"
      /\ commands' = (IF Top.esdt = <<>> THEN <<>> ELSE group \o rest) \o t
      /\ commands \in Seq(Command) /\ TransfersOrdered(commands)
  BY DEF DoTransferESDTs, TopIs, Top, Replace, TypeOK, TransfersInOrder
<1>2. Top.op \notin TransferOps \cup {"checkAccountExists", "exception"}
  BY <1>1 DEF TransferOps
<1>3. CASE Top.esdt = <<>>
  BY <1>1, <1>2, <1>3, EmptyNone, RewriteOrdered
<1>4. CASE Top.esdt # <<>>
  <2>1. Top.from \in AnyAddress /\ Top.to \in AnyAddress /\ Top.esdt \in Seq(ESDTTransfer)
    BY <1>1, TopType, FieldTypes
  <2>2. Head(Top.esdt) \in ESDTTransfer /\ Tail(Top.esdt) \in Seq(ESDTTransfer)
    BY <1>4, <2>1, HeadTailProperties
  <2>3. group \in Seq(Command) /\ TransfersOrdered(group) /\ group[1].op = "checkAccountExists"
        /\ Len(group) = 5
    BY <2>1, <2>2, TransferOrdered DEF TransferESDT, CheckAccountExists
  <2>4. /\ rest \in Seq(Command) /\ NoneOf(rest, TransferOps) /\ rest # <<>>
        /\ rest[1].op \notin TransferOps
    <3>1. TransferESDTsAux(Top.from, Top.to, Tail(Top.esdt)) \in Command
      BY <2>1, <2>2 DEF TransferESDTsAux, Command
    <3>2. \A c : <<c>>[1] = c /\ <<c>> # <<>>
      OBVIOUS
    <3>3. TransferESDTsAux(Top.from, Top.to, Tail(Top.esdt)).op \notin TransferOps
      BY DEF TransferESDTsAux, TransferOps
    <3> QED  BY <3>1, <3>2, <3>3, OneNone
  <2>5. t \in Seq(Command) /\ TransfersOrdered(t) /\ NoTransferFirst(t)
    BY <1>1, <1>2, TailOrdered, NoTransferNext DEF Top
  <2>6. commands' = (group \o rest) \o t
    BY <1>1, <1>4
  <2> HIDE DEF group, rest, t
  <2>7. TransfersOrdered(rest) /\ NoTransferFirst(rest)
    BY <2>4, NoneOrdered DEF NoTransferFirst
  <2>8. PICK g : g = group \o rest
    OBVIOUS
  <2>9. g \in Seq(Command) /\ TransfersOrdered(g) /\ Len(g) >= 1 /\ g[1] = group[1]
    <3>1. /\ Len(group \o rest) = Len(group) + Len(rest) /\ Len(rest) \in Nat
          /\ \A i \in 1..(Len(group) + Len(rest)) :
               (group \o rest)[i] = IF i <= Len(group) THEN group[i] ELSE rest[i - Len(group)]
      BY <2>3, <2>4, ConcatProperties, LenProperties
    <3>2. 1 \in 1..(Len(group) + Len(rest)) /\ 1 <= Len(group)
      BY <2>3, <3>1
    <3>3. (group \o rest)[1] = group[1] /\ Len(group \o rest) >= 1
      BY <2>3, <3>1, <3>2
    <3> QED  BY <2>3, <2>4, <2>7, <2>8, <3>3, ConcatOrdered
  <2>10. commands' = g \o t
    BY <2>6, <2>8
  <2>11. TransfersOrdered(commands') /\ commands' \in Seq(Command)
    BY <2>5, <2>9, <2>10, ConcatOrdered
  <2>12. Head(commands') = g[1]
    <3>1. /\ Len(g \o t) = Len(g) + Len(t) /\ Len(g) \in Nat /\ Len(t) \in Nat
          /\ \A i \in 1..(Len(g) + Len(t)) :
               (g \o t)[i] = IF i <= Len(g) THEN g[i] ELSE t[i - Len(g)]
      BY <2>5, <2>9, ConcatProperties, LenProperties
    <3>2. 1 \in 1..(Len(g) + Len(t)) /\ 1 <= Len(g)
      BY <2>9, <3>1
    <3>3. (g \o t)[1] = g[1]
      BY <3>1, <3>2
    <3>4. g \o t \in Seq(Command) /\ g \o t # <<>>
      <4>1. g \o t \in Seq(Command) /\ Len(g \o t) # 0
        BY <2>5, <2>9, <3>1, ConcatProperties
      <4> QED  BY <4>1, EmptySeq
    <3>5. Head(g \o t) = (g \o t)[1]
      BY <3>4
    <3> QED  BY <2>10, <3>3, <3>5
  <2>13. NoTransferFirst(commands')
    BY <2>3, <2>9, <2>12 DEF NoTransferFirst, TransferOps
  <2> QED  BY <2>11, <2>13, QuietTop DEF TransfersInOrder
<1> QED  BY <1>3, <1>4

LEMMA SkipOrdered ==
  ASSUME TypeOK, TransfersInOrder, CallsInProgress, ExceptionSkip
  PROVE  TransfersInOrder' /\ ~CreditFirst'
<1> DEFINE h == <<Head(commands)>>
           t == Tail(Tail(commands))
<1>1. /\ commands # <<>> /\ Tail(commands) \in Seq(Command) /\ Tail(commands) # <<>>
      /\ commands \in Seq(Command) /\ TransfersOrdered(commands)
  BY SkipsBody DEF TypeOK, TransfersInOrder
<1>2. Head(commands) \in Command /\ Head(commands).op = "exception"
  BY <1>1, HeadTailProperties DEF ExceptionSkip, TopIs
<1>3. t \in Seq(Command) /\ TransfersOrdered(t)
  BY <1>1, TailOrdered
<1>4. /\ h \in Seq(Command) /\ Len(h) = 1 /\ h[1] = Head(commands) /\ h # <<>>
      /\ NoneOf(h, TransferOps)
  BY <1>2, OneNone DEF TransferOps
<1>5. commands' = h \o t
  BY DEF ExceptionSkip, Top
<1>6. Head(h \o t) = Head(commands)
  OBVIOUS
<1> HIDE DEF h, t
<1>7. TransfersOrdered(commands')
  BY <1>2, <1>3, <1>4, <1>5, NoneOrdered, ConcatOrdered
<1>8. NoTransferFirst(commands')
  BY <1>2, <1>5, <1>6 DEF NoTransferFirst, TransferOps
<1> QED  BY <1>7, <1>8, QuietTop DEF TransfersInOrder

LEMMA RevertOrdered ==
  ASSUME TypeOK, TransfersInOrder, ExceptionRevert
  PROVE  TransfersInOrder' /\ ~CreditFirst'
<1> DEFINE w == <<Plain("popCallState"), Plain("popWorldState")>>
<1>0. PICK s : s = Tail(commands)
  OBVIOUS
<1>1. /\ commands \in Seq(Command) /\ TransfersOrdered(commands) /\ commands # <<>>
      /\ Len(commands) > 1 /\ commands[2].op = "endWasm"
      /\ commands' = w \o Tail(s)
  BY <1>0 DEF ExceptionRevert, TopIs, TypeOK, TransfersInOrder
<1>2. /\ s \in Seq(Command) /\ TransfersOrdered(s) /\ Len(s) = Len(commands) - 1
      /\ \A i \in 1..Len(s) : s[i] = commands[i + 1]
  BY <1>0, <1>1, TailOrdered, HeadTailProperties
<1>3. Len(commands) \in Nat
  BY <1>1, LenProperties
<1>4. s # <<>> /\ Head(s) = commands[2]
  BY <1>1, <1>2, <1>3, EmptySeq
<1>5. Head(s).op \notin TransferOps \cup {"checkAccountExists", "exception"}
  BY <1>1, <1>4 DEF TransferOps
<1>6. PICK t : t = Tail(s)
  OBVIOUS
<1>7. t \in Seq(Command) /\ TransfersOrdered(t) /\ NoTransferFirst(t)
  BY <1>2, <1>4, <1>5, <1>6, TailOrdered, NoTransferNext
<1>8. w \in Seq(Command) /\ NoneOf(w, TransferOps)
  BY PlainType DEF PlainOp, NoneOf, Plain, TransferOps
<1> HIDE DEF w
<1>9. commands' = w \o t
  BY <1>1, <1>6
<1>10. TransfersOrdered(commands') /\ NoTransferFirst(commands')
  BY <1>7, <1>8, <1>9, NoneOrdered, ConcatOrdered, ConcatNoTransferFirst
<1> QED  BY <1>10, QuietTop DEF TransfersInOrder

LEMMA LeavesOrdered ==
  ASSUME TypeOK, TransfersInOrder, Leaves
  PROVE  TransfersInOrder' /\ ~CreditFirst'
<1>1. /\ commands # <<>> /\ Top.op = "endWasm"
      /\ commands \in Seq(Command) /\ TransfersOrdered(commands)
  BY DEF Leaves, TypeOK, TransfersInOrder
<1>2. PICK new \in Seq(Command) :
        NoneOf(new, EndingOps \cup TransferOps) /\ commands' = new \o commands
  BY DEF Leaves
<1>3. NoneOf(new, TransferOps)
  BY <1>2 DEF NoneOf
<1>4. NoTransferFirst(commands)
  BY <1>1 DEF NoTransferFirst, Top, TransferOps
<1>5. TransfersOrdered(commands') /\ NoTransferFirst(commands')
  BY <1>1, <1>2, <1>3, <1>4, NoneOrdered, ConcatOrdered, ConcatNoTransferFirst
<1> QED  BY <1>5, QuietTop DEF TransfersInOrder

LEMMA StepOrdered ==
  ASSUME TypeOK, CallsInProgress, TransfersInOrder, StepShape
  PROVE  /\ TransfersInOrder'
         /\ CreditFirst' => DoAddToESDTBalance \/ Computes
<1>1. CASE DoCheckAccountExists \/ ExceptionSkip \/ ExceptionRevert \/ DoTransferESDTs
             \/ DoCheckESDTBalance \/ DoAddToESDTBalance \/ Leaves
  BY <1>1, CheckAccountOrdered, SkipOrdered, RevertOrdered, ExpansionOrdered,
     CheckBalanceOrdered, AddToBalanceOrdered, LeavesOrdered
<1>2. CASE Computes
  BY <1>2 DEF Computes, TransfersInOrder, TransferIsCovered, Top
<1>3. ASSUME NEW new \in Seq(Command), NoneOf(new, TransferOps), commands # <<>>,
             commands' = new \o Tail(commands),
             Top.op \notin TransferOps \cup {"checkAccountExists", "exception"}
      PROVE  TransfersInOrder' /\ ~CreditFirst'
  BY <1>3, RewriteOrdered
<1>4. CASE StackStep
  <2>1. /\ commands # <<>> /\ commands' = <<>> \o Tail(commands)
        /\ Top.op \in StackOps \cup {"resetCallstate"}
    BY <1>4 DEF StackStep, PushWorldState, PopWorldState, DropWorldState, PushCallState,
         PopCallState, ResetCallstate, TopIs, Top, Replace, StackOps
  <2> QED  BY <1>3, <2>1, EmptyNone DEF StackOps, TransferOps
<1>5. CASE EndWasm
  <2> DEFINE new == <<Plain("asyncExecute"), Plain("setVMOutput"), Plain("popCallState"),
                      Plain("dropWorldState")>>
  <2>1. /\ commands # <<>> /\ Top.op = "endWasm" /\ commands' = new \o Tail(commands)
    BY <1>5 DEF EndWasm, TopIs, Top, Replace
  <2>2. new \in Seq(Command)
    BY PlainType DEF PlainOp
  <2>3. NoneOf(new, TransferOps)
    BY DEF NoneOf, Plain, TransferOps
  <2> HIDE DEF new
  <2> QED  BY <1>3, <2>1, <2>2, <2>3 DEF TransferOps
<1>6. CASE Works
  <2>1. commands # <<>> /\ Top.op \notin ShapeOps
    BY <1>6 DEF Works
  <2>2. PICK new \in Seq(Command) :
          NoneOf(new, EndingOps \cup TransferOps) /\ commands' = new \o Tail(commands)
    BY <1>6 DEF Works
  <2>3. NoneOf(new, TransferOps)
    BY <2>2 DEF NoneOf
  <2> QED  BY <1>3, <2>1, <2>2, <2>3 DEF ShapeOps
<1>7. CASE Enters
  <2>1. commands # <<>> /\ Top.op \in CallOps
    BY <1>7 DEF Enters
  <2>2. PICK body \in Seq(Command) :
          /\ NoneOf(body, EndingOps \cup TransferOps)
          /\ commands' = ((Entry \o body) \o <<Plain("endWasm")>>) \o Tail(commands)
    BY <1>7 DEF Enters
  <2> DEFINE e == Entry
             z == <<Plain("endWasm")>>
  <2>3. NoneOf(body, TransferOps) /\ NoneOf(e, TransferOps) /\ NoneOf(z, TransferOps)
    BY <2>2 DEF NoneOf, Entry, Plain, TransferOps
  <2>4. e \in Seq(Command) /\ z \in Seq(Command)
    BY EntryCounts, PlainType DEF PlainOp
  <2> HIDE DEF e, z
  <2>5. e \o body \in Seq(Command) /\ NoneOf(e \o body, TransferOps)
    BY <2>3, <2>4, NoneConcat
  <2>6. (e \o body) \o z \in Seq(Command) /\ NoneOf((e \o body) \o z, TransferOps)
    BY <2>3, <2>4, <2>5, NoneConcat
  <2>7. commands' = ((e \o body) \o z) \o Tail(commands)
    BY <2>2 DEF e, z
  <2> DEFINE new == (e \o body) \o z
  <2> HIDE DEF new
  <2>8. new \in Seq(Command) /\ NoneOf(new, TransferOps) /\ commands' = new \o Tail(commands)
    BY <2>6, <2>7 DEF new
  <2> QED  BY <1>3, <2>1, <2>8 DEF CallOps, TransferOps
<1> QED  BY <1>1, <1>2, <1>4, <1>5, <1>6, <1>7 DEF StepShape

LEMMA TransfersStayInOrder == Spec => []TransfersInOrder
<1>1. Init => TransfersInOrder
  BY EmptyNone, NoneOrdered DEF Init, TransfersInOrder, TransferIsCovered
<1>2. TypeOK /\ CallsInProgress /\ TransfersInOrder /\ [Next]_vars => TransfersInOrder'
  <2> SUFFICES ASSUME TypeOK, CallsInProgress, TransfersInOrder, [Next]_vars
               PROVE  TransfersInOrder'
    OBVIOUS
  <2>1. CASE UNCHANGED vars
    BY <2>1 DEF vars, TransfersInOrder, TransferIsCovered, Top
  <2>2. CASE Finished
    BY <2>2 DEF Finished, vars, TransfersInOrder, TransferIsCovered, Top
  <2>3. CASE CallTx
    <3>1. PICK c \in Command : c.op = "callContract" /\ commands' = <<c>>
      BY <2>3, CallTxShape
    <3>2. <<c>> \in Seq(Command) /\ NoneOf(<<c>>, TransferOps)
      BY <3>1, OneNone DEF TransferOps
    <3>3. Head(<<c>>) = c
      OBVIOUS
    <3>4. TransfersOrdered(commands') /\ NoTransferFirst(commands')
      BY <3>1, <3>2, <3>3, NoneOrdered DEF NoTransferFirst, TransferOps
    <3> QED  BY <3>4, QuietTop DEF TransfersInOrder
  <2>4. CASE Step
    BY <2>4, StepsHaveShape, StepOrdered
  <2> QED  BY <2>1, <2>2, <2>3, <2>4 DEF Next
<1> QED  BY <1>1, <1>2, TypeCorrect, CallsStayInProgress, PTL DEF Spec

(* The rules for a debit of a token the sender does not hold never apply,    *)
(* and the credit that follows a debit always finds the receiving account:   *)
(* nothing comes between the checks of a transfer and its two updates.       *)
THEOREM DebitsCovered == Spec => []DebitsAreCovered
<1>1. TransfersInOrder => DebitsAreCovered
  <2> SUFFICES ASSUME TransfersInOrder, TopIs("addToESDTBalance")
               PROVE  /\ IsAccount(accounts, Top.addr)
                      /\ ~Top.allowNew =>
                           HoldsESDT(accounts, Top.addr, Top.token, 0 - Top.delta)
    BY DEF DebitsAreCovered
  <2> QED  BY DEF TransfersInOrder, TransferIsCovered, TopIs, Top, IsDebit, IsCredit, HoldsESDT
<1> QED  BY <1>1, TransfersStayInOrder, PTL

(* ------------------------- How a step changes worlds --------------------- *)

LEMMA WorldSteps ==
  ASSUME Step
  PROVE  \/ UNCHANGED <<accounts, interimStates>>
         \/ PushWorldState \/ PopWorldState \/ DropWorldState
         \/ TransferFundsMove \/ DoAddToESDTBalance
<1>1. CASE StackStep
  BY <1>1 DEF StackStep, PushCallState, PopCallState, ResetCallstate
<1>2. CASE CheckStep
  BY <1>2 DEF CheckStep, DoCheckAccountExists, DoCheckBool, ExceptionSkip, ExceptionRevert
<1>3. CASE TransferStep
  BY <1>3 DEF TransferStep, TransferFundsSelf, TransferFundsOutOfFunds, DoTransferESDTs,
              DoCheckESDTBalance, DoAppendToOutAccount
<1>4. CASE CallStep
  BY <1>4 DEF CallStep, DoCallContract, CallContractAux, CallContractAuxBuiltin,
              CallContractAuxErrCallback, CallContractAuxNotContract, DoCallContractCb,
              NewWasmInstance, WaitWasm, MkCall, MkCallFuncNotFound, EndWasm, SetVMOutput,
              DoProcessBuiltinFunction, DetermineIsSCCallAfter
<1>5. CASE AsyncStep
  BY <1>5 DEF AsyncStep, RegisterAsyncCall, AddAsyncCall, AsyncExecute,
              ExecuteAsyncLocalCalls, DropAsyncLocalCall, ExecuteAsyncLocalCall,
              ExecuteAsyncLocalCallback, MergeOutputs
<1>6. CASE CodeStep
  BY <1>6 DEF CodeStep, InitModule, WaitCommands, FinishExecuteOnDestOk,
              FinishExecuteOnDestException, Return, Throw, HostCommands, Finish,
              CleanReturnData, TransferValue, ExecuteOnDestContext, CreateAsyncCall,
              CreateAsyncCallWith, ManagedAsyncCall
<1> QED  BY <1>1, <1>2, <1>3, <1>4, <1>5, <1>6 DEF Step


LEMMA PushedWorlds ==
  ASSUME TypeOK, PushWorldState
  PROVE  /\ accounts' = accounts /\ Len(interimStates') = Len(interimStates) + 1
         /\ \A i \in 1..Len(interimStates') :
              \/ interimStates'[i] = accounts
              \/ i - 1 \in 1..Len(interimStates) /\ interimStates'[i] = interimStates[i - 1]
<1> DEFINE s == <<accounts>>
<1>1. /\ s \in Seq(World) /\ interimStates \in Seq(World) /\ Len(interimStates) \in Nat
      /\ Len(s) = 1 /\ s[1] = accounts
  BY LenProperties DEF TypeOK
<1>2. interimStates' = s \o interimStates /\ accounts' = accounts
  BY DEF PushWorldState
<1> HIDE DEF s
<1>3. /\ Len(s \o interimStates) = 1 + Len(interimStates)
      /\ \A i \in 1..(1 + Len(interimStates)) :
           (s \o interimStates)[i] = IF i <= 1 THEN s[i] ELSE interimStates[i - 1]
  BY <1>1, ConcatProperties
<1>4. \A i \in 1..(1 + Len(interimStates)) :
        (i <= 1 => i = 1) /\ (i > 1 => i - 1 \in 1..Len(interimStates))
  BY <1>1
<1> QED  BY <1>1, <1>2, <1>3, <1>4

LEMMA PoppedWorlds ==
  ASSUME TypeOK, PopWorldState \/ DropWorldState
  PROVE  /\ interimStates # <<>> /\ Len(interimStates') = Len(interimStates) - 1
         /\ 1 \in 1..Len(interimStates) /\ Head(interimStates) = interimStates[1]
         /\ interimStates[1] \in World
         /\ \A i \in 1..Len(interimStates') :
              i + 1 \in 1..Len(interimStates) /\ interimStates'[i] = interimStates[i + 1]
<1>1. /\ interimStates \in Seq(World) /\ interimStates # <<>>
      /\ interimStates' = Tail(interimStates)
  BY DEF PopWorldState, DropWorldState, TypeOK
<1>2. Len(interimStates) \in Nat \ {0}
  BY <1>1, EmptySeq, LenProperties
<1>3. /\ Len(Tail(interimStates)) = Len(interimStates) - 1
      /\ \A i \in 1..Len(Tail(interimStates)) : Tail(interimStates)[i] = interimStates[i + 1]
  BY <1>1, HeadTailProperties
<1>4. \A i \in 1..Len(Tail(interimStates)) : i + 1 \in 1..Len(interimStates)
  BY <1>2, <1>3
<1> QED  BY <1>1, <1>2, <1>3, <1>4

LEMMA MovedFunds ==
  ASSUME TypeOK, TransferFundsMove
  PROVE  /\ Top.from \in Address /\ Top.to \in Address /\ Top.from # Top.to
         /\ Top.value \in Amount /\ Top.value \in Int
         /\ Top.value <= accounts[Top.from].balance
         /\ accounts' = Credit(Credit(accounts, Top.from, 0 - Top.value), Top.to, Top.value)
         /\ Credit(accounts, Top.from, 0 - Top.value) \in World
         /\ interimStates' = interimStates
<1>1. Top.value \in Amount /\ Top.value \in Int
  BY TopType, FieldTypes, AmountAssumption DEF TransferFundsMove, TopIs, Top
<1>2. Credit(accounts, Top.from, 0 - Top.value) \in World
  BY <1>1, CreditType DEF TypeOK
<1> QED  BY <1>1, <1>2 DEF TransferFundsMove, IsAccount

(* The balance of Top.addr in Top.token after it is updated.                 *)
NewBalance == IF Top.token \in accounts[Top.addr].held
              THEN accounts[Top.addr].esdt[Top.token] + Top.delta ELSE Top.delta

LEMMA UpdatedBalance ==
  ASSUME TypeOK, DoAddToESDTBalance
  PROVE  /\ Top.addr \in Address /\ Top.token \in Token /\ Top.delta \in Int
         /\ NewBalance \in Int
         /\ accounts' = SetESDT(accounts, Top.addr, Top.token, NewBalance)
         /\ interimStates' = interimStates
<1>1. /\ Top.addr \in Address /\ Top.token \in Token /\ Top.delta \in Int
      /\ accounts \in World
  BY TopType, FieldTypes DEF DoAddToESDTBalance, TopIs, Top, IsAccount, TypeOK
<1>2. accounts[Top.addr].esdt[Top.token] \in Int
  BY <1>1 DEF World, Account
<1>3. NewBalance \in Int
  BY <1>1, <1>2 DEF NewBalance
<1>4. accounts' = SetESDT(accounts, Top.addr, Top.token, NewBalance)
  BY <1>1 DEF DoAddToESDTBalance, SetESDT, NewBalance, World, Account
<1> QED  BY <1>1, <1>3, <1>4 DEF DoAddToESDTBalance

LEMMA SetESDTIs ==
  ASSUME NEW w \in World, NEW a \in Address, NEW t \in Token, NEW n \in Int,
         NEW v, v = SetESDT(w, a, t, n)
  PROVE  /\ v[a].held = w[a].held \cup {t} /\ v[a].esdt[t] = n
         /\ \A b \in Address \ {a} : v[b] = w[b]
         /\ \A b \in Address : v[b].balance = w[b].balance
         /\ \A u \in Token \ {t} : v[a].esdt[u] = w[a].esdt[u]
<1>1. SetESDT(w, a, t, n)
        = [w EXCEPT ![a] = [w[a] EXCEPT !.held = @ \cup {t}, !.esdt[t] = n]]
  BY DEF SetESDT, World
<1> DEFINE r == [w[a] EXCEPT !.held = @ \cup {t}, !.esdt[t] = n]
<1>2. w[a] \in Account
  BY DEF World
<1>3. /\ r.balance = w[a].balance /\ r.held = w[a].held \cup {t}
      /\ r.esdt[t] = n /\ \A u \in Token \ {t} : r.esdt[u] = w[a].esdt[u]
  BY <1>2 DEF Account
<1> HIDE DEF r
<1>4. v[a] = r /\ \A b \in Address \ {a} : v[b] = w[b]
  BY <1>1 DEF World, r
<1> QED  BY <1>3, <1>4

(* ------------------- A token without an entry is worth 0 ----------------- *)

NoneHidden ==
  NoEntryIsZero(accounts) /\ \A i \in 1..Len(interimStates) : NoEntryIsZero(interimStates[i])

LEMMA CreditKeepsEntries ==
  ASSUME NEW w \in World, NEW a, NEW v, NoEntryIsZero(w)
  PROVE  NoEntryIsZero(Credit(w, a, v))
BY DEF NoEntryIsZero, Credit, World, Account

LEMMA HiddenStep ==
  ASSUME TypeOK, NoneHidden, Step
  PROVE  NoneHidden'
<1>1. accounts \in World
  BY DEF TypeOK
<1>2. CASE UNCHANGED <<accounts, interimStates>>
  BY <1>2 DEF NoneHidden
<1>3. CASE PushWorldState
  BY <1>3, PushedWorlds DEF NoneHidden
<1>4. CASE PopWorldState \/ DropWorldState
  <2>1. accounts' = accounts \/ accounts' = Head(interimStates)
    BY <1>4 DEF PopWorldState, DropWorldState
  <2> QED  BY <1>4, <2>1, PoppedWorlds DEF NoneHidden
<1>5. CASE TransferFundsMove
  <2>1. NoEntryIsZero(Credit(accounts, Top.from, 0 - Top.value))
    BY <1>1, CreditKeepsEntries DEF NoneHidden
  <2>2. NoEntryIsZero(accounts')
    BY <1>5, <2>1, MovedFunds, CreditKeepsEntries
  <2> QED  BY <1>5, <2>2, MovedFunds DEF NoneHidden
<1>6. CASE DoAddToESDTBalance
  <2> DEFINE a == Top.addr
             t == Top.token
             n == NewBalance
  <2>1. /\ a \in Address /\ t \in Token /\ n \in Int
        /\ accounts' = SetESDT(accounts, a, t, n) /\ interimStates' = interimStates
    BY <1>6, UpdatedBalance
  <2> HIDE DEF a, t, n
  <2>2. ASSUME NEW b \in Address, NEW u \in Token, u \notin accounts'[b].held
        PROVE  accounts'[b].esdt[u] = 0
    <3>1. /\ accounts'[a].held = accounts[a].held \cup {t}
          /\ \A c \in Address \ {a} : accounts'[c] = accounts[c]
          /\ \A v \in Token \ {t} : accounts'[a].esdt[v] = accounts[a].esdt[v]
      BY <1>1, <2>1, SetESDTIs
    <3>2. NoEntryIsZero(accounts)
      BY DEF NoneHidden
    <3>3. CASE b = a
      <4>1. u # t /\ u \notin accounts[a].held
        BY <2>2, <3>1, <3>3
      <4> QED  BY <2>1, <3>1, <3>2, <3>3, <4>1 DEF NoEntryIsZero
    <3>4. CASE b # a
      BY <2>2, <3>1, <3>2, <3>4 DEF NoEntryIsZero
    <3> QED  BY <3>3, <3>4
  <2> QED  BY <2>1, <2>2 DEF NoneHidden, NoEntryIsZero
<1> QED  BY <1>2, <1>3, <1>4, <1>5, <1>6, WorldSteps

(* ---------------------------- Supply is kept ----------------------------- *)

LEMMA TransitStep ==
  ASSUME TypeOK, CallsInProgress, TransfersInOrder, StepShape, ~DoAddToESDTBalance
  PROVE  \A t : InTransit(t)' = InTransit(t)
<1>1. CASE Computes
  BY <1>1 DEF Computes, InTransit, TopIs, Top
<1>2. CASE ~Computes
  <2>1. \A t : InTransit(t)' = 0
    BY <1>2, StepOrdered DEF CreditFirst, InTransit, TopIs, Top, IsCredit
  <2>2. commands # <<>> /\ Top.op # "addToESDTBalance"
    BY <1>2 DEF StepShape, StackStep, PushWorldState, PopWorldState, DropWorldState,
         PushCallState, PopCallState, ResetCallstate, DoCheckAccountExists, ExceptionSkip,
         ExceptionRevert, DoTransferESDTs, DoCheckESDTBalance, EndWasm, Works, Enters,
         Leaves, TopIs, Top, ShapeOps, TransferOps, CallOps
  <2> QED  BY <2>1, <2>2 DEF InTransit, TopIs, Top
<1> QED  BY <1>1, <1>2

LEMMA TransitType == ASSUME TypeOK PROVE \A t : InTransit(t) \in Int
BY TopType, FieldTypes DEF InTransit, TopIs, Top

LEMMA AddedSupply ==
  ASSUME TypeOK, TransfersInOrder, NoneHidden, DoAddToESDTBalance
  PROVE  /\ EGLDSupply(accounts') = EGLDSupply(accounts)
         /\ \A t \in Token : ESDTSupply(accounts', t) + InTransit(t)'
                               = ESDTSupply(accounts, t) + InTransit(t)
<1> DEFINE a == Top.addr
           k == Top.token
           d == Top.delta
           n == NewBalance
           old == accounts[a].esdt[k]
<1>1. /\ a \in Address /\ k \in Token /\ d \in Int /\ n \in Int
      /\ accounts' = SetESDT(accounts, a, k, n) /\ accounts \in World
  BY UpdatedBalance DEF TypeOK
<1>2. old \in Int
  BY <1>1 DEF World, Account
<1>3. n = old + d
  BY <1>1, <1>2 DEF NewBalance, NoneHidden, NoEntryIsZero
<1>4. /\ EGLDSupply(accounts') = EGLDSupply(accounts)
      /\ ESDTSupply(accounts', k) = ESDTSupply(accounts, k) + (n - old)
      /\ \A u \in Token \ {k} : ESDTSupply(accounts', u) = ESDTSupply(accounts, u)
  BY <1>1, SetESDTSupply
<1>5. /\ commands # <<>> /\ Top.op = "addToESDTBalance"
      /\ commands' = <<>> \o Tail(commands)
  BY DEF DoAddToESDTBalance, TopIs, Top, Replace
<1>6. /\ Top = commands[1] /\ Len(commands) \in Nat /\ TransferAt(commands, 1)
      /\ Len(commands') = Len(commands) - 1
      /\ commands' # <<>> => TransferAt(commands, 2) /\ Top' = commands[2]
  BY <1>5, NextOrdered
<1>7. \A t : /\ InTransit(t) = IF k = t /\ Top.allowNew THEN d ELSE 0
             /\ InTransit(t)' = IF /\ commands' # <<>> /\ IsCredit(Top')
                                   /\ Top'.token = t THEN Top'.delta ELSE 0
  BY <1>5 DEF InTransit, TopIs, Top, IsCredit
<1>8. ASSUME commands' # <<>>, IsCredit(Top') PROVE ~Top.allowNew
  <2>1. 2 > 1 /\ 2 - 1 = 1
    OBVIOUS
  <2>2. commands[2 - 1] = commands[1] /\ commands[1].op # "exception"
    BY <1>5, <1>6, <2>1
  <2> QED  BY <1>6, <1>8, <2>1, <2>2 DEF TransferAt, IsDebit
<1>9. ASSUME ~Top.allowNew
      PROVE  /\ commands' # <<>> /\ IsCredit(Top') /\ Top'.token = k
             /\ d = 0 - Top'.delta /\ Top'.delta \in Int
  <2>1. IsDebit(commands[1])
    BY <1>5, <1>6, <1>9 DEF IsDebit
  <2>2. 2 <= Len(commands) /\ Paired(commands[1], commands[2])
    <3>1. 1 + 1 = 2
      OBVIOUS
    <3>2. commands[1 + 1] = commands[2]
      BY <3>1
    <3> QED  BY <1>6, <2>1, <3>1, <3>2 DEF TransferAt
  <2>3. commands' # <<>>
    <3>1. Len(commands') # 0
      BY <1>6, <2>2
    <3> QED  BY <3>1
  <2>4. commands[2] \in Command /\ commands[2].op = "addToESDTBalance"
    BY <1>6, <2>2, ElementOfSeq DEF TypeOK, Paired, IsCredit
  <2>5. commands[2].delta \in Int
    BY <2>4, FieldTypes
  <2> QED  BY <1>6, <2>2, <2>3, <2>5 DEF Paired
<1>10. ESDTSupply(accounts, k) \in Int
  BY <1>1, SupplyType
<1> HIDE DEF a, k, d, n, old
<1>11. CASE Top.allowNew
  <2>1. \A t : InTransit(t)' = 0 /\ InTransit(t) = IF k = t THEN d ELSE 0
    BY <1>7, <1>8, <1>11
  <2>2. ESDTSupply(accounts', k) + 0 = ESDTSupply(accounts, k) + d
    BY <1>1, <1>2, <1>3, <1>4, <1>10
  <2> QED  BY <1>4, <2>1, <2>2
<1>12. CASE ~Top.allowNew
  <2> DEFINE e == Top'.delta
  <2>1. \A t : InTransit(t) = 0 /\ InTransit(t)' = IF k = t THEN e ELSE 0
    BY <1>7, <1>9, <1>12
  <2>2. d = 0 - e /\ e \in Int
    BY <1>9, <1>12
  <2> HIDE DEF e
  <2>3. ESDTSupply(accounts', k) + e = ESDTSupply(accounts, k) + 0
    BY <1>2, <1>3, <1>4, <1>10, <2>2
  <2> QED  BY <1>4, <2>1, <2>3
<1> QED  BY <1>11, <1>12

LEMMA SupplyStep ==
  ASSUME TypeOK, CallsInProgress, TransfersInOrder, NoneHidden, SupplyConserved, Step
  PROVE  SupplyConserved'
<1>1. /\ accounts \in World
      /\ EGLDSupply(accounts) \in Int /\ \A t \in Token : ESDTSupply(accounts, t) \in Int
  BY SupplyType DEF TypeOK
<1>2. StepShape
  BY StepsHaveShape
<1>3. ASSUME interimStates' = interimStates, EGLDSupply(accounts') = EGLDSupply(accounts),
             \A t \in Token : ESDTSupply(accounts', t) + InTransit(t)'
                                = ESDTSupply(accounts, t) + InTransit(t)
      PROVE  SupplyConserved'
  BY <1>3 DEF SupplyConserved
<1>4. CASE UNCHANGED <<accounts, interimStates>>
  <2>1. CASE DoAddToESDTBalance
    BY <1>3, <1>4, <2>1, AddedSupply
  <2>2. CASE ~DoAddToESDTBalance
    BY <1>2, <1>3, <1>4, <2>2, TransitStep
  <2> QED  BY <2>1, <2>2
<1>5. CASE DoAddToESDTBalance
  <2>1. interimStates' = interimStates
    BY <1>5 DEF DoAddToESDTBalance
  <2> QED  BY <1>3, <1>5, <2>1, AddedSupply
<1>6. CASE TransferFundsMove
  <2> DEFINE w == Credit(accounts, Top.from, 0 - Top.value)
             x == Top.value
  <2>1. /\ Top.from \in Address /\ Top.to \in Address /\ x \in Int /\ w \in World
        /\ accounts' = Credit(w, Top.to, x) /\ interimStates' = interimStates
    BY <1>6, MovedFunds
  <2>2. /\ EGLDSupply(w) = EGLDSupply(accounts) + (0 - x)
        /\ \A t \in Token : ESDTSupply(w, t) = ESDTSupply(accounts, t)
    BY <1>1, <2>1, CreditSupply
  <2> HIDE DEF w, x
  <2>3. /\ EGLDSupply(accounts') = EGLDSupply(w) + x
        /\ \A t \in Token : ESDTSupply(accounts', t) = ESDTSupply(w, t)
    BY <2>1, CreditSupply
  <2>4. EGLDSupply(accounts') = EGLDSupply(accounts)
    BY <1>1, <2>1, <2>2, <2>3
  <2>5. ~DoAddToESDTBalance
    BY <1>6 DEF TransferFundsMove, DoAddToESDTBalance, TopIs
  <2> QED  BY <1>2, <1>3, <2>1, <2>2, <2>3, <2>4, <2>5, TransitStep
<1>7. ASSUME PushWorldState \/ PopWorldState \/ DropWorldState
      PROVE  \A t : InTransit(t) = 0 /\ InTransit(t)' = 0
  <2>1. commands # <<>> /\ Top.op # "addToESDTBalance" /\ ~DoAddToESDTBalance
    BY <1>7 DEF PushWorldState, PopWorldState, DropWorldState, DoAddToESDTBalance, TopIs, Top
  <2> QED  BY <1>2, <2>1, TransitStep DEF InTransit, TopIs, Top
<1>8. CASE PushWorldState
  BY <1>1, <1>7, <1>8, PushedWorlds DEF SupplyConserved
<1>9. CASE DropWorldState
  <2>1. accounts' = accounts
    BY <1>9 DEF DropWorldState
  <2> QED  BY <1>7, <1>9, <2>1, PoppedWorlds DEF SupplyConserved
<1>10. CASE PopWorldState
  <2>1. accounts' = interimStates[1]
    BY <1>10, PoppedWorlds DEF PopWorldState
  <2>2. /\ EGLDSupply(accounts') = EGLDSupply(accounts)
        /\ \A t \in Token : ESDTSupply(accounts', t) = ESDTSupply(accounts, t)
    BY <1>1, <1>7, <1>10, <2>1, PoppedWorlds DEF SupplyConserved
  <2> QED  BY <1>1, <1>7, <1>10, <2>2, PoppedWorlds DEF SupplyConserved
<1> QED  BY <1>4, <1>5, <1>6, <1>8, <1>9, <1>10, WorldSteps

SupplyInv == NoneHidden /\ SupplyConserved

LEMMA SupplyInvHolds == Spec => []SupplyInv
<1>1. Init => SupplyInv
  BY CallsAssumption DEF Init, SupplyInv, NoneHidden, SupplyConserved
<1>2. TypeOK /\ CallsInProgress /\ TransfersInOrder /\ StacksMatchCommands /\ SupplyInv
        /\ [Next]_vars => SupplyInv'
  <2> SUFFICES ASSUME TypeOK, CallsInProgress, TransfersInOrder, StacksMatchCommands,
                      SupplyInv, [Next]_vars
               PROVE  SupplyInv'
    OBVIOUS
  <2>1. CASE UNCHANGED vars \/ Finished
    BY <2>1 DEF Finished, vars, SupplyInv, NoneHidden, SupplyConserved, InTransit, TopIs, Top
  <2>2. CASE CallTx
    <3>1. commands = <<>> /\ interimStates' = interimStates
      BY <2>2 DEF CallTx, Idle
    <3>2. interimStates' = <<>>
      BY <3>1, NothingSaved
    <3>3. PICK from, fee : accounts' = Credit(accounts, from, 0 - fee)
      BY <2>2 DEF CallTx
    <3>4. NoEntryIsZero(accounts')
      BY <3>3, CreditKeepsEntries DEF SupplyInv, NoneHidden, TypeOK
    <3> QED  BY <3>2, <3>4 DEF SupplyInv, NoneHidden, SupplyConserved
  <2>3. CASE Step
    BY <2>3, HiddenStep, SupplyStep DEF SupplyInv
  <2> QED  BY <2>1, <2>2, <2>3 DEF Next
<1> QED  BY <1>1, <1>2, TypeCorrect, CallsStayInProgress, TransfersStayInOrder, StacksMatch,
            PTL DEF Spec

(* No call, callback, transfer or failure creates or destroys EGLD or        *)
(* tokens: at every moment the worlds saved by pushWorldState have the       *)
(* supply of <accounts>, up to the one token amount that has been debited    *)
(* and not yet credited, so a commit and a rollback both keep the supply.    *)
THEOREM SupplyIsConserved == Spec => []SupplyConserved
<1>1. SupplyInv => SupplyConserved
  BY DEF SupplyInv
<1> QED  BY <1>1, SupplyInvHolds, PTL

(* --------------------------- No account overdrawn ------------------------ *)

LEMMA SolventStep ==
  ASSUME TypeOK, TransfersInOrder, BalancesNonNegative, Amount \subseteq Nat, Step
  PROVE  BalancesNonNegative'
<1>1. accounts \in World /\ Solvent(accounts)
  BY DEF TypeOK, BalancesNonNegative
<1>2. CASE UNCHANGED <<accounts, interimStates>>
  BY <1>2 DEF BalancesNonNegative
<1>3. CASE PushWorldState
  BY <1>3, PushedWorlds DEF BalancesNonNegative
<1>4. CASE PopWorldState \/ DropWorldState
  <2>1. accounts' = accounts \/ accounts' = Head(interimStates)
    BY <1>4 DEF PopWorldState, DropWorldState
  <2> QED  BY <1>4, <2>1, PoppedWorlds DEF BalancesNonNegative
<1>5. CASE TransferFundsMove
  <2> DEFINE x == Top.value
             w == Credit(accounts, Top.from, 0 - x)
  <2>1. /\ Top.from \in Address /\ Top.to \in Address /\ x \in Nat
        /\ x <= accounts[Top.from].balance /\ accounts[Top.from].balance \in Int
        /\ accounts' = Credit(w, Top.to, x) /\ w \in World /\ interimStates' = interimStates
    BY <1>1, <1>5, MovedFunds DEF World, Account
  <2> HIDE DEF x
  <2>2. ASSUME NEW v \in World, Solvent(v), NEW a \in Address, NEW y \in Int,
               v[a].balance + y >= 0
        PROVE  Solvent(Credit(v, a, y))
    <3>1. \A b \in Address : /\ Credit(v, a, y)[b].esdt = v[b].esdt
                             /\ Credit(v, a, y)[b].balance
                                  = IF b = a THEN v[a].balance + y ELSE v[b].balance
      BY <2>2 DEF Credit, World, Account
    <3> QED  BY <2>2, <3>1 DEF Solvent
  <2>3. Solvent(w)
    BY <1>1, <2>1, <2>2
  <2> HIDE DEF w
  <2>4. w[Top.to].balance \in Int /\ w[Top.to].balance >= 0
    BY <2>1, <2>3 DEF World, Account, Solvent
  <2>5. Solvent(accounts')
    BY <2>1, <2>2, <2>3, <2>4
  <2> QED  BY <2>1, <2>5 DEF BalancesNonNegative
<1>6. CASE DoAddToESDTBalance
  <2> DEFINE a == Top.addr
             t == Top.token
             n == NewBalance
  <2>1. /\ a \in Address /\ t \in Token /\ n \in Int /\ Top.delta \in Int
        /\ accounts' = SetESDT(accounts, a, t, n) /\ interimStates' = interimStates
    BY <1>6, UpdatedBalance
  <2>2. accounts[a].esdt[t] \in Int /\ accounts[a].esdt[t] >= 0
    BY <1>1, <2>1 DEF World, Account, Solvent
  <2>3. n >= 0
    <3>1. /\ commands # <<>> /\ Top.op = "addToESDTBalance"
          /\ commands' = <<>> \o Tail(commands)
      BY <1>6 DEF DoAddToESDTBalance, TopIs, Top, Replace
    <3>2. TransferAt(commands, 1) /\ Top = commands[1]
      BY <3>1, NextOrdered
    <3>3. CASE Top.allowNew
      <4>1. Top.delta \in Nat
        BY <3>1, <3>2, <3>3 DEF TransferAt, IsCredit
      <4> QED  BY <2>1, <2>2, <4>1 DEF NewBalance
    <3>4. CASE ~Top.allowNew
      <4>1. HoldsESDT(accounts, Top.addr, Top.token, 0 - Top.delta)
        BY <3>1, <3>4 DEF TransfersInOrder, TransferIsCovered, IsDebit
      <4> QED  BY <2>1, <2>2, <4>1 DEF NewBalance, HoldsESDT
    <3> QED  BY <3>3, <3>4
  <2> HIDE DEF a, t, n
  <2>4. /\ accounts'[a].esdt[t] = n
        /\ \A b \in Address \ {a} : accounts'[b] = accounts[b]
        /\ \A b \in Address : accounts'[b].balance = accounts[b].balance
        /\ \A u \in Token \ {t} : accounts'[a].esdt[u] = accounts[a].esdt[u]
    BY <1>1, <2>1, SetESDTIs
  <2>5. Solvent(accounts')
    <3> SUFFICES ASSUME NEW b \in Address
                 PROVE  /\ accounts'[b].balance >= 0
                        /\ \A u \in Token : accounts'[b].esdt[u] >= 0
      BY DEF Solvent
    <3>1. accounts'[b].balance >= 0
      BY <1>1, <2>4 DEF Solvent
    <3>2. ASSUME NEW u \in Token PROVE accounts'[b].esdt[u] >= 0
      BY <1>1, <2>1, <2>3, <2>4 DEF Solvent
    <3> QED  BY <3>1, <3>2
  <2> QED  BY <2>1, <2>5 DEF BalancesNonNegative
<1> QED  BY <1>2, <1>3, <1>4, <1>5, <1>6, WorldSteps

(* No account is ever overdrawn, neither in <accounts> nor in a saved world: *)
(* transferFunds and checkESDTBalance refuse what the sender does not have.  *)
(* It takes amounts that are not negative, and no fee, because neither a     *)
(* negative transfer nor the fee of callTx is checked against the balance.   *)
THEOREM NoOverdraft ==
  ASSUME Amount \subseteq Nat, Fees \subseteq {0}, \A w \in InitialWorlds : Solvent(w)
  PROVE  Spec => []BalancesNonNegative
<1>1. Init => BalancesNonNegative
  BY DEF Init, BalancesNonNegative
<1>2. TypeOK /\ TransfersInOrder /\ BalancesNonNegative /\ [Next]_vars
        => BalancesNonNegative'
  <2> SUFFICES ASSUME TypeOK, TransfersInOrder, BalancesNonNegative, [Next]_vars
               PROVE  BalancesNonNegative'
    OBVIOUS
  <2>1. CASE UNCHANGED vars \/ Finished
    BY <2>1 DEF Finished, vars, BalancesNonNegative
  <2>2. CASE CallTx
    <3>1. PICK from : accounts' = Credit(accounts, from, 0 - 0)
      BY <2>2 DEF CallTx
    <3>2. /\ interimStates' = interimStates
          /\ \A a \in Address : /\ accounts'[a].balance = accounts[a].balance
                                /\ accounts'[a].esdt = accounts[a].esdt
      BY <2>2, <3>1 DEF CallTx, Credit, TypeOK, World, Account
    <3> QED  BY <3>2 DEF BalancesNonNegative, Solvent
  <2>3. CASE Step
    BY <2>3, SolventStep
  <2> QED  BY <2>1, <2>2, <2>3 DEF Next
<1> QED  BY <1>1, <1>2, TypeCorrect, TransfersStayInOrder, PTL DEF Spec

(***************************************************************************)
(* CallMachine implements AtomicTransactions: a transaction commits as a   *)
(* whole or has no effect, for every set of addresses, amounts and calls.  *)
(***************************************************************************)

(* ------------------------- How a call ends ------------------------------- *)

(* A failed call takes its world back after its call state, and next; a call *)
(* that returns drops its world after its call state, and after its output   *)
(* was set.                                                                  *)
EndingAt(s, i) ==
  /\ s[i].op = "popWorldState" => i <= 2 /\ (i = 2 => s[1].op = "popCallState")
  /\ s[i].op = "dropWorldState" =>
       /\ i >= 2 => s[i - 1].op = "popCallState"
       /\ i >= 3 => s[i - 2].op = "setVMOutput"
EndingsOrdered(s) == \A i \in 1..Len(s) : EndingAt(s, i)

TakesWorld(c) == c.op \in {"popWorldState", "dropWorldState"}
NoWorldNext(s) == \A i \in 1..Len(s) : i <= 2 => ~TakesWorld(s[i])

LEMMA NoneEnds ==
  ASSUME NEW s, NoneOf(s, {"popWorldState", "dropWorldState"})
  PROVE  EndingsOrdered(s) /\ NoWorldNext(s)
BY DEF NoneOf, EndingsOrdered, EndingAt, NoWorldNext, TakesWorld

LEMMA EndingTail ==
  ASSUME NEW s \in Seq(Command), s # <<>>, EndingsOrdered(s)
  PROVE  /\ Tail(s) \in Seq(Command) /\ EndingsOrdered(Tail(s))
         /\ Head(s).op \notin {"popCallState", "setVMOutput"} => NoWorldNext(Tail(s))
<1> DEFINE t == Tail(s)
<1>1. /\ t \in Seq(Command) /\ Len(t) = Len(s) - 1 /\ Len(s) \in Nat
      /\ \A i \in 1..Len(t) : t[i] = s[i + 1]
  BY HeadTailProperties, LenProperties
<1>2. Head(s) = s[1]
  OBVIOUS
<1> HIDE DEF t
<1>3. \A i \in 1..Len(t) : EndingAt(s, i + 1) /\ i + 1 \in 1..Len(s) /\ i \in Nat
  BY <1>1 DEF EndingsOrdered
<1>4. ASSUME NEW i \in 1..Len(t) PROVE EndingAt(t, i)
  <2>1. i >= 2 => t[i - 1] = s[i]
    <3>1. i >= 2 => i - 1 \in 1..Len(t) /\ (i - 1) + 1 = i
      BY <1>1
    <3> QED  BY <1>1, <3>1
  <2>2. i >= 3 => t[i - 2] = s[i - 1]
    <3>1. i >= 3 => i - 2 \in 1..Len(t) /\ (i - 2) + 1 = i - 1
      BY <1>1
    <3> QED  BY <1>1, <3>1
  <2>3. EndingAt(s, i + 1) /\ t[i] = s[i + 1] /\ (i + 1) - 1 = i /\ (i + 1) - 2 = i - 1
    BY <1>1, <1>3
  <2>4. t[i].op = "popWorldState" => i <= 2 /\ (i = 2 => t[1].op = "popCallState")
    <3>1. t[i].op = "popWorldState" => i + 1 <= 2
      BY <2>3 DEF EndingAt
    <3> QED  BY <1>3, <3>1
  <2>5. t[i].op = "dropWorldState" => (i >= 2 => t[i - 1].op = "popCallState")
    BY <1>3, <2>1, <2>3 DEF EndingAt
  <2>6. t[i].op = "dropWorldState" => (i >= 3 => t[i - 2].op = "setVMOutput")
    BY <1>3, <2>2, <2>3 DEF EndingAt
  <2> QED  BY <2>4, <2>5, <2>6 DEF EndingAt
<1>5. ASSUME Head(s).op \notin {"popCallState", "setVMOutput"},
             NEW i \in 1..Len(t), i <= 2, TakesWorld(t[i])
      PROVE  FALSE
  <2>1. EndingAt(s, i + 1) /\ t[i] = s[i + 1] /\ (i = 1 \/ i = 2)
    BY <1>1, <1>3, <1>5
  <2>2. CASE i = 1
    <3>1. EndingAt(s, 2) /\ TakesWorld(s[2])
      <4>1. i + 1 = 2
        BY <2>2
      <4> QED  BY <1>5, <2>1, <4>1
    <3>2. 2 >= 2 /\ s[2 - 1] = s[1]
      BY 2 - 1 = 1
    <3>3. s[1].op = "popCallState"
      BY <3>1, <3>2 DEF EndingAt, TakesWorld
    <3> QED  BY <1>2, <1>5, <3>3
  <2>3. CASE i = 2
    <3>1. EndingAt(s, 3) /\ TakesWorld(s[3])
      <4>1. i + 1 = 3
        BY <2>3
      <4> QED  BY <1>5, <2>1, <4>1
    <3>2. 3 >= 3 /\ ~(3 <= 2) /\ s[3 - 2] = s[1]
      BY 3 - 2 = 1
    <3>3. s[3 - 2].op = "setVMOutput"
      BY <3>1, <3>2 DEF EndingAt, TakesWorld
    <3> QED  BY <1>2, <1>5, <3>2, <3>3
  <2> QED  BY <2>1, <2>2, <2>3
<1>6. EndingsOrdered(t)
  BY <1>4 DEF EndingsOrdered
<1>7. Head(s).op \notin {"popCallState", "setVMOutput"} => NoWorldNext(t)
  BY <1>5 DEF NoWorldNext
<1> QED  BY <1>1, <1>6, <1>7 DEF t

LEMMA EndingConcat ==
  ASSUME NEW s \in Seq(Command), NEW t \in Seq(Command),
         EndingsOrdered(s), EndingsOrdered(t), NoWorldNext(t)
  PROVE  /\ s \o t \in Seq(Command) /\ EndingsOrdered(s \o t)
         /\ NoWorldNext(s) => NoWorldNext(s \o t)
<1> DEFINE r == s \o t
           n == Len(s)
<1>1. /\ r \in Seq(Command) /\ Len(r) = n + Len(t) /\ n \in Nat /\ Len(t) \in Nat
      /\ \A i \in 1..Len(r) : r[i] = IF i <= n THEN s[i] ELSE t[i - n]
  BY ConcatProperties, LenProperties
<1> HIDE DEF r, n
<1>2. ASSUME NEW i \in 1..Len(r) PROVE EndingAt(r, i)
  <2>1. CASE i <= n
    <3>1. i \in 1..Len(s) /\ EndingAt(s, i) /\ i \in Nat
      BY <1>1, <2>1 DEF EndingsOrdered, n
    <3>2. /\ r[i] = s[i] /\ (i >= 2 => r[i - 1] = s[i - 1] /\ r[1] = s[1])
          /\ i >= 3 => r[i - 2] = s[i - 2]
      BY <1>1, <2>1
    <3> QED  BY <3>1, <3>2 DEF EndingAt
  <2>2. CASE i > n
    <3> DEFINE k == i - n
    <3>1. k \in 1..Len(t) /\ EndingAt(t, k) /\ r[i] = t[k] /\ k \in Nat /\ i = k + n
      BY <1>1, <2>2 DEF EndingsOrdered
    <3>2. k <= 2 => ~TakesWorld(t[k])
      BY <3>1 DEF NoWorldNext
    <3>3. k >= 3 => r[i - 1] = t[k - 1] /\ r[i - 2] = t[k - 2]
      <4>1. k >= 3 => i - 1 \in 1..Len(r) /\ i - 1 > n /\ (i - 1) - n = k - 1
        BY <1>1, <3>1
      <4>2. k >= 3 => i - 2 \in 1..Len(r) /\ i - 2 > n /\ (i - 2) - n = k - 2
        BY <1>1, <3>1
      <4>3. k >= 3 => r[i - 1] = t[(i - 1) - n] /\ r[i - 2] = t[(i - 2) - n]
        BY <1>1, <4>1, <4>2
      <4> QED  BY <4>1, <4>2, <4>3
    <3> HIDE DEF k
    <3>4. CASE k <= 2
      BY <3>1, <3>2, <3>4 DEF EndingAt, TakesWorld
    <3>5. CASE k >= 3
      BY <3>1, <3>3, <3>5 DEF EndingAt
    <3> QED  BY <3>1, <3>4, <3>5
  <2> QED  BY <1>1, <2>1, <2>2
<1>3. ASSUME NoWorldNext(s), NEW i \in 1..Len(r), i <= 2 PROVE ~TakesWorld(r[i])
  <2>1. CASE i <= n
    BY <1>1, <1>3, <2>1 DEF NoWorldNext, n
  <2>2. CASE i > n
    <3>1. i - n \in 1..Len(t) /\ i - n <= 2 /\ r[i] = t[i - n]
      BY <1>1, <1>3, <2>2
    <3> QED  BY <3>1 DEF NoWorldNext
  <2> QED  BY <1>1, <2>1, <2>2
<1> QED  BY <1>1, <1>2, <1>3 DEF EndingsOrdered, NoWorldNext, r

(* What a call that ends has left in <vmOutput>.                             *)
OutcomeAt(s, rc) ==
  \A i \in 1..Len(s) : i <= 2 =>
    /\ s[i].op = "popWorldState" => rc \in ExceptionCode
    /\ s[i].op = "dropWorldState" => rc = "OK"

LEMMA NoOutcome ==
  ASSUME NEW s, NoWorldNext(s), NEW rc
  PROVE  OutcomeAt(s, rc)
BY DEF NoWorldNext, OutcomeAt, TakesWorld

CallsEnd == EndingsOrdered(commands) /\ OutcomeAt(commands, vmOutput.returnCode)

LEMMA RewriteEnds ==
  ASSUME TypeOK, CallsEnd, commands # <<>>, Top.op \notin {"popCallState", "setVMOutput"},
         NEW new \in Seq(Command), EndingsOrdered(new), NoWorldNext(new),
         commands' = new \o Tail(commands)
  PROVE  CallsEnd'
<1> DEFINE t == Tail(commands)
<1>1. t \in Seq(Command) /\ EndingsOrdered(t) /\ NoWorldNext(t)
  BY EndingTail DEF TypeOK, CallsEnd, Top
<1> HIDE DEF t
<1>2. EndingsOrdered(new \o t) /\ NoWorldNext(new \o t)
  BY <1>1, EndingConcat
<1>3. EndingsOrdered(commands') /\ NoWorldNext(commands')
  BY <1>2 DEF t
<1> QED  BY <1>3, NoOutcome DEF CallsEnd

(* --------------------- The last command of a transaction ----------------- *)

(* The last command takes back the world saved when the transaction began.   *)
TakenBack(s) == s # <<>> /\ s[Len(s)].op \in PopWorld

LEMMA TakenBackTail ==
  ASSUME NEW s \in Seq(Command), TakenBack(s)
  PROVE  /\ Tail(s) = <<>> \/ TakenBack(Tail(s))
         /\ Head(s).op \notin PopWorld => TakenBack(Tail(s))
         /\ Tail(s) = <<>> => Len(s) = 1
<1>0. PICK t : t = Tail(s)
  OBVIOUS
<1>1. /\ t \in Seq(Command) /\ Len(t) = Len(s) - 1 /\ s # <<>>
      /\ \A i \in 1..Len(t) : t[i] = s[i + 1]
  BY <1>0, HeadTailProperties DEF TakenBack
<1>2. Len(s) \in Nat \ {0} /\ Head(s) = s[1]
  BY <1>1, EmptySeq, LenProperties
<1>3. ASSUME t # <<>> PROVE TakenBack(t)
  <2>1. Len(t) \in Nat \ {0}
    BY <1>1, <1>2, <1>3, EmptySeq
  <2>2. /\ Len(t) \in 1..Len(t) /\ Len(t) + 1 = Len(s)
    BY <1>1, <1>2, <2>1
  <2>3. t[Len(t)] = s[Len(s)]
    BY <1>1, <2>2
  <2> QED  BY <1>3, <2>3 DEF TakenBack
<1>4. ASSUME t = <<>> PROVE Len(s) = 1 /\ Head(s).op \in PopWorld
  <2>1. Len(t) = 0 /\ Len(s) = 1
    <3>1. Len(t) = 0
      BY <1>1, <1>4, EmptySeq
    <3> QED  BY <1>1, <1>2, <3>1
  <2> QED  BY <1>2, <2>1 DEF TakenBack
<1> QED  BY <1>0, <1>3, <1>4

LEMMA TakenBackConcat ==
  ASSUME NEW s \in Seq(Command), NEW t \in Seq(Command), TakenBack(t)
  PROVE  TakenBack(s \o t)
<1>1. /\ s \o t \in Seq(Command) /\ Len(s \o t) = Len(s) + Len(t)
      /\ Len(s) \in Nat /\ Len(t) \in Nat \ {0}
      /\ \A i \in 1..(Len(s) + Len(t)) :
           (s \o t)[i] = IF i <= Len(s) THEN s[i] ELSE t[i - Len(s)]
  BY ConcatProperties, LenProperties, EmptySeq DEF TakenBack
<1> DEFINE n == Len(s) + Len(t)
<1>2. n \in 1..n /\ ~(n <= Len(s)) /\ n - Len(s) = Len(t)
  BY <1>1
<1>3. (s \o t)[n] = t[Len(t)] /\ Len(s \o t) = n /\ n # 0
  BY <1>1, <1>2
<1>4. s \o t # <<>>
  BY <1>1, <1>3, EmptySeq
<1> QED  BY <1>3, <1>4 DEF TakenBack

(* The commands left after the top one, if any, still end the transaction.   *)
LEMMA TakenBackNew ==
  ASSUME NEW new \in Seq(Command), NEW t \in Seq(Command),
         TakenBack(t) \/ (t = <<>> /\ TakenBack(new))
  PROVE  TakenBack(new \o t)
<1>1. CASE t = <<>> /\ TakenBack(new)
  <2>1. new \o t = new
    BY <1>1
  <2> QED  BY <1>1, <2>1
<1> QED  BY <1>1, TakenBackConcat

(* --------------------- How a step rewrites an ending --------------------- *)

Rewrites(new) ==
  /\ commands # <<>>
  /\ Top.op \notin {"popCallState", "setVMOutput", "exception", "endWasm"}
  /\ NoneOf(new, {"popWorldState", "dropWorldState"})
  /\ Top.op = "callContract" => TakenBack(new)
  /\ commands' = new \o Tail(commands)

LEMMA OutputShape ==
  ASSUME TypeOK, CallsInProgress, Step, TopIs("setVMOutput")
  PROVE  SetVMOutput
<1>1. ~CodeStep
  BY CodeShape DEF Leaves, Computes, TopIs, Top
<1>2. ~StackStep /\ ~CheckStep /\ ~TransferStep /\ ~AsyncStep
  BY DEF StackStep, PushWorldState, PopWorldState, DropWorldState, PushCallState,
         PopCallState, ResetCallstate, CheckStep, DoCheckAccountExists, DoCheckBool,
         ExceptionSkip, ExceptionRevert, TransferStep, TransferFundsSelf,
         TransferFundsMove, TransferFundsOutOfFunds, DoTransferESDTs, DoCheckESDTBalance,
         DoAddToESDTBalance, DoAppendToOutAccount, AsyncStep, RegisterAsyncCall,
         AddAsyncCall, AsyncExecute, ExecuteAsyncLocalCalls, DropAsyncLocalCall,
         ExecuteAsyncLocalCall, ExecuteAsyncLocalCallback, MergeOutputs, TopIs
<1>3. CallStep
  BY <1>1, <1>2 DEF Step
<1> QED  BY <1>3 DEF CallStep, DoCallContract, CallContractAux, CallContractAuxBuiltin,
            CallContractAuxErrCallback, CallContractAuxNotContract, DoCallContractCb,
            NewWasmInstance, WaitWasm, MkCall, MkCallFuncNotFound, EndWasm,
            DoProcessBuiltinFunction, DetermineIsSCCallAfter, TopIs

LEMMA StepEnds ==
  ASSUME TypeOK, CallsInProgress, Step
  PROVE  \/ \E new \in Seq(Command) : Rewrites(new)
         \/ PopCallState \/ SetVMOutput \/ ExceptionSkip \/ ExceptionRevert \/ EndWasm
         \/ Leaves \/ Computes
<1> DEFINE Worlds == {"popWorldState", "dropWorldState"}
           Kept   == {"popCallState", "setVMOutput", "exception", "endWasm"}
<1>1. ASSUME NEW new \in Seq(Command), NoneOf(new, Worlds), commands # <<>>,
             Top.op \notin Kept \cup {"callContract"}, commands' = new \o Tail(commands)
      PROVE  Rewrites(new)
  BY <1>1 DEF Rewrites
<1>2. CASE StackStep /\ ~PopCallState
  <2>1. /\ commands # <<>> /\ Top.op \notin Kept \cup {"callContract"}
        /\ commands' = <<>> \o Tail(commands)
    BY <1>2 DEF StackStep, PushWorldState, PopWorldState, DropWorldState, PushCallState,
                ResetCallstate, TopIs, Top, Replace
  <2> QED  BY <1>1, <2>1, EmptyNone
<1>3. CASE DoCheckAccountExists \/ DoCheckESDTBalance \/ DoAddToESDTBalance
  <2>1. /\ commands # <<>> /\ Top.op \notin Kept \cup {"callContract"}
        /\ \E new \in {<<>>, <<Exception("ExecutionFailed")>>, <<Exception("OutOfFunds")>>} :
             commands' = new \o Tail(commands)
    BY <1>3 DEF DoCheckAccountExists, DoCheckESDTBalance, DoAddToESDTBalance, TopIs, Top,
                Replace
  <2>2. \A ec \in {"ExecutionFailed", "OutOfFunds"} :
          <<Exception(ec)>> \in Seq(Command) /\ NoneOf(<<Exception(ec)>>, Worlds)
    BY ExceptionNone DEF NoneOf, EndingOps, StackOps, ExceptionCode
  <2> QED  BY <1>1, <2>1, <2>2, EmptyNone
<1>4. CASE DoTransferESDTs
  <2> DEFINE group == TransferESDT(Top.from, Top.to, Head(Top.esdt))
             rest  == <<TransferESDTsAux(Top.from, Top.to, Tail(Top.esdt))>>
  <2>1. /\ commands # <<>> /\ Top.op = "transferESDTs"
        /\ commands' = (IF Top.esdt = <<>> THEN <<>> ELSE group \o rest) \o Tail(commands)
    BY <1>4 DEF DoTransferESDTs, TopIs, Top, Replace
  <2>2. CASE Top.esdt = <<>>
    BY <1>1, <2>1, <2>2, EmptyNone
  <2>3. CASE Top.esdt # <<>>
    <3>1. Top.from \in AnyAddress /\ Top.to \in AnyAddress /\ Top.esdt \in Seq(ESDTTransfer)
      BY <2>1, TopType, FieldTypes
    <3>2. Head(Top.esdt) \in ESDTTransfer /\ Tail(Top.esdt) \in Seq(ESDTTransfer)
      BY <2>3, <3>1, HeadTailProperties
    <3>3. group \in Seq(Command) /\ NoneOf(group, Worlds)
      <4>1. group \in Seq(Command)
        BY <3>1, <3>2, TransferOrdered
      <4>2. NoneOf(group, Worlds)
        BY DEF NoneOf, TransferESDT, CheckAccountExists, CheckESDTBalance, AddToESDTBalance
      <4> QED  BY <4>1, <4>2
    <3>4. TransferESDTsAux(Top.from, Top.to, Tail(Top.esdt)) \in Command
      BY <3>1, <3>2 DEF TransferESDTsAux, Command
    <3>5. TransferESDTsAux(Top.from, Top.to, Tail(Top.esdt)).op \notin Worlds
      BY DEF TransferESDTsAux
    <3>6. rest \in Seq(Command) /\ NoneOf(rest, Worlds)
      BY <3>4, <3>5, OneNone
    <3> HIDE DEF group, rest
    <3>7. group \o rest \in Seq(Command) /\ NoneOf(group \o rest, Worlds)
      BY <3>3, <3>6, NoneConcat
    <3>8. PICK new : new = group \o rest
      OBVIOUS
    <3>9. commands' = new \o Tail(commands)
      BY <2>1, <2>3, <3>8
    <3> QED  BY <1>1, <2>1, <3>7, <3>8, <3>9
  <2> QED  BY <2>2, <2>3
<1>5. CASE Works /\ ~SetVMOutput
  <2>1. commands # <<>> /\ Top.op \notin ShapeOps
    BY <1>5 DEF Works
  <2>2. Top.op # "setVMOutput"
    BY <1>5, <2>1, OutputShape DEF TopIs, Top
  <2>3. PICK new \in Seq(Command) :
          NoneOf(new, EndingOps \cup TransferOps) /\ commands' = new \o Tail(commands)
    BY <1>5 DEF Works
  <2>4. NoneOf(new, Worlds)
    BY <2>3 DEF NoneOf, EndingOps, StackOps
  <2> QED  BY <1>1, <2>1, <2>2, <2>3, <2>4 DEF ShapeOps, StackOps, CallOps
<1>6. CASE Enters
  <2>1. commands # <<>> /\ Top.op \in CallOps
    BY <1>6 DEF Enters
  <2>2. PICK body \in Seq(Command) :
          /\ NoneOf(body, EndingOps \cup TransferOps)
          /\ commands' = ((Entry \o body) \o <<Plain("endWasm")>>) \o Tail(commands)
    BY <1>6 DEF Enters
  <2> DEFINE e == Entry
             z == <<Plain("endWasm")>>
  <2>3. NoneOf(body, Worlds) /\ NoneOf(e, Worlds) /\ NoneOf(z, Worlds)
    BY <2>2 DEF NoneOf, Entry, Plain, EndingOps, StackOps
  <2>4. e \in Seq(Command) /\ z \in Seq(Command) /\ TakenBack(z)
    BY EntryCounts, PlainType DEF PlainOp, TakenBack, Plain, PopWorld
  <2> HIDE DEF e, z
  <2>5. e \o body \in Seq(Command) /\ NoneOf(e \o body, Worlds)
    BY <2>3, <2>4, NoneConcat
  <2>6. PICK eb \in Seq(Command) : eb = e \o body /\ NoneOf(eb, Worlds)
    BY <2>5
  <2>9. /\ eb \o z \in Seq(Command) /\ NoneOf(eb \o z, Worlds)
        /\ TakenBack(eb \o z)
    <3>1. TakenBack(eb \o z)
      BY <2>4, <2>6, TakenBackConcat
    <3> QED  BY <2>3, <2>4, <2>6, <3>1, NoneConcat
  <2>7. commands' = ((e \o body) \o z) \o Tail(commands)
    BY <2>2 DEF e, z
  <2> DEFINE new == eb \o z
  <2> HIDE DEF new
  <2>8. /\ new \in Seq(Command) /\ NoneOf(new, Worlds) /\ TakenBack(new)
        /\ commands' = new \o Tail(commands)
    BY <2>6, <2>7, <2>9 DEF new
  <2> QED  BY <2>1, <2>8 DEF Rewrites, CallOps
<1> HIDE DEF Worlds, Kept
<1> QED  BY <1>2, <1>3, <1>4, <1>5, <1>6, StepsHaveShape DEF StepShape

LEMMA QuietEnds ==
  ASSUME NEW s \in Seq(Command), s # <<>>, EndingsOrdered(s),
         Head(s).op \notin {"popCallState", "setVMOutput", "popWorldState", "dropWorldState"}
  PROVE  NoWorldNext(s)
<1>1. EndingsOrdered(s) /\ Len(s) \in Nat /\ Head(s) = s[1]
  BY LenProperties
<1>2. ASSUME NEW i \in 1..Len(s), i <= 2, TakesWorld(s[i]) PROVE FALSE
  <2>1. i # 1
    BY <1>1, <1>2 DEF TakesWorld
  <2>2. i = 2 /\ EndingAt(s, 2)
    BY <1>1, <1>2, <2>1 DEF EndingsOrdered
  <2>3. 2 >= 2 /\ s[2 - 1] = s[1]
    BY 2 - 1 = 1
  <2>4. s[1].op = "popCallState"
    BY <1>2, <2>2, <2>3 DEF EndingAt, TakesWorld
  <2> QED  BY <1>1, <2>4
<1> QED  BY <1>2 DEF NoWorldNext

(* A world is taken next after the top command only by popCallState, and     *)
(* after the one below it only when the output was set.                      *)
LEMMA NextWorlds ==
  ASSUME NEW s \in Seq(Command), s # <<>>, EndingsOrdered(s), NEW t, t = Tail(s),
         NEW i \in 1..Len(t), i <= 2, TakesWorld(t[i])
  PROVE  \/ i = 1 /\ 2 \in 1..Len(s) /\ t[i] = s[2] /\ Head(s).op = "popCallState"
         \/ i = 2 /\ t[i].op = "dropWorldState" /\ Head(s).op = "setVMOutput"
<1>1. /\ t \in Seq(Command) /\ Len(t) = Len(s) - 1 /\ Len(s) \in Nat
      /\ \A j \in 1..Len(t) : t[j] = s[j + 1]
  BY HeadTailProperties, LenProperties
<1>2. Head(s) = s[1]
  OBVIOUS
<1>3. CASE i = 1
  <2>1. 2 \in 1..Len(s) /\ t[1] = s[2] /\ TakesWorld(s[2]) /\ EndingAt(s, 2)
    <3>1. 1 + 1 = 2
      OBVIOUS
    <3> QED  BY <1>1, <1>3, <3>1 DEF EndingsOrdered
  <2>2. 2 >= 2 /\ s[2 - 1] = s[1]
    BY 2 - 1 = 1
  <2>3. s[1].op = "popCallState"
    BY <2>1, <2>2 DEF EndingAt, TakesWorld
  <2> QED  BY <1>2, <1>3, <2>1, <2>3
<1>4. CASE i = 2
  <2>1. t[2] = s[3] /\ TakesWorld(s[3]) /\ EndingAt(s, 3)
    <3>1. 2 + 1 = 3
      OBVIOUS
    <3> QED  BY <1>1, <1>4, <3>1 DEF EndingsOrdered
  <2>2. 3 >= 3 /\ ~(3 <= 2) /\ s[3 - 2] = s[1]
    BY 3 - 2 = 1
  <2>3. s[3].op = "dropWorldState" /\ s[1].op = "setVMOutput"
    BY <2>1, <2>2 DEF EndingAt, TakesWorld
  <2> QED  BY <1>2, <1>4, <2>1, <2>3
<1> QED  BY <1>1, <1>3, <1>4

LEMMA EndingStep ==
  ASSUME TypeOK, CallsInProgress, CallsEnd, Step
  PROVE  CallsEnd'
<1> DEFINE t == Tail(commands)
<1>1. commands \in Seq(Command) /\ EndingsOrdered(commands)
  BY DEF TypeOK, CallsEnd
<1>2. ASSUME commands # <<>>
      PROVE  t \in Seq(Command) /\ EndingsOrdered(t)
  BY <1>1, <1>2, EndingTail
<1>3. ASSUME NEW new \in Seq(Command), Rewrites(new) PROVE CallsEnd'
  <2>1. EndingsOrdered(new) /\ NoWorldNext(new)
    BY <1>3, NoneEnds DEF Rewrites
  <2> QED  BY <1>3, <2>1, RewriteEnds DEF Rewrites
<1>4. CASE PopCallState
  <2>1. /\ commands # <<>> /\ Head(commands).op = "popCallState"
        /\ commands' = <<>> \o t /\ vmOutput' = vmOutput
    BY <1>4 DEF PopCallState, TopIs, Replace
  <2>2. commands' = t
    BY <1>2, <2>1
  <2>3. OutcomeAt(t, vmOutput.returnCode)
    <3> SUFFICES ASSUME NEW i \in 1..Len(t), i <= 2, TakesWorld(t[i])
                 PROVE  /\ t[i].op = "popWorldState" => vmOutput.returnCode \in ExceptionCode
                        /\ t[i].op = "dropWorldState" => vmOutput.returnCode = "OK"
      BY DEF OutcomeAt, TakesWorld
    <3>1. 2 \in 1..Len(commands) /\ t[i] = commands[2]
      BY <1>1, <2>1, NextWorlds
    <3>2. OutcomeAt(commands, vmOutput.returnCode) /\ 2 <= 2
      BY DEF CallsEnd
    <3> QED  BY <3>1, <3>2 DEF OutcomeAt
  <2> QED  BY <1>2, <2>1, <2>2, <2>3 DEF CallsEnd
<1>5. CASE SetVMOutput
  <2>1. /\ commands # <<>> /\ Head(commands).op = "setVMOutput"
        /\ commands' = <<>> \o t /\ vmOutput'.returnCode = "OK"
    BY <1>5 DEF SetVMOutput, TopIs, Replace
  <2>2. commands' = t
    BY <1>2, <2>1
  <2>3. \A i \in 1..Len(t) : i <= 2 => t[i].op # "popWorldState"
    <3> SUFFICES ASSUME NEW i \in 1..Len(t), i <= 2, TakesWorld(t[i])
                 PROVE  t[i].op # "popWorldState"
      BY DEF TakesWorld
    <3> QED  BY <1>1, <2>1, NextWorlds
  <2>4. OutcomeAt(t, "OK")
    BY <2>3 DEF OutcomeAt
  <2> QED  BY <1>2, <2>1, <2>2, <2>4 DEF CallsEnd
<1>6. CASE ExceptionSkip
  <2> DEFINE h == <<Head(commands)>>
             tt == Tail(t)
  <2>1. /\ commands[2].op \in BodyOps /\ commands # <<>> /\ t \in Seq(Command) /\ t # <<>>
        /\ Head(t) = commands[2]
    BY <1>6, SkipsBody
  <2>2. Head(commands).op = "exception" /\ Head(commands) \in Command
    BY <1>1, <1>6, <2>1, HeadTailProperties DEF ExceptionSkip, TopIs
  <2>3. Head(t).op \notin {"popCallState", "setVMOutput"}
    BY <2>1 DEF BodyOps
  <2>4. EndingsOrdered(t)
    BY <1>2, <2>1
  <2> HIDE DEF t
  <2>5. tt \in Seq(Command) /\ EndingsOrdered(tt) /\ NoWorldNext(tt)
    BY <2>1, <2>3, <2>4, EndingTail
  <2>6. h \in Seq(Command) /\ NoneOf(h, {"popWorldState", "dropWorldState"})
    BY <2>2, OneNone
  <2>7. commands' = h \o tt
    BY <1>6 DEF ExceptionSkip, Top, t
  <2> HIDE DEF h, tt
  <2>8. EndingsOrdered(commands') /\ NoWorldNext(commands')
    BY <2>5, <2>6, <2>7, NoneEnds, EndingConcat
  <2> QED  BY <2>8, NoOutcome DEF CallsEnd
<1>7. CASE ExceptionRevert
  <2> DEFINE w == <<Plain("popCallState"), Plain("popWorldState")>>
             tt == Tail(t)
  <2>1. /\ commands # <<>> /\ Len(commands) > 1 /\ commands[2].op = "endWasm"
        /\ Top.op = "exception" /\ commands' = w \o tt /\ vmOutput'.returnCode = Top.code
    BY <1>7 DEF ExceptionRevert, TopIs, Top, Failure
  <2>2. t # <<>> /\ Head(t) = commands[2]
    <3>1. Len(t) = Len(commands) - 1 /\ \A i \in 1..Len(t) : t[i] = commands[i + 1]
      BY <1>1, <2>1, HeadTailProperties
    <3>2. Len(commands) \in Nat
      BY <1>1, LenProperties
    <3> HIDE DEF t
    <3> QED  BY <2>1, <3>1, <3>2, EmptySeq
  <2>3. t \in Seq(Command) /\ EndingsOrdered(t)
    BY <1>2, <2>1
  <2> HIDE DEF t
  <2>4. tt \in Seq(Command) /\ EndingsOrdered(tt) /\ NoWorldNext(tt)
    BY <2>1, <2>2, <2>3, EndingTail
  <2>5. /\ w \in Seq(Command) /\ Len(w) = 2
        /\ w[1].op = "popCallState" /\ w[2].op = "popWorldState"
    BY PlainType DEF PlainOp, Plain
  <2> HIDE DEF w, tt
  <2>6. EndingsOrdered(w)
    BY <2>5 DEF EndingsOrdered, EndingAt
  <2>7. EndingsOrdered(commands') /\ commands' \in Seq(Command)
    BY <2>1, <2>4, <2>5, <2>6, EndingConcat
  <2>8. Top.code \in ExceptionCode
    BY <2>1, TopType, FieldTypes
  <2>9. OutcomeAt(commands', Top.code)
    <3>1. \A i \in 1..Len(w \o tt) : i <= 2 => (w \o tt)[i] = w[i]
      <4>1. /\ Len(w \o tt) = Len(w) + Len(tt) /\ Len(tt) \in Nat
            /\ \A i \in 1..(Len(w) + Len(tt)) :
                 (w \o tt)[i] = IF i <= Len(w) THEN w[i] ELSE tt[i - Len(w)]
        BY <2>4, <2>5, ConcatProperties, LenProperties
      <4> QED  BY <2>5, <4>1
    <3>2. \A i \in 1..Len(commands') : i <= 2 => commands'[i].op # "dropWorldState"
      <4>1. \A i \in 1..2 : w[i].op # "dropWorldState"
        BY <2>5
      <4>2. \A i \in 1..Len(commands') : i <= 2 => i \in 1..2
        OBVIOUS
      <4> QED  BY <2>1, <3>1, <4>1, <4>2
    <3> QED  BY <2>8, <3>2 DEF OutcomeAt
  <2> QED  BY <2>1, <2>7, <2>9 DEF CallsEnd
<1>8. CASE EndWasm
  <2> DEFINE new == <<Plain("asyncExecute"), Plain("setVMOutput"), Plain("popCallState"),
                      Plain("dropWorldState")>>
  <2>1. /\ commands # <<>> /\ Top.op = "endWasm" /\ commands' = new \o Tail(commands)
    BY <1>8 DEF EndWasm, TopIs, Top, Replace
  <2>2. /\ new \in Seq(Command) /\ Len(new) = 4
        /\ new[1].op = "asyncExecute" /\ new[2].op = "setVMOutput"
        /\ new[3].op = "popCallState" /\ new[4].op = "dropWorldState"
    BY EndingCounts DEF Plain
  <2> HIDE DEF new
  <2>3. \A i \in 1..Len(new) : i = 1 \/ i = 2 \/ i = 3 \/ i = 4
    BY <2>2
  <2>4. EndingAt(new, 1) /\ EndingAt(new, 2) /\ EndingAt(new, 3)
    BY <2>2 DEF EndingAt
  <2>5. EndingAt(new, 4)
    <3>1. new[4 - 1] = new[3] /\ new[4 - 2] = new[2]
      BY 4 - 1 = 3, 4 - 2 = 2
    <3> QED  BY <2>2, <3>1 DEF EndingAt
  <2>6. EndingsOrdered(new) /\ NoWorldNext(new)
    BY <2>2, <2>3, <2>4, <2>5 DEF EndingsOrdered, NoWorldNext, TakesWorld
  <2> QED  BY <2>1, <2>2, <2>6, RewriteEnds
<1>9. CASE Leaves
  <2>1. commands # <<>> /\ Top.op = "endWasm"
    BY <1>9 DEF Leaves
  <2>2. PICK new \in Seq(Command) :
          NoneOf(new, EndingOps \cup TransferOps) /\ commands' = new \o commands
    BY <1>9 DEF Leaves
  <2>3. NoneOf(new, {"popWorldState", "dropWorldState"})
    BY <2>2 DEF NoneOf, EndingOps, StackOps
  <2>4. NoWorldNext(commands)
    BY <1>1, <2>1, QuietEnds DEF Top
  <2>5. EndingsOrdered(commands') /\ NoWorldNext(commands')
    BY <1>1, <2>2, <2>3, <2>4, NoneEnds, EndingConcat
  <2> QED  BY <2>5, NoOutcome DEF CallsEnd
<1>10. CASE Computes
  <2>1. commands # <<>> /\ Top.op \in {"endWasm", "waitWasm"} /\ commands' = commands
    BY <1>10 DEF Computes
  <2>2. NoWorldNext(commands)
    BY <1>1, <2>1, QuietEnds DEF Top
  <2> QED  BY <1>1, <2>1, <2>2, NoOutcome DEF CallsEnd
<1> QED  BY <1>3, <1>4, <1>5, <1>6, <1>7, <1>8, <1>9, <1>10, StepEnds

LEMMA WorldTop ==
  ASSUME TypeOK, CallsInProgress, Step, commands # <<>>,
         Top.op \in {"popWorldState", "dropWorldState"}
  PROVE  PopWorldState \/ DropWorldState
<1>1. ~CodeStep
  BY CodeShape DEF Leaves, Computes
<1>2. ~CheckStep /\ ~TransferStep /\ ~AsyncStep
  BY DEF CheckStep, DoCheckAccountExists, DoCheckBool,
         ExceptionSkip, ExceptionRevert, TransferStep, TransferFundsSelf,
         TransferFundsMove, TransferFundsOutOfFunds, DoTransferESDTs, DoCheckESDTBalance,
         DoAddToESDTBalance, DoAppendToOutAccount, AsyncStep, RegisterAsyncCall,
         AddAsyncCall, AsyncExecute, ExecuteAsyncLocalCalls, DropAsyncLocalCall,
         ExecuteAsyncLocalCall, ExecuteAsyncLocalCallback, MergeOutputs, TopIs, Top
<1>3. ~CallStep
  BY DEF CallStep, DoCallContract, CallContractAux, CallContractAuxBuiltin,
            CallContractAuxErrCallback, CallContractAuxNotContract, DoCallContractCb,
            NewWasmInstance, WaitWasm, MkCall, MkCallFuncNotFound, EndWasm, SetVMOutput,
            DoProcessBuiltinFunction, DetermineIsSCCallAfter, TopIs, Top
<1>4. StackStep
  BY <1>1, <1>2, <1>3 DEF Step
<1> QED  BY <1>4 DEF StackStep, PushWorldState, PushCallState, PopCallState, ResetCallstate,
                     TopIs, Top

(* A transaction is its call until it has begun; then its last command takes *)
(* back the world that the call saves first.                                 *)
Started ==
  commands # <<>> => \/ Len(commands) = 1 /\ Top.op = "callContract"
                     \/ TakenBack(commands)

LEMMA StartedStep ==
  ASSUME TypeOK, CallsInProgress, Started, Step
  PROVE  /\ commands # <<>> /\ Started'
         /\ commands' = <<>> => /\ Len(commands) = 1 /\ Top.op \in PopWorld
                                /\ TakenBack(commands) /\ ~EndWasm
<1> DEFINE t == Tail(commands)
<1>1. commands \in Seq(Command)
  BY DEF TypeOK
<1>2. ASSUME commands # <<>>, TakenBack(commands)
      PROVE  /\ t \in Seq(Command) /\ (t = <<>> \/ TakenBack(t))
             /\ Head(commands).op \notin PopWorld => TakenBack(t)
             /\ t = <<>> => Len(commands) = 1
  BY <1>1, <1>2, TakenBackTail, HeadTailProperties
<1>3. ASSUME NEW new \in Seq(Command), Rewrites(new)
      PROVE  /\ commands # <<>>
             /\ \/ TakenBack(commands')
                \/ /\ commands' = <<>> /\ Len(commands) = 1 /\ Top.op \in PopWorld
                   /\ TakenBack(commands) /\ Top.op # "endWasm"
  <2>1. /\ commands # <<>> /\ commands' = new \o t /\ Top = Head(commands)
        /\ Top.op = "callContract" => TakenBack(new)
        /\ Top.op # "endWasm"
    BY <1>3 DEF Rewrites, Top
  <2>2. CASE ~TakenBack(commands)
    <3>1. Len(commands) = 1 /\ TakenBack(new)
      BY <2>1, <2>2 DEF Started
    <3>2. t = <<>> /\ t \in Seq(Command)
      <4>1. t \in Seq(Command) /\ Len(t) = 0
        BY <1>1, <2>1, <3>1, HeadTailProperties
      <4> HIDE DEF t
      <4> QED  BY <4>1, EmptySeq
    <3> HIDE DEF t
    <3> QED  BY <2>1, <3>1, <3>2, TakenBackNew
  <2>3. CASE TakenBack(commands)
    <3>1. /\ t \in Seq(Command) /\ (t = <<>> \/ TakenBack(t))
          /\ Top.op \notin PopWorld => TakenBack(t)
          /\ t = <<>> => Len(commands) = 1
      BY <1>2, <2>1, <2>3
    <3> HIDE DEF t
    <3>2. CASE TakenBack(t)
      BY <2>1, <3>1, <3>2, TakenBackNew
    <3>3. CASE ~TakenBack(t)
      <4>1. t = <<>> /\ Top.op \in {"popWorldState", "dropWorldState"} /\ Len(commands) = 1
        BY <2>1, <3>1, <3>3 DEF PopWorld
      <4>2. new \o t = new
        BY <4>1
      <4>3. CASE new = <<>>
        BY <2>1, <2>3, <4>1, <4>2, <4>3 DEF PopWorld
      <4>4. CASE new # <<>>
        <5>1. PopWorldState \/ DropWorldState
          BY <4>1, WorldTop
        <5>2. commands' = <<>> \o t
          BY <5>1 DEF PopWorldState, DropWorldState, Replace, t
        <5>3. commands' = <<>>
          BY <4>1, <5>2
        <5> QED  BY <2>1, <4>2, <4>4, <5>3
      <4> QED  BY <4>3, <4>4
    <3> QED  BY <3>2, <3>3
  <2> QED  BY <2>2, <2>3
<1>4. ASSUME TakenBack(commands') PROVE Started' /\ commands' # <<>>
  BY <1>4 DEF Started, TakenBack
<1>5. ASSUME PopCallState \/ SetVMOutput \/ ExceptionSkip \/ ExceptionRevert \/ EndWasm
             \/ Leaves \/ Computes
      PROVE  TakenBack(commands) /\ commands # <<>> /\ Top = Head(commands)
  <2>1. commands # <<>> /\ Top.op # "callContract"
    BY <1>5 DEF PopCallState, SetVMOutput, ExceptionSkip, ExceptionRevert, EndWasm, Leaves,
                Computes, TopIs, Top
  <2> QED  BY <2>1 DEF Started, Top
<1>6. CASE PopCallState \/ SetVMOutput
  <2>1. /\ Head(commands).op \in {"popCallState", "setVMOutput"}
        /\ commands' = <<>> \o t
    BY <1>6 DEF PopCallState, SetVMOutput, TopIs, Replace
  <2>2. TakenBack(t) /\ t \in Seq(Command)
    BY <1>2, <1>5, <1>6, <2>1 DEF PopWorld
  <2>3. commands' = t
    BY <2>1, <2>2
  <2> QED  BY <1>4, <1>5, <1>6, <2>2, <2>3
<1>7. CASE ExceptionSkip
  <2> DEFINE h == <<Head(commands)>>
             tt == Tail(t)
  <2>1. /\ commands[2].op \in BodyOps /\ commands # <<>> /\ t \in Seq(Command) /\ t # <<>>
        /\ Head(t) = commands[2]
    BY <1>7, SkipsBody
  <2>2. TakenBack(t) /\ Head(t).op \notin PopWorld
    BY <1>2, <1>5, <1>7, <2>1 DEF BodyOps, PopWorld
  <2>3. h \in Seq(Command)
    BY <1>1, <2>1, HeadTailProperties
  <2>4. commands' = h \o tt
    BY <1>7 DEF ExceptionSkip, Top
  <2> HIDE DEF h, t
  <2>5. tt \in Seq(Command) /\ TakenBack(tt)
    BY <2>1, <2>2, TakenBackTail, HeadTailProperties
  <2> HIDE DEF tt
  <2> QED  BY <1>4, <1>5, <1>7, <2>3, <2>4, <2>5, TakenBackConcat
<1>8. CASE ExceptionRevert
  <2> DEFINE w == <<Plain("popCallState"), Plain("popWorldState")>>
             tt == Tail(t)
  <2>1. /\ commands # <<>> /\ Len(commands) > 1 /\ commands' = w \o tt
        /\ Head(commands).op = "exception"
    BY <1>8 DEF ExceptionRevert, TopIs
  <2>2. t \in Seq(Command) /\ TakenBack(t)
    BY <1>2, <1>5, <1>8, <2>1 DEF PopWorld
  <2>3. w \in Seq(Command) /\ Len(w) = 2 /\ w[2].op = "popWorldState"
    BY PlainType DEF PlainOp, Plain
  <2> HIDE DEF w, t
  <2>4. TakenBack(w)
    <3>1. w # <<>>
      <4>1. w \in Seq(Command) /\ Len(w) # 0
        BY <2>3
      <4> QED  BY <4>1, EmptySeq
    <3> QED  BY <2>3, <3>1 DEF TakenBack, PopWorld
  <2>5. tt \in Seq(Command) /\ (tt = <<>> \/ TakenBack(tt))
    BY <2>2, TakenBackTail, HeadTailProperties DEF TakenBack
  <2> HIDE DEF tt
  <2>6. TakenBack(w \o tt)
    BY <2>3, <2>4, <2>5, TakenBackNew
  <2> QED  BY <1>4, <1>5, <1>8, <2>1, <2>6
<1>9. CASE EndWasm
  <2> DEFINE new == <<Plain("asyncExecute"), Plain("setVMOutput"), Plain("popCallState"),
                      Plain("dropWorldState")>>
  <2>1. /\ commands # <<>> /\ commands' = new \o t
    BY <1>9 DEF EndWasm, TopIs, Top, Replace
  <2>2. new \in Seq(Command) /\ Len(new) = 4 /\ new[4].op = "dropWorldState"
    BY EndingCounts DEF Plain
  <2> HIDE DEF new
  <2>3. TakenBack(new)
    <3>1. new # <<>>
      <4>1. new \in Seq(Command) /\ Len(new) # 0
        BY <2>2
      <4> QED  BY <4>1, EmptySeq
    <3> QED  BY <2>2, <3>1 DEF TakenBack, PopWorld
  <2>4. t \in Seq(Command) /\ (t = <<>> \/ TakenBack(t))
    BY <1>2, <1>5, <1>9
  <2> HIDE DEF t
  <2>5. TakenBack(new \o t)
    BY <2>2, <2>3, <2>4, TakenBackNew
  <2> QED  BY <1>4, <1>5, <1>9, <2>1, <2>5
<1>10. CASE Leaves
  <2>1. PICK new \in Seq(Command) : commands' = new \o commands
    BY <1>10 DEF Leaves
  <2> QED  BY <1>1, <1>4, <1>5, <1>10, <2>1, TakenBackConcat
<1>11. CASE Computes
  BY <1>4, <1>5, <1>11 DEF Computes
<1>12. ASSUME NEW new \in Seq(Command), Rewrites(new)
       PROVE  /\ commands # <<>> /\ Started'
              /\ commands' = <<>> => /\ Len(commands) = 1 /\ Top.op \in PopWorld
                                     /\ TakenBack(commands) /\ ~EndWasm
  BY <1>3, <1>4, <1>12 DEF Started, TakenBack, EndWasm, TopIs, Top
<1> QED  BY <1>6, <1>7, <1>8, <1>9, <1>10, <1>11, <1>12, StepEnds

(* ----------------------------- Refinement -------------------------------- *)

LEMMA TakenBackCounts ==
  ASSUME NEW s \in Seq(Command), TakenBack(s)
  PROVE  Count(s, PopWorld) \in Nat \ {0}
<1>1. Len(s) \in Nat \ {0} /\ DOMAIN s = 1..Len(s)
  BY EmptySeq, LenProperties DEF TakenBack
<1>2. Len(s) \in PlacesOf(s, PopWorld)
  BY <1>1 DEF TakenBack, PlacesOf
<1>3. IsFiniteSet(PlacesOf(s, PopWorld)) /\ Count(s, PopWorld) \in Nat
  BY PlacesFinite
<1>4. Count(s, PopWorld) # 0
  BY <1>2, <1>3, FS_EmptySet DEF Count
<1> QED  BY <1>3, <1>4

(* Once its entry is done, every command that takes a world has its own.     *)
LEMMA WorldsLeft ==
  ASSUME TypeOK, CallsInProgress, StacksMatchCommands, commands # <<>>,
         Top.op \notin EntryOps
  PROVE  Len(interimStates) = Count(commands, PopWorld)
<1>1. /\ commands \in Seq(Command) /\ Len(interimStates) \in Nat
      /\ Len(commands) \in Nat \ {0} /\ Top = commands[1]
  BY EmptySeq, LenProperties DEF TypeOK, Top
<1>2. PICK m, n \in 0..Len(commands) : LaidOut(commands, m, n)
  BY DEF CallsInProgress, CommandsLaidOut
<1>3. ~(1 <= m)
  BY <1>1, <1>2 DEF LaidOut
<1>4. \A i \in 1..Len(commands) : commands[i].op \notin EntryOps
  BY <1>2, <1>3 DEF LaidOut
<1>5. \A i \in 1..Len(commands) : commands[i].op \notin PushWorld
  BY <1>4 DEF EntryOps, PushWorld
<1>6. Count(commands, PushWorld) = 0
  BY <1>1, <1>5, CountNone
<1>7. Matched(commands, callStack, interimStates)
  BY StacksMatched
<1> QED  BY <1>1, <1>6, <1>7 DEF Matched

LEMMA AtomicSums ==
  \A w : /\ Atomic!EGLDSupply(w) = EGLDSupply(w)
         /\ \A t : Atomic!ESDTSupply(w, t) = ESDTSupply(w, t)
<1>1. \A f : Atomic!SumFunction(f) = SumFunction(f)
  BY DEF Atomic!SumFunction, SumFunction, Atomic!SumFunctionOnSet, SumFunctionOnSet,
         Atomic!FoldFunctionOnSet, FoldFunctionOnSet, Atomic!MapThenFoldSet, MapThenFoldSet
<1> QED  BY <1>1 DEF Atomic!EGLDSupply, EGLDSupply, Atomic!ESDTSupply, ESDTSupply

LEMMA AtomicLedger ==
  /\ Atomic!World = World
  /\ \A w, a, v : Atomic!Credit(w, a, v) = Credit(w, a, v)
  /\ \A v, w : Atomic!SameSupply(v, w) <=> SameSupply(v, w)
BY AtomicSums DEF Atomic!World, World, Atomic!Account, Account, Atomic!Credit, Credit,
   Atomic!SameSupply, SameSupply

TransactionInv ==
  /\ TypeOK /\ CallsInProgress /\ StacksMatchCommands /\ SupplyConserved
  /\ CallsEnd /\ Started

(* While the transaction runs, the world saved when it began stays in place. *)
LEMMA LedgerKept ==
  ASSUME TransactionInv, Step, commands # <<>>, commands' # <<>>
  PROVE  CommittedWorld' = CommittedWorld
<1> USE DEF TransactionInv
<1>1. interimStates \in Seq(World) /\ Len(interimStates) \in Nat
  BY LenProperties DEF TypeOK
<1>2. Len(interimStates) = 0 <=> interimStates = <<>>
  BY <1>1, EmptySeq
<1>3. CASE UNCHANGED <<accounts, interimStates>>
  BY <1>3 DEF CommittedWorld
<1>4. CASE PushWorldState
  <2>1. /\ accounts' = accounts /\ Len(interimStates') = Len(interimStates) + 1
        /\ \A i \in 1..Len(interimStates') :
             \/ interimStates'[i] = accounts
             \/ i - 1 \in 1..Len(interimStates) /\ interimStates'[i] = interimStates[i - 1]
    BY <1>4, PushedWorlds
  <2>2. interimStates' # <<>>
    <3>1. Len(interimStates') # 0
      BY <1>1, <2>1
    <3> QED  BY <3>1
  <2>3. CASE interimStates = <<>>
    <3>1. Len(interimStates') = 1
      BY <1>2, <2>1, <2>3
    <3>2. interimStates'[1] = accounts
      BY <1>1, <1>2, <2>1, <2>3, <3>1
    <3> QED  BY <2>2, <2>3, <3>1, <3>2 DEF CommittedWorld
  <2>4. CASE interimStates # <<>>
    <3> DEFINE n == Len(interimStates)
    <3>1. interimStates' = <<accounts>> \o interimStates
      BY <1>4 DEF PushWorldState
    <3>2. n \in Nat \ {0} /\ Len(interimStates') = n + 1
      BY <1>1, <1>2, <2>1, <2>4
    <3>3. interimStates'[n + 1] = interimStates[n]
      <4> DEFINE s == <<accounts>>
      <4>1. s \in Seq(World) /\ Len(s) = 1
        BY DEF TypeOK
      <4> HIDE DEF s
      <4>2. \A i \in 1..(1 + n) :
              (s \o interimStates)[i] = IF i <= 1 THEN s[i] ELSE interimStates[i - 1]
        <5>1. \A i \in 1..(Len(s) + Len(interimStates)) :
                (s \o interimStates)[i]
                  = IF i <= Len(s) THEN s[i] ELSE interimStates[i - Len(s)]
          BY <1>1, <4>1, ConcatProperties
        <5> QED  BY <4>1, <5>1
      <4>3. n + 1 \in 1..(1 + n) /\ ~(n + 1 <= 1) /\ (n + 1) - 1 = n
        BY <3>2
      <4> HIDE DEF n
      <4>4. (s \o interimStates)[n + 1] = interimStates[n]
        BY <4>2, <4>3
      <4> QED  BY <3>1, <4>4 DEF s
    <3> QED  BY <2>2, <2>4, <3>2, <3>3 DEF CommittedWorld
  <2> QED  BY <2>3, <2>4
<1>5. CASE PopWorldState \/ DropWorldState
  <2>1. /\ Top.op \in {"popWorldState", "dropWorldState"} /\ Top = Head(commands)
        /\ commands \in Seq(Command) /\ commands' = <<>> \o Tail(commands)
    BY <1>5 DEF PopWorldState, DropWorldState, TopIs, Top, Replace, TypeOK
  <2>2. Tail(commands) \in Seq(Command) /\ commands' = Tail(commands)
    BY <2>1, HeadTailProperties
  <2>3. TakenBack(commands)
    BY <2>1 DEF Started
  <2>4. TakenBack(Tail(commands))
    BY <2>1, <2>2, <2>3, TakenBackTail
  <2>5. Count(commands, PopWorld) = 1 + Count(Tail(commands), PopWorld)
    BY <2>1, CountTail DEF PopWorld
  <2>6. Count(Tail(commands), PopWorld) \in Nat \ {0}
    BY <2>2, <2>4, TakenBackCounts
  <2>7. Len(interimStates) = Count(commands, PopWorld)
    BY <2>1, WorldsLeft DEF EntryOps
  <2>8. /\ Len(interimStates') = Len(interimStates) - 1
        /\ \A i \in 1..Len(interimStates') : interimStates'[i] = interimStates[i + 1]
    BY <1>5, PoppedWorlds
  <2>9. Len(interimStates') \in Nat \ {0} /\ Len(interimStates') + 1 = Len(interimStates)
    BY <1>1, <2>5, <2>6, <2>7, <2>8
  <2>10. Len(interimStates') \in 1..Len(interimStates')
    BY <2>9
  <2>11. interimStates'[Len(interimStates')] = interimStates[Len(interimStates)]
    BY <2>8, <2>9, <2>10
  <2>12. interimStates' # <<>> /\ interimStates # <<>>
    BY <1>2, <2>9
  <2> QED  BY <2>11, <2>12 DEF CommittedWorld
<1>6. CASE TransferFundsMove \/ DoAddToESDTBalance
  <2>1. /\ Top.op \in {"transferFundsH", "addToESDTBalance"} /\ commands \in Seq(Command)
        /\ interimStates' = interimStates
    BY <1>6 DEF TransferFundsMove, DoAddToESDTBalance, TopIs, Top, TypeOK
  <2>2. TakenBack(commands)
    BY <2>1 DEF Started
  <2>3. Len(interimStates) = Count(commands, PopWorld)
    BY <2>1, WorldsLeft DEF EntryOps
  <2>4. interimStates # <<>>
    BY <1>2, <2>1, <2>2, <2>3, TakenBackCounts
  <2> QED  BY <2>1, <2>4 DEF CommittedWorld
<1> QED  BY <1>3, <1>4, <1>5, <1>6, WorldSteps

LEMMA TransactionEnds ==
  ASSUME TransactionInv, Step, commands' = <<>>
  PROVE  Atomic!Commit \/ Atomic!Abort
<1> USE DEF TransactionInv
<1>1. /\ commands # <<>> /\ Len(commands) = 1 /\ Top.op \in PopWorld
      /\ TakenBack(commands) /\ ~EndWasm
  BY StartedStep
<1>2. commands \in Seq(Command) /\ Len(interimStates) \in Nat /\ Top = commands[1]
  BY <1>1, LenProperties DEF TypeOK, Top
<1>3. PopWorldState \/ DropWorldState
  <2>1. Top.op # "endWasm"
    <3>1. ASSUME Top.op = "endWasm" PROVE FALSE
      <4>1. ~\E new \in Seq(Command) : Rewrites(new)
        BY <3>1 DEF Rewrites
      <4>2. ~PopCallState /\ ~SetVMOutput /\ ~ExceptionSkip /\ ~ExceptionRevert
        BY <3>1 DEF PopCallState, SetVMOutput, ExceptionSkip, ExceptionRevert, TopIs, Top
      <4>3. ~Computes
        BY <1>1 DEF Computes
      <4>4. CASE Leaves
        <5>1. PICK new \in Seq(Command) : commands' = new \o commands
          BY <4>4 DEF Leaves
        <5>2. TakenBack(new \o commands)
          BY <1>1, <1>2, TakenBackConcat
        <5> QED  BY <5>1, <5>2 DEF TakenBack
      <4> QED  BY <1>1, <4>1, <4>2, <4>3, <4>4, StepEnds
    <3> QED  BY <3>1
  <2> QED  BY <1>1, <2>1, WorldTop DEF PopWorld
<1>4. Len(interimStates) = 1
  <2>1. PICK t : t = Tail(commands)
    OBVIOUS
  <2>2. t \in Seq(Command) /\ Len(t) = 0
    BY <1>1, <1>2, <2>1, HeadTailProperties
  <2>3. t = <<>>
    BY <2>2, EmptySeq
  <2>4. Count(t, PopWorld) = 0
    <3>1. \A i \in 1..Len(t) : t[i].op \notin PopWorld
      BY <2>2
    <3> QED  BY <2>2, <3>1, CountNone
  <2>5. Count(commands, PopWorld) = 1 + Count(t, PopWorld)
    BY <1>1, <1>2, <2>1, CountTail DEF Top
  <2>6. Top.op \notin EntryOps
    BY <1>1 DEF PopWorld, EntryOps
  <2> QED  BY <1>1, <2>4, <2>5, <2>6, WorldsLeft
<1>5. /\ interimStates # <<>> /\ CommittedWorld = interimStates[1]
      /\ interimStates[1] = Head(interimStates) /\ 1 \in 1..Len(interimStates)
  <2>1. interimStates # <<>>
    BY <1>3, PoppedWorlds
  <2> QED  BY <1>3, <1>4, <2>1, PoppedWorlds DEF CommittedWorld
<1>6. interimStates' = <<>> /\ vmOutput' = vmOutput
  <2>1. /\ interimStates' \in Seq(World) /\ vmOutput' = vmOutput
    BY <1>3, HeadTailProperties DEF PopWorldState, DropWorldState, TypeOK
  <2>2. Len(interimStates') = 0
    BY <1>3, <1>4, PoppedWorlds
  <2> QED  BY <2>1, <2>2, EmptySeq
<1>7. CommittedWorld' = accounts'
  BY <1>6 DEF CommittedWorld
<1>8. Status = "running" /\ Status' = vmOutput.returnCode
  BY <1>1, <1>6 DEF Status
<1>9. OutcomeAt(commands, vmOutput.returnCode) /\ 1 \in 1..Len(commands) /\ 1 <= 2
  BY <1>1 DEF CallsEnd
<1>10. CASE PopWorldState
  <2>1. accounts' = interimStates[1]
    BY <1>5, <1>10 DEF PopWorldState
  <2>2. vmOutput.returnCode \in ExceptionCode
    BY <1>2, <1>9, <1>10 DEF OutcomeAt, PopWorldState, TopIs, Top
  <2> QED  BY <1>5, <1>7, <1>8, <2>1, <2>2 DEF Atomic!Abort
<1>11. CASE DropWorldState
  <2>1. accounts' = accounts /\ Top.op = "dropWorldState"
    BY <1>11 DEF DropWorldState, TopIs, Top
  <2>2. vmOutput.returnCode = "OK"
    BY <1>2, <1>9, <2>1 DEF OutcomeAt
  <2>3. accounts \in World
    BY DEF TypeOK
  <2>4. \A t : InTransit(t) = 0
    BY <2>1 DEF InTransit, TopIs, Top
  <2>5. EGLDSupply(accounts) \in Int /\ \A t \in Token : ESDTSupply(accounts, t) \in Int
    BY <2>3, SupplyType
  <2>6. SameSupply(interimStates[1], accounts)
    BY <1>5, <2>4, <2>5 DEF SupplyConserved, SameSupply
  <2>7. Atomic!SameSupply(CommittedWorld, CommittedWorld') /\ CommittedWorld' \in Atomic!World
    BY <1>5, <1>7, <2>1, <2>3, <2>6, AtomicLedger
  <2> QED  BY <1>8, <2>2, <2>7 DEF Atomic!Commit
<1> QED  BY <1>3, <1>10, <1>11

LEMMA CallTxEnds ==
  ASSUME TypeOK, CallTx
  PROVE  CallsEnd' /\ Started'
<1>1. PICK c \in Command : c.op = "callContract" /\ commands' = <<c>>
  BY CallTxShape
<1> DEFINE s == <<c>>
<1>2. Len(s) = 1 /\ s[1] = c /\ s # <<>> /\ commands' = s
  BY <1>1
<1> HIDE DEF s
<1>3. \A i \in 1..Len(s) : s[i].op = "callContract"
  BY <1>1, <1>2
<1>4. NoneOf(s, {"popWorldState", "dropWorldState"})
  BY <1>3 DEF NoneOf
<1>5. EndingsOrdered(s) /\ NoWorldNext(s)
  BY <1>4, NoneEnds
<1>6. OutcomeAt(s, vmOutput'.returnCode)
  BY <1>5, NoOutcome
<1>7. Len(commands') = 1 /\ Top'.op = "callContract"
  BY <1>1, <1>2 DEF Top
<1> QED  BY <1>2, <1>5, <1>6, <1>7 DEF CallsEnd, Started

LEMMA TransactionInvHolds == Spec => []TransactionInv
<1>1. Init => CallsEnd /\ Started
  BY DEF Init, CallsEnd, Started, EndingsOrdered, OutcomeAt
<1>2. /\ TypeOK /\ CallsInProgress /\ TypeOK' /\ CallsEnd /\ Started
      /\ [Next]_vars
      => CallsEnd' /\ Started'
  <2> SUFFICES ASSUME TypeOK, CallsInProgress, TypeOK', CallsEnd, Started, [Next]_vars
               PROVE  CallsEnd' /\ Started'
    OBVIOUS
  <2>1. CASE UNCHANGED vars
    BY <2>1 DEF vars, CallsEnd, Started, Top
  <2>2. CASE Finished
    BY <2>2 DEF Finished, vars, CallsEnd, Started, Top
  <2>3. CASE CallTx
    BY <2>3, CallTxEnds
  <2>4. CASE Step
    BY <2>4, EndingStep, StartedStep
  <2> QED  BY <2>1, <2>2, <2>3, <2>4 DEF Next
<1>3. TypeOK /\ CallsInProgress /\ StacksMatchCommands /\ SupplyConserved /\ CallsEnd /\ Started
      => TransactionInv
  BY DEF TransactionInv
<1> QED  BY <1>1, <1>2, <1>3, TypeCorrect, CallsStayInProgress, StacksMatch,
            SupplyIsConserved, PTL DEF Spec

LEMMA TransactionBegins ==
  ASSUME TransactionInv, CallTx
  PROVE  Atomic!Begin
<1> USE DEF TransactionInv
<1>1. commands = <<>> /\ interimStates = <<>> /\ interimStates' = <<>>
  <2>1. commands = <<>> /\ interimStates' = interimStates
    BY CallTxShape
  <2> QED  BY <2>1, NothingSaved
<1>2. CommittedWorld = accounts /\ CommittedWorld' = accounts'
  BY <1>1 DEF CommittedWorld
<1>3. commands' # <<>>
  BY CallTxShape
<1>4. Status # "running" /\ Status' = "running"
  <2>1. vmOutput.returnCode # "running"
    BY DEF TypeOK, VMOutput, NoReturnCode, ExceptionCode
  <2> QED  BY <1>1, <1>3, <2>1 DEF Status
<1>5. PICK from \in Senders, fee \in Fees : accounts' = Credit(accounts, from, 0 - fee)
  BY DEF CallTx
<1>6. CommittedWorld' = Atomic!Credit(CommittedWorld, from, 0 - fee)
  BY <1>2, <1>5, AtomicLedger
<1> QED  BY <1>4, <1>6 DEF Atomic!Begin

(* A transaction commits as a whole or has no effect: the world saved when   *)
(* it began is untouched until its last command, which puts it back if the   *)
(* call failed, and otherwise leaves a world of the same supply; <vmOutput>  *)
(* says which of the two happened.                                           *)
THEOREM Atomicity == Spec => TransactionsAreAtomic
<1>1. Init => Atomic!Init
  BY DEF Init, Atomic!Init, CommittedWorld, Status, NoVMOutput, NoReturnCode
<1>2. TransactionInv /\ [Next]_vars => [Atomic!Next]_<<CommittedWorld, Status>>
  <2> SUFFICES ASSUME TransactionInv, [Next]_vars
               PROVE  [Atomic!Next]_<<CommittedWorld, Status>>
    OBVIOUS
  <2>1. CASE UNCHANGED vars
    BY <2>1 DEF vars, CommittedWorld, Status
  <2>2. CASE Finished
    BY <2>2 DEF Finished, vars, CommittedWorld, Status
  <2>3. CASE CallTx
    BY <2>3, TransactionBegins DEF Atomic!Next
  <2>4. CASE Step
    <3>1. commands # <<>>
      BY <2>4, StartedStep DEF TransactionInv
    <3>2. CASE commands' # <<>>
      <4>1. CommittedWorld' = CommittedWorld
        BY <2>4, <3>1, <3>2, LedgerKept
      <4>2. Status' = Status
        BY <3>1, <3>2 DEF Status
      <4> QED  BY <4>1, <4>2
    <3>3. CASE commands' = <<>>
      BY <2>4, <3>3, TransactionEnds DEF Atomic!Next
    <3> QED  BY <3>2, <3>3
  <2> QED  BY <2>1, <2>2, <2>3, <2>4 DEF Next
<1> QED  BY <1>1, <1>2, TransactionInvHolds, PTL DEF Spec, TransactionsAreAtomic, Atomic!Spec
=============================================================================
