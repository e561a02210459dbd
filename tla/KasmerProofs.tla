----------------------------- MODULE KasmerProofs ------------------------------
(***************************************************************************)
(* Proofs about Kasmer, for every set of accounts, contracts, ABIs and     *)
(* arguments, every number of examples and every bound on the code.        *)
(***************************************************************************)
EXTENDS KasmerProperties, SequenceTheorems, TLAPS

(* ------------------------------ The call stack --------------------------- *)

LEMMA PushFacts ==
  ASSUME NEW S, NEW x \in S, NEW s \in Seq(S)
  PROVE  /\ <<x>> \o s \in Seq(S) /\ <<x>> \o s # <<>>
         /\ Len(<<x>> \o s) = Len(s) + 1
         /\ (<<x>> \o s)[1] = x
         /\ \A i \in 2..Len(s) + 1 : (<<x>> \o s)[i] = s[i - 1]
OBVIOUS

LEMMA PopFacts ==
  ASSUME NEW S, NEW s \in Seq(S), s # <<>>
  PROVE  /\ Head(s) \in S /\ Head(s) = s[1]
         /\ Tail(s) \in Seq(S) /\ Len(Tail(s)) = Len(s) - 1 /\ Len(s) > 0
         /\ \A i \in 1..Len(s) - 1 : Tail(s)[i] = s[i + 1]
         /\ Tail(s) = <<>> <=> Len(s) = 1
<1>1. Len(s) \in Nat /\ Len(s) # 0
  BY EmptySeq
<1>2. Tail(s) \in Seq(S) /\ Len(Tail(s)) = Len(s) - 1
  BY <1>1, HeadTailProperties
<1>3. Tail(s) = <<>> <=> Len(Tail(s)) = 0
  BY <1>2, EmptySeq
<1>4. Head(s) \in S /\ Head(s) = s[1]
  BY <1>1, HeadTailProperties
<1>5. \A i \in 1..Len(s) - 1 : Tail(s)[i] = s[i + 1]
  BY <1>1
<1> QED BY <1>1, <1>2, <1>3, <1>4, <1>5

CallerInstr == {"none", "code", "finishExecuteOnDestContext"}

(* The cells of a call in progress, and how the calls are nested.            *)
CallCells ==
  /\ callState \in Frame
  /\ callStack \in Seq(Frame) /\ interimStates \in Seq(Accounts)
  /\ CallsAreNested

LEMMA PushKeepsCells ==
  ASSUME CallCells, callState' \in Frame, callState'.instr # "none",
         NEW w \in Accounts, interimStates' = <<w>> \o interimStates,
         NEW frame \in Frame, frame.instr \in CallerInstr,
         frame.instr = "none" <=> callStack = <<>>,
         callStack' = <<frame>> \o callStack
  PROVE  CallCells'
<1>1. /\ callStack' \in Seq(Frame) /\ callStack' # <<>>
      /\ Len(callStack') = Len(callStack) + 1 /\ callStack'[1] = frame
      /\ \A i \in 2..Len(callStack) + 1 : callStack'[i] = callStack[i - 1]
  BY PushFacts DEF CallCells
<1>2. interimStates' \in Seq(Accounts) /\ Len(interimStates') = Len(interimStates) + 1
  BY PushFacts DEF CallCells
<1>3. callStack = <<>> <=> Len(callStack) = 0
  BY DEF CallCells
<1>4. \A i \in DOMAIN callStack' : callStack'[i].instr = "none" <=> i = Len(callStack')
  BY <1>1, <1>3 DEF CallCells, CallsAreNested
<1>5. \A i \in DOMAIN callStack' : callStack'[i].instr \in CallerInstr
  BY <1>1 DEF CallCells, CallsAreNested, CallerInstr
<1> QED BY <1>1, <1>2, <1>4, <1>5 DEF CallCells, CallsAreNested, CallerInstr

LEMMA PopKeepsCells ==
  ASSUME CallCells, callStack # <<>>, Pop
  PROVE  CallCells' /\ callState'.instr \in CallerInstr
<1>1. interimStates # <<>>
  BY DEF CallCells, CallsAreNested
<1>2. /\ callState' \in Frame /\ callState' = callStack[1]
      /\ callStack' \in Seq(Frame) /\ Len(callStack') = Len(callStack) - 1 /\ Len(callStack) > 0
      /\ \A i \in 1..Len(callStack) - 1 : callStack'[i] = callStack[i + 1]
      /\ callStack' = <<>> <=> Len(callStack) = 1
  BY PopFacts DEF CallCells, Pop
<1>3. interimStates' \in Seq(Accounts) /\ Len(interimStates') = Len(interimStates) - 1
  BY <1>1, PopFacts DEF CallCells, Pop
<1>4. 1 \in DOMAIN callStack
  BY <1>2 DEF CallCells
<1>5. callState'.instr \in CallerInstr /\ (callState'.instr = "none" <=> callStack' = <<>>)
  BY <1>2, <1>4 DEF CallCells, CallsAreNested, CallerInstr
<1>6. \A i \in DOMAIN callStack' : callStack'[i].instr = "none" <=> i = Len(callStack')
  BY <1>2 DEF CallCells, CallsAreNested
<1>7. \A i \in DOMAIN callStack' : callStack'[i].instr \in CallerInstr
  BY <1>2 DEF CallCells, CallsAreNested, CallerInstr
<1> QED BY <1>2, <1>3, <1>5, <1>6, <1>7 DEF CallCells, CallsAreNested, CallerInstr, Instr

LEMMA SameStackKeepsCells ==
  ASSUME CallCells, UNCHANGED <<callStack, interimStates>>,
         callState' \in Frame,
         callState'.instr = "none" <=> callState.instr = "none"
  PROVE  CallCells'
BY DEF CallCells, CallsAreNested

LEMMA NoCallKeepsCells ==
  ASSUME callStack' = <<>>, interimStates' = <<>>,
         callState' \in Frame, callState'.instr = "none"
  PROVE  CallCells'
BY DEF CallCells, CallsAreNested, Instr

(* -------------------------------- Accounts ------------------------------- *)

LEMMA TypeGivesCells == ASSUME TypeOK PROVE CallCells
BY DEF TypeOK, CallCells

LEMMA CreatedType ==
  ASSUME TypeOK, NEW a \in Address PROVE Created(a) \in Account
<1>1. NewAccount \in Account
  BY DEF NewAccount, Account, AnyAddress, Module
<1>2. accounts[a] \in Account \cup {NoAccount}
  BY DEF TypeOK, Accounts
<1> QED BY <1>1, <1>2 DEF Created, IsAccount

LEMMA AccountsUpdate ==
  ASSUME NEW accts \in Accounts, NEW a, NEW acct, a \in Address => acct \in Account
  PROVE  [accts EXCEPT ![a] = acct] \in Accounts
BY DEF Accounts

LEMMA BalanceType ==
  ASSUME NEW acct \in Account, NEW v \in Int
  PROVE  /\ [acct EXCEPT !.balance = @ + v] \in Account
         /\ [acct EXCEPT !.balance = @ - v] \in Account
         /\ [acct EXCEPT !.balance = v] \in Account
         /\ [acct EXCEPT !.esdt = v] \in Account
         /\ [acct EXCEPT !.storage = v] \in Account
BY DEF Account

LEMMA NonceType ==
  ASSUME NEW acct \in Account
  PROVE  [acct EXCEPT !.nonce = @ + 1] \in Account
BY DEF Account

LEMMA ResetType ==
  ASSUME NEW acct \in Account, NEW nonce \in Nat, NEW balance \in Int
  PROVE  [acct EXCEPT !.nonce = nonce, !.balance = balance,
            !.code = {}, !.owner = NoAddress, !.storage = 0] \in Account
<1>1. /\ [acct EXCEPT !.nonce = nonce] \in Account
      /\ [acct EXCEPT !.nonce = nonce].esdt = acct.esdt
  BY DEF Account
<1>2. ASSUME NEW b \in Account
      PROVE  [b EXCEPT !.code = {}] \in Account /\ [b EXCEPT !.owner = NoAddress] \in Account
  BY DEF Account, AnyAddress
<1> DEFINE first == [acct EXCEPT !.nonce = nonce]
           second == [first EXCEPT !.balance = balance]
           third == [second EXCEPT !.code = {}]
           fourth == [third EXCEPT !.owner = NoAddress]
<1>3. second \in Account /\ third \in Account /\ fourth \in Account
  BY <1>1, <1>2, BalanceType
<1>4. [fourth EXCEPT !.storage = 0] \in Account
  <2> HIDE DEF fourth
  <2> QED BY <1>3 DEF Account
<1> QED BY <1>4

LEMMA SentType == ASSUME TypeOK, IsAccount(Root) PROVE Sent \in Accounts
<1>1. accounts \in Accounts /\ accounts[Root] \in Account
  BY KasmerAssumption DEF TypeOK, Accounts, IsAccount
<1> QED BY <1>1, NonceType DEF Sent, Accounts

LEMMA MovedType ==
  ASSUME NEW accts \in Accounts, NEW from, NEW to, NEW value \in Int,
         ~CallFails(accts, from, to, value)
  PROVE  Moved(accts, from, to, value) \in Accounts
<1> SUFFICES ASSUME NEW a \in Address
             PROVE  Moved(accts, from, to, value)[a] \in Account \cup {NoAccount}
  BY DEF Moved, Accounts
<1>1. accts[a] \in Account \cup {NoAccount}
  BY DEF Accounts
<1>2. CASE from = to \/ a \notin {from, to}
  BY <1>1, <1>2 DEF Moved
<1>3. CASE ~(from = to \/ a \notin {from, to})
  <2>1. accts[a] \in Account
    BY <1>1, <1>3 DEF CallFails
  <2>2. Moved(accts, from, to, value)[a] =
          [accts[a] EXCEPT !.balance = @ + (IF a = to THEN value ELSE -value)]
    BY <1>3 DEF Moved
  <2> QED BY <2>1, <2>2 DEF Account
<1> QED BY <1>2, <1>3

LEMMA WithDeployedType ==
  ASSUME NEW accts \in Accounts, NEW new, NEW owner \in AnyAddress, NEW module \in Module
  PROVE  WithDeployed(accts, new, owner, module) \in Accounts
<1>1. NewAccount \in Account
  BY DEF NewAccount, Account, AnyAddress, Module
<1>2. ASSUME NEW acct \in Account
      PROVE  [acct EXCEPT !.owner = owner, !.code = {module}] \in Account
  BY DEF Account
<1> QED BY <1>1, <1>2 DEF WithDeployed, Accounts

LEMMA CallTypes ==
  ASSUME TypeOK, NEW accts \in Accounts, NEW from, NEW to \in Address, NEW value \in Int,
         NEW instr \in CallerInstr, instr = "none" <=> callStack = <<>>,
         CallContract(accts, from, to, value, instr)
  PROVE  CallCells' /\ accounts' \in Accounts /\ vmOutput' = "none"
         /\ callState'.instr \in {"code", "exception"}
<1>1. accounts' \in Accounts
  BY MovedType DEF CallContract
<1>2. callState' \in Frame /\ callState'.instr \in {"code", "exception"}
  BY DEF CallContract, Idle, Frame, AnyAddress, Instr
<1>3. [callState EXCEPT !.instr = instr] \in Frame
      /\ [callState EXCEPT !.instr = instr].instr = instr
  BY DEF TypeOK, Frame, CallerInstr, Instr
<1>4. CallCells'
  <2>1. accts \in Accounts /\ interimStates' = <<accts>> \o interimStates
        /\ callStack' = <<[callState EXCEPT !.instr = instr]>> \o callStack
    BY DEF CallContract
  <2>2. callState'.instr # "none"
    BY <1>2
  <2> QED BY <1>2, <1>3, <2>1, <2>2, TypeGivesCells, PushKeepsCells
<1> QED BY <1>1, <1>2, <1>4 DEF CallContract

(* ------------------------------- The steps ------------------------------- *)

(* The check of the output and what is after it.                             *)
AfterCall == <<"checkExpectStatus", "setExitCode0">>
AtEnd == <<"setExitCode0">>
ToDeploy == <<"deployTx", "checkExpectStatus", "setExitCode0">>
ToCall == <<"callTx", "checkExpectStatus", "setExitCode0">>

LEMMA StepListsAre ==
  StepLists = {DeploySteps, Tail(DeploySteps), Tail(Tail(DeploySteps)), ToDeploy,
               TestSteps, ToCall, AfterCall, AtEnd, <<>>}
<1>1. Tail(Tail(Tail(DeploySteps))) = ToDeploy
  BY DEF DeploySteps, ToDeploy, AfterCall
<1>2. Tail(TestSteps) = ToCall /\ Tail(Tail(TestSteps)) = AfterCall
      /\ Tail(Tail(Tail(TestSteps))) = AtEnd
  BY DEF TestSteps, ToCall, AfterCall, AtEnd
<1> QED BY <1>1, <1>2 DEF StepLists

LEMMA StepsOf ==
  ASSUME NEW s \in StepLists, s # <<>>
  PROVE  /\ Tail(s) \in StepLists
         /\ Head(s) = "setExitCode1" => s \in {DeploySteps, TestSteps}
         /\ Head(s) = "deployTx" => s = ToDeploy /\ Tail(s) = AfterCall
         /\ Head(s) = "callTx" => s = ToCall /\ Tail(s) = AfterCall
         /\ Head(s) = "checkExpectStatus" => s = AfterCall /\ Tail(s) = AtEnd
         /\ Head(s) = "setExitCode0" => s = AtEnd /\ Tail(s) = <<>>
<1>1. CASE s = DeploySteps
  <2>1. Head(s) = "setExitCode1"
    BY <1>1 DEF DeploySteps
  <2> QED BY <1>1, <2>1 DEF StepLists
<1>2. CASE s = Tail(DeploySteps)
  <2>1. Head(s) = "setAccount" /\ Tail(s) = Tail(Tail(DeploySteps))
    BY <1>2 DEF DeploySteps
  <2> QED BY <2>1, StepListsAre
<1>3. CASE s = Tail(Tail(DeploySteps))
  <2>1. Head(s) = "newAddress" /\ Tail(s) = ToDeploy
    BY <1>3 DEF DeploySteps, ToDeploy, AfterCall
  <2> QED BY <2>1, StepListsAre
<1>4. CASE s = ToDeploy
  <2>1. Head(s) = "deployTx" /\ Tail(s) = AfterCall
    BY <1>4 DEF ToDeploy, AfterCall
  <2> QED BY <1>4, <2>1, StepListsAre
<1>5. CASE s = TestSteps
  <2>1. Head(s) = "setExitCode1" /\ Tail(s) = Tail(TestSteps)
    BY <1>5 DEF TestSteps
  <2> QED BY <1>5, <2>1 DEF StepLists
<1>6. CASE s = ToCall
  <2>1. Head(s) = "callTx" /\ Tail(s) = AfterCall
    BY <1>6 DEF ToCall, AfterCall
  <2> QED BY <1>6, <2>1, StepListsAre
<1>7. CASE s = AfterCall
  BY <1>7, StepListsAre DEF AfterCall, AtEnd
<1>8. CASE s = AtEnd
  BY <1>8, StepListsAre DEF AtEnd
<1> QED BY <1>1, <1>2, <1>3, <1>4, <1>5, <1>6, <1>7, <1>8, StepListsAre

LEMMA DifferentSteps ==
  /\ TestSteps # <<>> /\ TestSteps # AtEnd /\ AfterCall # <<>> /\ AfterCall # AtEnd
  /\ AtEnd # <<>> /\ AfterCall # TestSteps /\ ToCall # TestSteps /\ ToCall # <<>>
  /\ Head(AfterCall) = "checkExpectStatus" /\ Head(AtEnd) = "setExitCode0"
  /\ Head(TestSteps) = "setExitCode1" /\ DeploySteps # AtEnd
BY DEF TestSteps, DeploySteps, AfterCall, AtEnd, ToCall

LEMMA TailsBeforeEnd ==
  /\ Tail(DeploySteps) # AtEnd /\ Tail(Tail(DeploySteps)) # AtEnd
  /\ Tail(Tail(Tail(DeploySteps))) # AtEnd /\ Tail(TestSteps) # AtEnd
<1>1. Head(Tail(DeploySteps)) = "setAccount" /\ Head(Tail(Tail(DeploySteps))) = "newAddress"
      /\ Head(Tail(Tail(Tail(DeploySteps)))) = "deployTx"
  BY DEF DeploySteps
<1>2. Head(Tail(TestSteps)) = "callTx"
  BY DEF TestSteps
<1>3. Head(AtEnd) = "setExitCode0"
  BY DEF AtEnd
<1> QED BY <1>1, <1>2, <1>3

(* ----------------------------- Types of a step --------------------------- *)

LEMMA InstrType ==
  ASSUME TypeOK, NEW instr \in Instr
  PROVE  /\ [callState EXCEPT !.instr = instr] \in Frame
         /\ [callState EXCEPT !.instr = instr].instr = instr
         /\ \A a \in Address : /\ [callState EXCEPT !.callee = a] \in Frame
                              /\ [callState EXCEPT !.callee = a].instr = callState.instr
BY DEF TypeOK, Frame, AnyAddress

LEMMA InstrNames ==
  /\ {"none", "code", "exception", "finishExecuteOnDestContext", "stuck"} = Instr
  /\ {"none", "code", "finishExecuteOnDestContext"} = CallerInstr
BY DEF Instr, CallerInstr

LEMMA HostTypes ==
  ASSUME TypeOK, callState.instr = "code", calls < MaxCalls, calls' = calls + 1, HostRest,
         accounts' \in Accounts, newAddresses' \subseteq NewAddressEntry, prank' \in BOOLEAN,
         UNCHANGED vmOutput, callState' \in Frame, callState'.instr # "none"
  PROVE  TypeOK'
<1>1. calls' \in 0..MaxCalls
  BY KasmerAssumption DEF TypeOK
<1>2. CallCells'
  BY TypeGivesCells, SameStackKeepsCells DEF HostRest
<1> QED BY <1>1, <1>2 DEF TypeOK, HostRest, driver, CallCells, DeployedConfig

LEMMA SetNewAddressType ==
  ASSUME TypeOK, NEW creator \in Address, NEW nonce \in Nat, NEW new \in Address,
         SetNewAddress(creator, nonce, new)
  PROVE  newAddresses' \subseteq NewAddressEntry
BY DEF TypeOK, SetNewAddress, NewAddressEntry

LEMMA ThrowsTypes ==
  ASSUME TypeOK, callState.instr = "code", calls < MaxCalls, calls' = calls + 1, HostRest,
         UNCHANGED <<accounts, newAddresses, prank, vmOutput>>,
         Throws \/ callState' = [callState EXCEPT !.instr = "stuck"] \/ Succeeds
  PROVE  TypeOK'
<1>1. callState' \in Frame /\ callState'.instr # "none"
  BY InstrType, InstrNames DEF Throws, Succeeds, TypeOK
<1> QED BY <1>1, HostTypes DEF TypeOK

(* The test API, the calls and the errors of code.                           *)
LEMMA CodeTypes ==
  ASSUME TypeOK, TestApi \/ ExecuteOnDestContext \/ StorageStore \/ SignalError
  PROVE  TypeOK'
<1> USE KasmerAssumption
<1>1. ASSUME CalledByOther PROVE TypeOK'
  BY <1>1, ThrowsTypes DEF CalledByOther, Calls, Code
<1>2. ASSUME CreateAccount PROVE TypeOK'
  <2>1. PICK r \in NewAccounts :
          accounts' = [accounts EXCEPT ![r.addr] =
                      [Created(r.addr) EXCEPT !.nonce = r.nonce, !.balance = r.balance,
                         !.code = {}, !.owner = NoAddress, !.storage = 0]]
    BY <1>2 DEF CreateAccount
  <2>2. r.addr \in Address /\ r.nonce \in Nat /\ r.balance \in Int
    OBVIOUS
  <2>3. [Created(r.addr) EXCEPT !.nonce = r.nonce, !.balance = r.balance,
           !.code = {}, !.owner = NoAddress, !.storage = 0] \in Account
    <3>1. Created(r.addr) \in Account
      BY <2>2, CreatedType
    <3> QED BY <2>2, <3>1, ResetType
  <2>4. accounts' \in Accounts
    <3>1. accounts \in Accounts
      BY DEF TypeOK
    <3> QED BY <2>1, <2>3, <3>1 DEF Accounts
  <2> QED BY <1>2, <2>4, HostTypes DEF CreateAccount, Calls, Code, Succeeds, TypeOK
<1>3. ASSUME RegisterNewAddress PROVE TypeOK'
  <2>1. newAddresses' \subseteq NewAddressEntry
    BY <1>3, SetNewAddressType DEF RegisterNewAddress, NewAddressEntry
  <2> QED BY <1>3, <2>1, HostTypes DEF RegisterNewAddress, Calls, Code, Succeeds, TypeOK
<1>4. ASSUME DeployContract PROVE TypeOK'
  <2>1. PICK r \in Deployments, e \in newAddresses :
          CallContract(WithDeployed(accounts, e.new, r.owner, r.path),
                       r.owner, e.new, r.value, "code")
    BY <1>4 DEF DeployContract
  <2>2. r.owner \in AnyAddress /\ r.path \in Module /\ r.value \in Int /\ e.new \in Address
    BY DEF TypeOK, NewAddressEntry, AnyAddress, Module
  <2>3. WithDeployed(accounts, e.new, r.owner, r.path) \in Accounts
    BY <2>2, WithDeployedType DEF TypeOK
  <2>4. callStack # <<>>
    BY <1>4 DEF DeployContract, Calls, Code, TypeOK, CallsAreNested
  <2>5. CallCells' /\ accounts' \in Accounts /\ vmOutput' = "none"
    BY <2>1, <2>2, <2>3, <2>4, CallTypes, InstrNames
  <2> QED BY <1>4, <2>5 DEF DeployContract, Calls, TypeOK, driver, CallCells, ReturnCode,
                            DeployedConfig
<1>5. ASSUME CannotDeploy PROVE TypeOK'
  BY <1>5, ThrowsTypes DEF CannotDeploy, Calls, Code
<1>6. ASSUME SetStorage PROVE TypeOK'
  <2>1. PICK a \in Targets, v \in StorageValues :
          IF IsAccount(a)
          THEN accounts' = [accounts EXCEPT ![a].storage = v] /\ Succeeds
          ELSE callState' = [callState EXCEPT !.instr = "stuck"] /\ UNCHANGED accounts
    BY <1>6 DEF SetStorage
  <2>2. CASE IsAccount(a)
    <3>1. accounts[a] \in Account
      BY <2>2 DEF IsAccount, TypeOK, Accounts
    <3>2. accounts' \in Accounts
      <4>1. accounts \in Accounts /\ [accounts[a] EXCEPT !.storage = v] \in Account
        BY <3>1, BalanceType DEF TypeOK
      <4>2. accounts' = [accounts EXCEPT ![a] = [accounts[a] EXCEPT !.storage = v]]
        BY <2>1, <2>2
      <4> QED BY <4>1, <4>2 DEF Accounts
    <3> QED BY <1>6, <2>1, <2>2, <3>2, HostTypes DEF SetStorage, Calls, Code, Succeeds, TypeOK
  <2>3. CASE ~IsAccount(a)
    BY <1>6, <2>1, <2>3, ThrowsTypes DEF SetStorage, Calls, Code
  <2> QED BY <2>2, <2>3
<1>7. ASSUME SetExternalBalance \/ SetESDTExternalBalance PROVE TypeOK'
  <2>1. PICK a \in Targets, v \in Amounts :
          \/ /\ IsAccount(a) /\ Succeeds
             /\ \/ accounts' = [accounts EXCEPT ![a] = [@ EXCEPT !.balance = v]]
                \/ accounts' = [accounts EXCEPT ![a] = [@ EXCEPT !.esdt = v]]
          \/ Throws /\ UNCHANGED accounts
    BY <1>7 DEF SetExternalBalance, SetESDTExternalBalance
  <2>2. callState.instr = "code" /\ calls < MaxCalls /\ calls' = calls + 1 /\ HostRest
        /\ UNCHANGED <<newAddresses, prank, vmOutput>>
    BY <1>7 DEF SetExternalBalance, SetESDTExternalBalance, Calls, Code
  <2>3. CASE Throws /\ UNCHANGED accounts
    BY <2>2, <2>3, ThrowsTypes
  <2>4. CASE ~(Throws /\ UNCHANGED accounts)
    <3>1. accounts[a] \in Account /\ v \in Int
      BY <2>1, <2>4 DEF IsAccount, TypeOK, Accounts
    <3>2. accounts' \in Accounts
      <4>1. /\ accounts \in Accounts
            /\ [accounts[a] EXCEPT !.balance = v] \in Account
            /\ [accounts[a] EXCEPT !.esdt = v] \in Account
        BY <3>1, BalanceType DEF TypeOK
      <4>2. \/ accounts' = [accounts EXCEPT ![a] = [accounts[a] EXCEPT !.balance = v]]
            \/ accounts' = [accounts EXCEPT ![a] = [accounts[a] EXCEPT !.esdt = v]]
        BY <2>1, <2>4
      <4> QED BY <4>1, <4>2 DEF Accounts
    <3> QED BY <2>1, <2>2, <2>4, <3>2, HostTypes DEF Succeeds, TypeOK
  <2> QED BY <2>3, <2>4
<1>8. ASSUME SetESDTRole PROVE TypeOK'
  <2>1. PICK a \in Targets, role \in Role, p \in BOOLEAN :
       IF IsAccount(a)
       THEN /\ accounts' = [accounts EXCEPT ![a].roles = IF p THEN @ \cup {role} ELSE @ \ {role}]
            /\ Succeeds
       ELSE Throws /\ UNCHANGED accounts
    BY <1>8 DEF SetESDTRole
  <2>2. CASE IsAccount(a)
    <3>1. accounts[a] \in Account
      BY <2>2 DEF IsAccount, TypeOK, Accounts
    <3>2. [accounts[a] EXCEPT !.roles = IF p THEN @ \cup {role} ELSE @ \ {role}] \in Account
      BY <3>1 DEF Account
    <3>3. accounts' \in Accounts
      <4>1. accounts \in Accounts
        BY DEF TypeOK
      <4>2. accounts' = [accounts EXCEPT ![a] = [accounts[a] EXCEPT !.roles =
                           IF p THEN accounts[a].roles \cup {role} ELSE accounts[a].roles \ {role}]]
        BY <2>1, <2>2
      <4> QED BY <3>2, <4>1, <4>2 DEF Accounts
    <3> QED BY <1>8, <2>1, <2>2, <3>3, HostTypes DEF SetESDTRole, Calls, Code, Succeeds, TypeOK
  <2>3. CASE ~IsAccount(a)
    BY <1>8, <2>1, <2>3, ThrowsTypes DEF SetESDTRole, Calls, Code
  <2> QED BY <2>2, <2>3
<1>9. ASSUME NoEffect PROVE TypeOK'
  BY <1>9, ThrowsTypes DEF NoEffect, Calls, Code
<1>10. ASSUME AssertFails PROVE TypeOK'
  BY <1>10, ThrowsTypes DEF AssertFails, Calls, Code
<1>11. ASSUME AssumeFails PROVE TypeOK'
  <2>1. callState' \in Frame /\ callState'.instr = "none"
    BY <1>11, InstrType, InstrNames DEF AssumeFails
  <2>2. CallCells'
    BY <1>11, <2>1, NoCallKeepsCells DEF AssumeFails
  <2>3. calls' \in 0..MaxCalls
    BY <1>11 DEF AssumeFails, Calls, TypeOK
  <2>4. k' \in StepLists
    BY <1>11 DEF AssumeFails, StepLists
  <2> QED BY <1>11, <2>2, <2>3, <2>4 DEF AssumeFails, TypeOK, CallCells, driver, world,
                                         DeployedConfig
<1>12. ASSUME StartPrank PROVE TypeOK'
  <2>1. callState' \in Frame /\ callState'.instr # "none" /\ prank' \in BOOLEAN
    BY <1>12, InstrType, InstrNames DEF StartPrank, Throws, Calls, Code, TypeOK
  <2> QED BY <1>12, <2>1, HostTypes DEF StartPrank, Calls, Code, TypeOK
<1>13. ASSUME StopPrank PROVE TypeOK'
  <2>1. callState' \in Frame /\ callState'.instr # "none" /\ prank' \in BOOLEAN
    BY <1>13, InstrType, InstrNames DEF StopPrank, Throws, Calls, Code, TypeOK
  <2> QED BY <1>13, <2>1, HostTypes DEF StopPrank, Calls, Code, TypeOK
<1>14. ASSUME ExecuteOnDestContext PROVE TypeOK'
  <2>1. PICK to \in Callees :
          CallContract(accounts, callState.callee, to, 0, "finishExecuteOnDestContext")
    BY <1>14 DEF ExecuteOnDestContext
  <2>2. callStack # <<>>
    BY <1>14 DEF ExecuteOnDestContext, Code, TypeOK, CallsAreNested
  <2>3. accounts \in Accounts /\ to \in Address
    BY DEF TypeOK
  <2>4. CallCells' /\ accounts' \in Accounts /\ vmOutput' = "none"
    BY <2>1, <2>2, <2>3, CallTypes, InstrNames
  <2> QED BY <1>14, <2>4 DEF ExecuteOnDestContext, TypeOK, driver, CallCells, ReturnCode,
                             DeployedConfig
<1>15. ASSUME StorageStore PROVE TypeOK'
  <2>1. PICK v \in StorageValues : accounts' = [accounts EXCEPT ![callState.callee].storage = v]
    BY <1>15 DEF StorageStore
  <2>2. callState.callee \in Address => accounts[callState.callee] \in Account
    BY <1>15 DEF StorageStore, IsAccount, TypeOK, Accounts
  <2>3. accounts' \in Accounts
    BY <2>1, <2>2, BalanceType, AccountsUpdate DEF TypeOK
  <2> QED BY <1>15, <2>3, HostTypes DEF StorageStore, Code, Succeeds, TypeOK
<1>16. ASSUME SignalError PROVE TypeOK'
  BY <1>16, ThrowsTypes DEF SignalError, Code
<1> QED BY <1>1, <1>2, <1>3, <1>4, <1>5, <1>6, <1>7, <1>8, <1>9, <1>10, <1>11, <1>12, <1>13,
           <1>14, <1>15, <1>16 DEF TestApi

(* A frame of a call is left only when the check of its output is next; the  *)
(* end is reached with an output that is OK; an exit code of 0 before the    *)
(* end is the one of the deployed configuration; and a run has an example    *)
(* left to count.                                                            *)
CallsComeBeforeChecks == callState.instr # "none" => k = AfterCall
OutputIsOK == k = AtEnd => vmOutput = "OK"
ZeroMeansOver ==
  (stage = "run" /\ ~assumed /\ exitCode = 0) => k = TestSteps \/ (k = <<>> /\ vmOutput = "OK")
RunsAreCounted == stage = "run" => examples < MaxExamples

(* The Mandos steps.                                                         *)
LEMMA MandosTypes ==
  ASSUME TypeOK, SetExitCode \/ SetAccount \/ NewAddress \/ DeployTx \/ CallTx
                   \/ CheckExpectStatus
  PROVE  TypeOK'
<1> USE KasmerAssumption
<1>0. k' \in StepLists /\ callState.instr = "none" /\ callStack = <<>>
  <2>1. k # <<>> /\ k' = Tail(k) /\ callState.instr = "none"
    BY DEF SetExitCode, SetAccount, NewAddress, DeployTx, CallTx, CheckExpectStatus, StepIs,
           StepDone
  <2> QED BY <2>1, StepsOf DEF TypeOK, CallsAreNested
<1>1. ASSUME SetExitCode PROVE TypeOK'
  BY <1>0, <1>1 DEF SetExitCode, TypeOK, driver, world, machine, CallsAreNested, DeployedConfig
<1>2. ASSUME SetAccount PROVE TypeOK'
  <2>1. [Created(Root) EXCEPT !.nonce = 1, !.balance = 100000, !.code = {},
                              !.owner = NoAddress, !.storage = 0] \in Account
    <3>1. Created(Root) \in Account
      BY CreatedType
    <3>2. PICK nonce \in Nat, balance \in Int : nonce = 1 /\ balance = 100000
      OBVIOUS
    <3>3. [Created(Root) EXCEPT !.nonce = nonce, !.balance = balance, !.code = {},
                                !.owner = NoAddress, !.storage = 0] \in Account
      BY <3>1, ResetType
    <3> QED BY <3>2, <3>3
  <2>2. accounts' \in Accounts
    BY <1>2, <2>1 DEF SetAccount, TypeOK, Accounts
  <2> QED BY <1>0, <1>2, <2>2 DEF SetAccount, TypeOK, driver, machine, CallsAreNested,
                                  DeployedConfig
<1>3. ASSUME NewAddress PROVE TypeOK'
  <2>1. newAddresses' \subseteq NewAddressEntry
    BY <1>3, SetNewAddressType DEF NewAddress
  <2> QED BY <1>0, <1>3, <2>1 DEF NewAddress, TypeOK, driver, machine, CallsAreNested,
                                  DeployedConfig
<1>4. ASSUME DeployTx PROVE TypeOK'
  <2>1. PICK e \in newAddresses :
          CallContract(WithDeployed(Sent, e.new, Root, TestWasm), Root, e.new, 0, "none")
    BY <1>4 DEF DeployTx
  <2>2. e.new \in Address /\ Root \in AnyAddress /\ TestWasm \in Module
    BY DEF TypeOK, NewAddressEntry, AnyAddress, Module
  <2>3. WithDeployed(Sent, e.new, Root, TestWasm) \in Accounts
    BY <1>4, <2>2, SentType, WithDeployedType DEF DeployTx
  <2>4. CallCells' /\ accounts' \in Accounts /\ vmOutput' = "none"
    BY <1>0, <2>1, <2>2, <2>3, CallTypes, InstrNames
  <2> QED BY <1>0, <1>4, <2>4 DEF DeployTx, TypeOK, driver, CallCells, ReturnCode,
                                  DeployedConfig
<1>5. ASSUME CallTx PROVE TypeOK'
  <2>1. Sent \in Accounts
    BY <1>5, SentType DEF CallTx
  <2>2. CallCells' /\ accounts' \in Accounts /\ vmOutput' = "none"
    BY <1>0, <1>5, <2>1, CallTypes, InstrNames DEF CallTx
  <2> QED BY <1>0, <1>5, <2>2 DEF CallTx, TypeOK, driver, CallCells, ReturnCode,
                                  DeployedConfig
<1>6. ASSUME CheckExpectStatus PROVE TypeOK'
  BY <1>0, <1>6 DEF CheckExpectStatus, TypeOK, driver, world, machine, CallsAreNested,
                    DeployedConfig
<1> QED BY <1>1, <1>2, <1>3, <1>4, <1>5, <1>6

(* The ends of a call.                                                       *)
LEMMA EndTypes ==
  ASSUME TypeOK, EndWasm \/ Exception \/ FinishExecuteOnDestContext
  PROVE  TypeOK'
<1>0. CallCells
  BY TypeGivesCells
<1>1. ASSUME EndWasm PROVE TypeOK'
  <2>1. CallCells'
    BY <1>0, <1>1, PopKeepsCells DEF EndWasm, Code, CallCells, CallsAreNested
  <2> QED BY <1>1, <2>1 DEF EndWasm, TypeOK, driver, world, CallCells, ReturnCode,
                            DeployedConfig
<1>2. ASSUME Exception PROVE TypeOK'
  <2>1. callStack # <<>> /\ interimStates # <<>>
    BY <1>0, <1>2 DEF Exception, CallCells, CallsAreNested
  <2>2. CallCells'
    BY <1>0, <1>2, <2>1, PopKeepsCells DEF Exception
  <2>3. accounts' \in Accounts
    BY <1>0, <1>2, <2>1, PopFacts DEF Exception, CallCells
  <2> QED BY <1>2, <2>2, <2>3 DEF Exception, TypeOK, driver, CallCells, DeployedConfig
<1>3. ASSUME FinishExecuteOnDestContext PROVE TypeOK'
  <2>1. callState' \in Frame /\ callState'.instr \in {"code", "exception"}
    BY <1>3, InstrType, InstrNames DEF FinishExecuteOnDestContext
  <2>2. CallCells'
    BY <1>0, <1>3, <2>1, SameStackKeepsCells DEF FinishExecuteOnDestContext
  <2> QED BY <1>3, <2>2 DEF FinishExecuteOnDestContext, TypeOK, driver, world, CallCells,
                            ReturnCode, DeployedConfig
<1> QED BY <1>1, <1>2, <1>3

(* The program around the interpreter.                                       *)
LEMMA ProgramTypes ==
  ASSUME TypeOK, CallsComeBeforeChecks, RunsAreCounted, Program
  PROVE  TypeOK'
<1> USE KasmerAssumption
<1>1. ASSUME DeployTest PROVE TypeOK'
  <2>1. callState.instr = "none"
    BY <1>1, DifferentSteps DEF DeployTest, CallsComeBeforeChecks
  <2>2. deployed' \in DeployedConfig /\ deployed'.callState.instr = "none"
    BY <1>1, <2>1 DEF DeployTest, DeployedConfig, TypeOK
  <2> QED BY <1>1, <2>2 DEF DeployTest, TypeOK, machine, CallsAreNested, Stage
<1>2. ASSUME KasmerRunError \/ UnsupportedType \/ RunFails \/ AllPass PROVE TypeOK'
  BY <1>2 DEF KasmerRunError, UnsupportedType, RunFails, AllPass, TypeOK, world, machine,
              CallsAreNested, Stage, DeployedConfig
<1>3. ASSUME TestWithKfuzz PROVE TypeOK'
  <2>1. CallCells'
    BY <1>3, NoCallKeepsCells DEF TestWithKfuzz, TypeOK, DeployedConfig
  <2>2. k' \in StepLists
    BY <1>3 DEF TestWithKfuzz, StepLists
  <2>3. /\ accounts' \in Accounts /\ newAddresses' \subseteq NewAddressEntry
        /\ prank' \in BOOLEAN /\ vmOutput' \in ReturnCode /\ exitCode' \in {0, 1}
    BY <1>3 DEF TestWithKfuzz, TypeOK, DeployedConfig
  <2>4. calls' \in 0..MaxCalls
    BY <1>3 DEF TestWithKfuzz
  <2>5. stage' \in Stage
    BY <1>3 DEF TestWithKfuzz, Stage
  <2>6. assumed' \in BOOLEAN
    BY <1>3 DEF TestWithKfuzz
  <2>7. UNCHANGED <<examples, deployed, wasmStore>>
    BY <1>3 DEF TestWithKfuzz
  <2> QED BY <2>1, <2>2, <2>3, <2>4, <2>5, <2>6, <2>7 DEF TypeOK, CallCells, DeployedConfig
<1>4. ASSUME RunPasses PROVE TypeOK'
  <2>1. examples' \in 0..MaxExamples
    BY <1>4 DEF RunPasses, RunsAreCounted, TypeOK
  <2> QED BY <1>4, <2>1 DEF RunPasses, TypeOK, world, machine, CallsAreNested, Stage,
                            DeployedConfig
<1>5. ASSUME EndpointPasses PROVE TypeOK'
  BY <1>5 DEF EndpointPasses, TypeOK, world, machine, CallsAreNested, DeployedConfig
<1> QED BY <1>1, <1>2, <1>3, <1>4, <1>5 DEF Program

LEMMA NextTypes ==
  ASSUME TypeOK, CallsComeBeforeChecks, RunsAreCounted, [Next]_vars
  PROVE  TypeOK'
<1>1. CASE Next
  BY <1>1, MandosTypes, EndTypes, CodeTypes, ProgramTypes DEF Next, Interpreter
<1>2. CASE UNCHANGED vars
  BY <1>2 DEF vars, driver, world, machine, TypeOK, CallsAreNested, DeployedConfig
<1> QED BY <1>1, <1>2

LEMMA InitTypes == ASSUME Init PROVE TypeOK
<1> USE KasmerAssumption
<1>1. callState \in Frame /\ callState.instr = "none"
  BY DEF Init, Idle, Frame, AnyAddress, Instr
<1>2. accounts \in Accounts
  BY DEF Init, Accounts
<1>3. deployed \in DeployedConfig /\ deployed.callState.instr = "none"
  BY <1>1, <1>2 DEF Init, DeployedConfig, ReturnCode
<1>4. CallsAreNested
  BY <1>1 DEF Init, CallsAreNested
<1>5. stage \in Stage /\ k \in StepLists /\ vmOutput \in ReturnCode /\ exitCode \in {0, 1}
  BY DEF Init, Stage, StepLists, ReturnCode
<1>6. examples \in 0..MaxExamples /\ calls \in 0..MaxCalls
  BY DEF Init
<1>7. callStack \in Seq(Frame) /\ interimStates \in Seq(Accounts)
  BY DEF Init
<1>8. prank \in BOOLEAN /\ assumed \in BOOLEAN /\ newAddresses \subseteq NewAddressEntry
      /\ wasmStore \subseteq Paths
  BY DEF Init
<1> QED BY <1>1, <1>2, <1>3, <1>4, <1>5, <1>6, <1>7, <1>8 DEF TypeOK

(* -------------------------------- Exit codes ----------------------------- *)

IInv == TypeOK /\ CallsComeBeforeChecks /\ OutputIsOK /\ ZeroMeansOver /\ RunsAreCounted

(* While code runs, the steps and the exit code stay, unless the run is over *)
(* with an assumption that fails.                                            *)
LEMMA CodeKeepsSteps ==
  ASSUME TypeOK,
         EndWasm \/ Exception \/ FinishExecuteOnDestContext \/ TestApi
           \/ ExecuteOnDestContext \/ StorageStore \/ SignalError
  PROVE  /\ callState.instr # "none" /\ UNCHANGED driver
         /\ \/ UNCHANGED <<k, exitCode, assumed>>
            \/ assumed' /\ k' = <<>> /\ callState'.instr = "none"
<1>1. ASSUME EndWasm \/ Exception \/ FinishExecuteOnDestContext
      PROVE  callState.instr # "none" /\ UNCHANGED <<driver, k, exitCode, assumed>>
  BY <1>1 DEF EndWasm, Exception, FinishExecuteOnDestContext, Code, driver
<1>2. ASSUME ExecuteOnDestContext \/ StorageStore \/ SignalError
      PROVE  callState.instr # "none" /\ UNCHANGED <<driver, k, exitCode, assumed>>
  BY <1>2 DEF ExecuteOnDestContext, StorageStore, SignalError, Code, HostRest, driver
<1>3. ASSUME CalledByOther \/ CreateAccount \/ RegisterNewAddress \/ DeployContract
               \/ CannotDeploy \/ SetStorage \/ SetExternalBalance \/ SetESDTExternalBalance
      PROVE  callState.instr # "none" /\ UNCHANGED <<driver, k, exitCode, assumed>>
  BY <1>3 DEF CalledByOther, CreateAccount, RegisterNewAddress, DeployContract, CannotDeploy,
              SetStorage, SetExternalBalance, SetESDTExternalBalance, Calls, Code,
              HostRest, driver
<1>4. ASSUME SetESDTRole \/ NoEffect \/ AssertFails \/ StartPrank \/ StopPrank
      PROVE  callState.instr # "none" /\ UNCHANGED <<driver, k, exitCode, assumed>>
  BY <1>4 DEF SetESDTRole, NoEffect, AssertFails, StartPrank, StopPrank, Calls, Code, HostRest,
              driver
<1>5. ASSUME AssumeFails
      PROVE  callState.instr # "none" /\ UNCHANGED driver /\ assumed' /\ k' = <<>>
             /\ callState'.instr = "none"
  BY <1>5 DEF AssumeFails, Calls, Code, TypeOK, Frame, driver
<1> QED BY <1>1, <1>2, <1>3, <1>4, <1>5 DEF TestApi

LEMMA CodeKeepsIInv ==
  ASSUME IInv,
         EndWasm \/ Exception \/ FinishExecuteOnDestContext \/ TestApi
           \/ ExecuteOnDestContext \/ StorageStore \/ SignalError
  PROVE  (CallsComeBeforeChecks /\ OutputIsOK /\ ZeroMeansOver /\ RunsAreCounted)'
<1>0. TypeOK
  BY DEF IInv
<1>1. k = AfterCall
  BY <1>0, CodeKeepsSteps DEF IInv, CallsComeBeforeChecks
<1>2. CASE UNCHANGED <<driver, k, exitCode, assumed>>
  BY <1>1, <1>2, DifferentSteps
     DEF IInv, CallsComeBeforeChecks, OutputIsOK, ZeroMeansOver, RunsAreCounted, driver
<1>3. CASE UNCHANGED driver /\ assumed' /\ k' = <<>> /\ callState'.instr = "none"
  BY <1>3, DifferentSteps
     DEF IInv, CallsComeBeforeChecks, OutputIsOK, ZeroMeansOver, RunsAreCounted, driver
<1> QED BY <1>0, <1>2, <1>3, CodeKeepsSteps

LEMMA MandosKeepsIInv ==
  ASSUME IInv, SetExitCode \/ SetAccount \/ NewAddress \/ DeployTx \/ CallTx
                 \/ CheckExpectStatus
  PROVE  (CallsComeBeforeChecks /\ OutputIsOK /\ ZeroMeansOver /\ RunsAreCounted)'
<1>1. /\ k \in StepLists /\ k # <<>> /\ k' = Tail(k) /\ callState.instr = "none"
      /\ UNCHANGED driver /\ UNCHANGED assumed
  BY DEF IInv, TypeOK, SetExitCode, SetAccount, NewAddress, DeployTx, CallTx, CheckExpectStatus,
         StepIs, StepDone, driver, machine
<1>2. RunsAreCounted'
  BY <1>1 DEF IInv, RunsAreCounted, driver
<1>3. ASSUME SetExitCode PROVE (CallsComeBeforeChecks /\ OutputIsOK /\ ZeroMeansOver)'
  <2>1. UNCHANGED <<callState, vmOutput, stage, assumed>>
    BY <1>3, <1>1 DEF SetExitCode, machine, driver
  <2>2. CASE Head(k) = "setExitCode1" /\ exitCode' = 1
    <3>1. k' # AtEnd
      BY <1>1, <2>2, StepsOf, TailsBeforeEnd
    <3> QED BY <1>1, <2>1, <2>2, <3>1 DEF CallsComeBeforeChecks, OutputIsOK, ZeroMeansOver
  <2>3. CASE Head(k) = "setExitCode0"
    <3>1. k = AtEnd /\ k' = <<>>
      BY <1>1, <2>3, StepsOf
    <3>2. vmOutput = "OK"
      BY <3>1 DEF IInv, OutputIsOK
    <3> QED BY <1>1, <2>1, <3>1, <3>2 DEF CallsComeBeforeChecks, OutputIsOK, ZeroMeansOver, AtEnd
  <2> QED BY <1>3, <2>2, <2>3 DEF SetExitCode, StepIs
<1>4. ASSUME SetAccount \/ NewAddress
      PROVE  (CallsComeBeforeChecks /\ OutputIsOK /\ ZeroMeansOver)'
  <2>1. Head(k) \in {"setAccount", "newAddress"} /\ UNCHANGED <<machine, exitCode>>
    BY <1>4 DEF SetAccount, NewAddress, StepIs
  <2>2. k # TestSteps /\ k # AtEnd /\ k # AfterCall /\ k' # AtEnd
    <3>1. k # TestSteps /\ k # AtEnd /\ k # AfterCall /\ k # ToCall /\ k # ToDeploy
          /\ k # DeploySteps
      BY <2>1 DEF TestSteps, AtEnd, AfterCall, ToCall, ToDeploy, DeploySteps
    <3>2. k \in {Tail(DeploySteps), Tail(Tail(DeploySteps))}
      BY <1>1, <3>1, StepListsAre
    <3>3. k' # AtEnd
      BY <1>1, <3>2, TailsBeforeEnd
    <3> QED BY <3>1, <3>3
  <2> QED BY <1>1, <2>1, <2>2 DEF IInv, CallsComeBeforeChecks, OutputIsOK, ZeroMeansOver, machine,
                                  driver
<1>5. ASSUME DeployTx \/ CallTx
      PROVE  (CallsComeBeforeChecks /\ OutputIsOK /\ ZeroMeansOver)'
  <2>1. Head(k) \in {"deployTx", "callTx"} /\ UNCHANGED exitCode
    BY <1>5 DEF DeployTx, CallTx, StepIs
  <2>2. k' = AfterCall /\ k # TestSteps
    BY <1>1, <2>1, StepsOf, DifferentSteps DEF ToDeploy, ToCall
  <2> QED BY <1>1, <2>1, <2>2, DifferentSteps
          DEF IInv, CallsComeBeforeChecks, OutputIsOK, ZeroMeansOver, driver
<1>6. ASSUME CheckExpectStatus PROVE (CallsComeBeforeChecks /\ OutputIsOK /\ ZeroMeansOver)'
  <2>1. Head(k) = "checkExpectStatus" /\ vmOutput = "OK" /\ UNCHANGED <<machine, exitCode>>
    BY <1>6 DEF CheckExpectStatus, StepIs
  <2>2. k = AfterCall /\ k' = AtEnd
    BY <1>1, <2>1, StepsOf
  <2> QED BY <1>1, <2>1, <2>2, DifferentSteps
          DEF IInv, CallsComeBeforeChecks, OutputIsOK, ZeroMeansOver, machine, driver
<1> QED BY <1>2, <1>3, <1>4, <1>5, <1>6

LEMMA ProgramKeepsIInv ==
  ASSUME IInv, Program
  PROVE  (CallsComeBeforeChecks /\ OutputIsOK /\ ZeroMeansOver /\ RunsAreCounted)'
<1>1. CASE TestWithKfuzz
  <2>1. callState'.instr = "none" /\ k' = TestSteps /\ examples' < MaxExamples
    BY <1>1 DEF TestWithKfuzz, IInv, TypeOK
  <2> QED BY <2>1, DifferentSteps DEF CallsComeBeforeChecks, OutputIsOK, ZeroMeansOver,
                                      RunsAreCounted
<1>2. CASE ~TestWithKfuzz
  <2>1. UNCHANGED <<k, machine>> /\ stage' # "run"
    BY <1>2 DEF Program, DeployTest, KasmerRunError, UnsupportedType, RunPasses, RunFails,
                EndpointPasses, AllPass, machine
  <2> QED BY <2>1 DEF IInv, CallsComeBeforeChecks, OutputIsOK, ZeroMeansOver, RunsAreCounted,
                      machine
<1> QED BY <1>1, <1>2

LEMMA IInvInductive == ASSUME IInv, [Next]_vars PROVE IInv'
<1>1. TypeOK'
  BY NextTypes DEF IInv
<1>2. CASE Next
  BY <1>1, <1>2, CodeKeepsIInv, MandosKeepsIInv, ProgramKeepsIInv DEF Next, Interpreter, IInv
<1>3. CASE UNCHANGED vars
  BY <1>1, <1>3 DEF vars, driver, world, machine, IInv, CallsComeBeforeChecks, OutputIsOK,
                    ZeroMeansOver, RunsAreCounted
<1> QED BY <1>2, <1>3

LEMMA InitIInv == ASSUME Init PROVE IInv
BY InitTypes, DifferentSteps DEF Init, IInv, Idle, CallsComeBeforeChecks, OutputIsOK,
                                 ZeroMeansOver, RunsAreCounted

(* Every cell holds a value of its sort and the calls in progress are nested *)
(* on every path, for any code of the test contract and of the contracts it  *)
(* calls (kasmer.md:36-632, kasmer.py:64-253).                               *)
THEOREM TypeCorrect == Spec => []TypeOK
<1>1. Init => IInv
  BY InitIInv
<1>2. IInv /\ [Next]_vars => IInv'
  BY IInvInductive
<1>3. IInv => TypeOK
  BY DEF IInv
<1> QED BY <1>1, <1>2, <1>3, PTL DEF Spec

LEMMA ExitCodeIsSound == ASSUME IInv PROVE ExitCodeSound
<1> SUFFICES ASSUME stage = "run", Stopped, exitCode = 0, ~assumed
             PROVE  k = <<>> /\ vmOutput = "OK"
  BY DEF ExitCodeSound
<1>1. k = TestSteps \/ (k = <<>> /\ vmOutput = "OK")
  BY DEF IInv, ZeroMeansOver
<1>2. ASSUME k = TestSteps PROVE FALSE
  <2>1. callState.instr = "none"
    BY <1>2, DifferentSteps DEF IInv, CallsComeBeforeChecks
  <2> QED BY <1>2, <2>1, DifferentSteps DEF Stopped, StepIs
<1> QED BY <1>1, <1>2

(* A run that counts as passed by its exit code alone ended with status OK,  *)
(* or at an assumption that does not hold: no code, and no configuration     *)
(* that init leaves, makes a run that failed or got stuck look passed        *)
(* (kasmer.py:215-253).                                                      *)
THEOREM ExitCodesAreSound == Spec => []ExitCodeSound
<1>1. Init => IInv
  BY InitIInv
<1>2. IInv /\ [Next]_vars => IInv'
  BY IInvInductive
<1>3. IInv => ExitCodeSound
  BY ExitCodeIsSound
<1> QED BY <1>1, <1>2, <1>3, PTL DEF Spec

(* ---------------------------- What tests can do -------------------------- *)

(* After deploy_test there is nothing to deploy, so that in a test no caller *)
(* waits for a deployment: every call that ends is one whose output is       *)
(* consumed, and the code of accounts is the one that init left.             *)
NothingToDeploy == stage \in {"next", "run"} => wasmStore = {}
Consumers == {frame \in Frame : frame.instr # "code"}
OutputsAreConsumed ==
  stage = "run" =>
    /\ k \in {TestSteps, ToCall, AfterCall, AtEnd, <<>>}
    /\ callStack \in Seq(Consumers)
    /\ callState.instr \in {"code", "exception"} => vmOutput = "none"
CodeKept(accts, from) ==
  \A a \in Address : (accts[a] # NoAccount /\ accts[a].code # {}) =>
    from[a] # NoAccount /\ accts[a].code = from[a].code
KeptWorlds(from) == {accts \in Accounts : CodeKept(accts, from)}
WorldsKeepCode ==
  stage = "run" => /\ accounts \in KeptWorlds(deployed.accounts)
                   /\ interimStates \in Seq(KeptWorlds(deployed.accounts))
TestInv == IInv /\ NothingToDeploy /\ OutputsAreConsumed /\ WorldsKeepCode

LEMMA UpdateKeepsCode ==
  ASSUME NEW accts \in Accounts, NEW from, CodeKept(accts, from), NEW a, NEW acct,
         a \in Address => acct.code = {} \/ (accts[a] # NoAccount /\ acct.code = accts[a].code)
  PROVE  CodeKept([accts EXCEPT ![a] = acct], from)
BY DEF CodeKept, Accounts

LEMMA MoveKeepsCode ==
  ASSUME NEW accts \in Accounts, NEW base, CodeKept(accts, base),
         NEW from, NEW to, NEW value \in Int,
         ~CallFails(accts, from, to, value)
  PROVE  CodeKept(Moved(accts, from, to, value), base)
<1> DEFINE moved == Moved(accts, from, to, value)
<1> SUFFICES ASSUME NEW a \in Address, moved[a] # NoAccount, moved[a].code # {}
             PROVE  base[a] # NoAccount /\ moved[a].code = base[a].code
  BY DEF CodeKept
<1>1. CASE from = to \/ a \notin {from, to}
  BY <1>1 DEF Moved, CodeKept
<1>2. CASE ~(from = to \/ a \notin {from, to})
  <2>1. accts[a] \in Account /\ accts[a] # NoAccount
    BY <1>2 DEF CallFails, Accounts
  <2>2. moved[a] = [accts[a] EXCEPT !.balance = @ + (IF a = to THEN value ELSE -value)]
    BY <1>2 DEF Moved
  <2>3. moved[a].code = accts[a].code
    BY <2>1, <2>2 DEF Account
  <2> QED BY <2>1, <2>3 DEF CodeKept
<1> QED BY <1>1, <1>2

LEMMA SentKeepsCode ==
  ASSUME TypeOK, IsAccount(Root), NEW base, CodeKept(accounts, base)
  PROVE  CodeKept(Sent, base)
<1>1. accounts \in Accounts /\ accounts[Root] \in Account
  BY KasmerAssumption DEF TypeOK, Accounts, IsAccount
<1>2. [accounts[Root] EXCEPT !.nonce = @ + 1].code = accounts[Root].code
  BY <1>1 DEF Account
<1> QED BY <1>1, <1>2, UpdateKeepsCode DEF Sent, IsAccount

(* A call in a test: of an account that keeps its code, by a caller that     *)
(* will consume the output.                                                  *)
LEMMA CallInTest ==
  ASSUME TestInv, stage = "run", UNCHANGED driver, k' = AfterCall,
         NEW accts \in KeptWorlds(deployed.accounts),
         NEW from, NEW to \in Address, NEW instr \in CallerInstr \ {"code"},
         CallContract(accts, from, to, 0, instr)
  PROVE  OutputsAreConsumed' /\ WorldsKeepCode'
<1>1. [callState EXCEPT !.instr = instr] \in Consumers
  BY InstrType DEF TestInv, IInv, TypeOK, CallerInstr, Instr, Consumers
<1>2. /\ callStack' = <<[callState EXCEPT !.instr = instr]>> \o callStack
      /\ interimStates' = <<accts>> \o interimStates /\ vmOutput' = "none"
      /\ accounts' = accts \/ (/\ ~CallFails(accts, from, to, 0)
                               /\ accounts' = Moved(accts, from, to, 0))
  BY DEF CallContract
<1>3. callStack' \in Seq(Consumers)
  BY <1>1, <1>2, PushFacts DEF TestInv, OutputsAreConsumed
<1>4. interimStates' \in Seq(KeptWorlds(deployed.accounts))
  BY <1>2, PushFacts DEF TestInv, WorldsKeepCode
<1>5. accts \in Accounts /\ CodeKept(accts, deployed.accounts)
  BY DEF KeptWorlds
<1>6. accounts' \in KeptWorlds(deployed.accounts)
  BY <1>2, <1>5, MoveKeepsCode, MovedType DEF KeptWorlds
<1> QED BY <1>2, <1>3, <1>4, <1>6 DEF OutputsAreConsumed, WorldsKeepCode, driver

(* A function of the test API, or of storage, that returns or throws.        *)
LEMMA HostInTest ==
  ASSUME TestInv, stage = "run", callState.instr = "code", HostRest, UNCHANGED vmOutput,
         CodeKept(accounts', deployed.accounts), accounts' \in Accounts
  PROVE  OutputsAreConsumed' /\ WorldsKeepCode'
BY DEF TestInv, OutputsAreConsumed, WorldsKeepCode, HostRest, driver, KeptWorlds

LEMMA UnchangedInTest ==
  ASSUME TestInv, stage = "run", callState.instr = "code", HostRest, UNCHANGED vmOutput,
         UNCHANGED accounts
  PROVE  OutputsAreConsumed' /\ WorldsKeepCode'
BY HostInTest DEF TestInv, WorldsKeepCode, KeptWorlds

LEMMA FieldInTest ==
  ASSUME TestInv, stage = "run", callState.instr = "code", HostRest, UNCHANGED vmOutput,
         NEW a, NEW acct, accounts' = [accounts EXCEPT ![a] = acct], accounts' \in Accounts,
         a \in Address => \/ acct.code = {}
                          \/ accounts[a] # NoAccount /\ acct.code = accounts[a].code
  PROVE  OutputsAreConsumed' /\ WorldsKeepCode'
<1>1. accounts \in Accounts /\ CodeKept(accounts, deployed.accounts)
  BY DEF TestInv, WorldsKeepCode, KeptWorlds
<1>2. CodeKept(accounts', deployed.accounts)
  BY <1>1, UpdateKeepsCode
<1> QED BY <1>2, HostInTest

LEMMA SameCode ==
  ASSUME NEW acct \in Account, NEW v
  PROVE  /\ [acct EXCEPT !.storage = v].code = acct.code
         /\ [acct EXCEPT !.balance = v].code = acct.code
         /\ [acct EXCEPT !.esdt = v].code = acct.code
         /\ [acct EXCEPT !.roles = v].code = acct.code
BY DEF Account

LEMMA CodeInTest ==
  ASSUME TestInv, TypeOK', stage = "run",
         TestApi \/ ExecuteOnDestContext \/ StorageStore \/ SignalError
  PROVE  OutputsAreConsumed' /\ WorldsKeepCode'
<1> USE KasmerAssumption
<1> DEFINE Goal == OutputsAreConsumed' /\ WorldsKeepCode'
<1>0. TypeOK /\ accounts \in Accounts /\ accounts' \in Accounts
  BY DEF TestInv, IInv, TypeOK
<1>1. ASSUME CalledByOther \/ CannotDeploy \/ NoEffect \/ AssertFails \/ SignalError
               \/ RegisterNewAddress \/ StartPrank \/ StopPrank
      PROVE  Goal
  <2>1. callState.instr = "code" /\ HostRest /\ UNCHANGED <<vmOutput, accounts>>
    BY <1>1 DEF CalledByOther, CannotDeploy, NoEffect, AssertFails, SignalError,
                RegisterNewAddress, StartPrank, StopPrank, Calls, Code
  <2> QED BY <2>1, UnchangedInTest
<1>2. ASSUME CreateAccount PROVE Goal
  <2>1. PICK r \in NewAccounts :
          accounts' = [accounts EXCEPT ![r.addr] =
                      [Created(r.addr) EXCEPT !.nonce = r.nonce, !.balance = r.balance,
                         !.code = {}, !.owner = NoAddress, !.storage = 0]]
    BY <1>2 DEF CreateAccount
  <2> DEFINE acct == [Created(r.addr) EXCEPT !.nonce = r.nonce, !.balance = r.balance,
                         !.code = {}, !.owner = NoAddress, !.storage = 0]
  <2>2. acct.code = {}
    <3>1. Created(r.addr) \in Account
      BY <1>0, CreatedType
    <3> QED BY <3>1 DEF Account
  <2>3. callState.instr = "code" /\ HostRest /\ UNCHANGED vmOutput
    BY <1>2 DEF CreateAccount, Calls, Code
  <2>4. PICK a, made : accounts' = [accounts EXCEPT ![a] = made] /\ made.code = {}
    BY <2>1, <2>2
  <2>5. CodeKept(accounts', deployed.accounts)
    BY <1>0, <2>4 DEF TestInv, WorldsKeepCode, KeptWorlds, CodeKept, Accounts
  <2> QED BY <1>0, <2>3, <2>5, HostInTest
<1>3. ASSUME DeployContract PROVE Goal
  BY <1>3 DEF DeployContract, TestInv, NothingToDeploy
<1>4. ASSUME SetStorage PROVE Goal
  <2>1. PICK a \in Targets, v \in StorageValues :
          IF IsAccount(a)
          THEN accounts' = [accounts EXCEPT ![a] = [accounts[a] EXCEPT !.storage = v]]
          ELSE UNCHANGED accounts
    BY <1>4 DEF SetStorage
  <2>2. callState.instr = "code" /\ HostRest /\ UNCHANGED vmOutput
    BY <1>4 DEF SetStorage, Calls, Code
  <2>3. CASE IsAccount(a)
    <3>1. accounts[a] \in Account /\ accounts[a] # NoAccount
      BY <1>0, <2>3 DEF IsAccount, Accounts
    <3> QED BY <1>0, <2>1, <2>2, <2>3, <3>1, SameCode, FieldInTest
  <2>4. CASE ~IsAccount(a)
    BY <2>1, <2>2, <2>4, UnchangedInTest
  <2> QED BY <2>3, <2>4
<1>5. ASSUME SetExternalBalance \/ SetESDTExternalBalance PROVE Goal
  <2>1. PICK a \in Targets, v \in Amounts :
          \/ IsAccount(a) /\ accounts' = [accounts EXCEPT ![a] = [accounts[a] EXCEPT !.balance = v]]
          \/ IsAccount(a) /\ accounts' = [accounts EXCEPT ![a] = [accounts[a] EXCEPT !.esdt = v]]
          \/ UNCHANGED accounts
    BY <1>5 DEF SetExternalBalance, SetESDTExternalBalance
  <2>2. callState.instr = "code" /\ HostRest /\ UNCHANGED vmOutput
    BY <1>5 DEF SetExternalBalance, SetESDTExternalBalance, Calls, Code
  <2>3. IsAccount(a) => accounts[a] \in Account /\ accounts[a] # NoAccount
    BY <1>0 DEF IsAccount, Accounts
  <2> QED BY <1>0, <2>1, <2>2, <2>3, SameCode, FieldInTest, UnchangedInTest
<1>6. ASSUME SetESDTRole PROVE Goal
  <2>1. PICK a \in Targets, role \in Role, p \in BOOLEAN :
          IF IsAccount(a)
          THEN accounts' = [accounts EXCEPT ![a] = [accounts[a] EXCEPT !.roles =
                 IF p THEN accounts[a].roles \cup {role} ELSE accounts[a].roles \ {role}]]
          ELSE UNCHANGED accounts
    BY <1>6 DEF SetESDTRole
  <2>2. callState.instr = "code" /\ HostRest /\ UNCHANGED vmOutput
    BY <1>6 DEF SetESDTRole, Calls, Code
  <2>3. CASE IsAccount(a)
    <3>1. accounts[a] \in Account /\ accounts[a] # NoAccount
      BY <1>0, <2>3 DEF IsAccount, Accounts
    <3> QED BY <1>0, <2>1, <2>2, <2>3, <3>1, SameCode, FieldInTest
  <2>4. CASE ~IsAccount(a)
    BY <2>1, <2>2, <2>4, UnchangedInTest
  <2> QED BY <2>3, <2>4
<1>7. ASSUME AssumeFails PROVE Goal
  <2>1. /\ callStack' = <<>> /\ interimStates' = <<>> /\ k' = <<>>
        /\ callState'.instr = "none" /\ UNCHANGED <<accounts, deployed, stage>>
    BY <1>0, <1>7, InstrType, InstrNames DEF AssumeFails, driver, world
  <2>2. callStack' \in Seq(Consumers) /\ interimStates' \in Seq(KeptWorlds(deployed.accounts))
    BY <2>1
  <2> QED BY <2>1, <2>2 DEF TestInv, OutputsAreConsumed, WorldsKeepCode
<1>8. ASSUME ExecuteOnDestContext PROVE Goal
  <2>1. PICK to \in Callees :
          CallContract(accounts, callState.callee, to, 0, "finishExecuteOnDestContext")
    BY <1>8 DEF ExecuteOnDestContext
  <2>2. UNCHANGED driver /\ k' = AfterCall
    BY <1>8 DEF ExecuteOnDestContext, Code, TestInv, IInv, CallsComeBeforeChecks
  <2>3. accounts \in KeptWorlds(deployed.accounts)
        /\ "finishExecuteOnDestContext" \in CallerInstr \ {"code"}
    BY DEF TestInv, WorldsKeepCode, CallerInstr
  <2> QED BY <2>1, <2>2, <2>3, CallInTest
<1>9. ASSUME StorageStore PROVE Goal
  <2>1. PICK v \in StorageValues :
          accounts' = [accounts EXCEPT ![callState.callee] =
                         [accounts[callState.callee] EXCEPT !.storage = v]]
    BY <1>9 DEF StorageStore
  <2>2. callState.instr = "code" /\ HostRest /\ UNCHANGED vmOutput
    BY <1>9 DEF StorageStore, Code
  <2>3. callState.callee \in Address => accounts[callState.callee] \in Account
    BY <1>0, <1>9 DEF StorageStore, IsAccount, Accounts
  <2>4. accounts[callState.callee] # NoAccount
    BY <1>9 DEF StorageStore, IsAccount
  <2> QED BY <1>0, <2>1, <2>2, <2>3, <2>4, SameCode, FieldInTest
<1> QED BY <1>1, <1>2, <1>3, <1>4, <1>5, <1>6, <1>7, <1>8, <1>9 DEF TestApi

LEMMA EndInTest ==
  ASSUME TestInv, stage = "run", EndWasm \/ Exception \/ FinishExecuteOnDestContext
  PROVE  OutputsAreConsumed' /\ WorldsKeepCode'
<1>0. /\ CallCells /\ callStack \in Seq(Consumers) /\ k = AfterCall
      /\ accounts \in KeptWorlds(deployed.accounts)
      /\ interimStates \in Seq(KeptWorlds(deployed.accounts))
  BY TypeGivesCells DEF TestInv, IInv, OutputsAreConsumed, WorldsKeepCode, EndWasm, Exception,
     FinishExecuteOnDestContext, Code, CallsComeBeforeChecks
<1>1. ASSUME EndWasm \/ Exception PROVE OutputsAreConsumed' /\ WorldsKeepCode'
  <2>1. callStack # <<>> /\ interimStates # <<>>
    BY <1>0, <1>1 DEF EndWasm, Exception, Code, CallCells, CallsAreNested
  <2>2. Pop /\ UNCHANGED <<driver, k>>
    BY <1>1 DEF EndWasm, Exception
  <2>3. callState' \in Consumers /\ callStack' \in Seq(Consumers)
    BY <1>0, <2>1, <2>2, PopFacts DEF Pop
  <2>4. interimStates' \in Seq(KeptWorlds(deployed.accounts))
    BY <1>0, <2>1, <2>2, PopFacts DEF Pop
  <2>5. accounts' \in KeptWorlds(deployed.accounts)
    BY <1>0, <1>1, <2>1, PopFacts DEF EndWasm, Exception, world
  <2>6. callState'.instr \notin {"code", "exception"}
    BY <1>0, <2>1, <2>2, <2>3, PopKeepsCells DEF Consumers, CallerInstr
  <2> QED BY <1>0, <2>2, <2>3, <2>4, <2>5, <2>6 DEF OutputsAreConsumed, WorldsKeepCode, driver
<1>2. ASSUME FinishExecuteOnDestContext PROVE OutputsAreConsumed' /\ WorldsKeepCode'
  BY <1>0, <1>2 DEF FinishExecuteOnDestContext, OutputsAreConsumed, WorldsKeepCode, driver, world
<1> QED BY <1>1, <1>2

LEMMA MandosInTest ==
  ASSUME TestInv, stage = "run",
         SetExitCode \/ SetAccount \/ NewAddress \/ DeployTx \/ CallTx \/ CheckExpectStatus
  PROVE  OutputsAreConsumed' /\ WorldsKeepCode'
<1>1. /\ k \in {TestSteps, ToCall, AfterCall, AtEnd} /\ k' = Tail(k) /\ callState.instr = "none"
      /\ UNCHANGED driver
  BY DEF TestInv, OutputsAreConsumed, SetExitCode, SetAccount, NewAddress, DeployTx, CallTx,
         CheckExpectStatus, StepIs, StepDone
<1>2. Head(k) \in {"setExitCode1", "callTx", "checkExpectStatus", "setExitCode0"}
  BY <1>1 DEF TestSteps, ToCall, AfterCall, AtEnd
<1>3. k' \in {ToCall, AfterCall, AtEnd, <<>>}
  <2>1. Tail(TestSteps) = ToCall
    BY DEF TestSteps, ToCall
  <2>2. Tail(ToCall) = AfterCall
    BY DEF ToCall, AfterCall
  <2>3. Tail(AfterCall) = AtEnd
    BY DEF AfterCall, AtEnd
  <2>4. Tail(AtEnd) = <<>>
    BY DEF AtEnd
  <2> QED BY <1>1, <2>1, <2>2, <2>3, <2>4
<1>4. TypeOK /\ accounts \in KeptWorlds(deployed.accounts)
  BY DEF TestInv, IInv, WorldsKeepCode
<1>5. CASE CallTx
  <2>1. /\ IsAccount(Root) /\ CallContract(Sent, Root, TestSc, 0, "none")
        /\ Head(k) = "callTx" /\ k # <<>>
    BY <1>5 DEF CallTx, StepIs
  <2>2. k' = AfterCall
    BY <1>1, <1>4, <2>1, StepsOf DEF TypeOK
  <2>3. Sent \in KeptWorlds(deployed.accounts)
    BY <1>4, <2>1, SentType, SentKeepsCode DEF KeptWorlds
  <2>4. TestSc \in Address /\ "none" \in CallerInstr \ {"code"}
    BY KasmerAssumption DEF CallerInstr
  <2> QED BY <1>1, <2>1, <2>2, <2>3, <2>4, CallInTest
<1>6. CASE SetExitCode \/ CheckExpectStatus
  BY <1>1, <1>3, <1>6 DEF SetExitCode, CheckExpectStatus, TestInv, OutputsAreConsumed,
                          WorldsKeepCode, driver, world, machine
<1>7. CASE SetAccount \/ NewAddress \/ DeployTx
  BY <1>2, <1>7 DEF SetAccount, NewAddress, DeployTx, StepIs
<1> QED BY <1>5, <1>6, <1>7

LEMMA InterpreterKeepsDriver ==
  ASSUME TypeOK, Interpreter PROVE UNCHANGED <<driver, wasmStore>>
<1>1. ASSUME SetExitCode \/ SetAccount \/ NewAddress \/ DeployTx \/ CallTx \/ CheckExpectStatus
      PROVE  UNCHANGED <<driver, wasmStore>>
  BY <1>1 DEF SetExitCode, SetAccount, NewAddress, DeployTx, CallTx, CheckExpectStatus, world
<1>2. ASSUME EndWasm \/ Exception \/ FinishExecuteOnDestContext \/ ExecuteOnDestContext
               \/ StorageStore \/ SignalError
      PROVE  UNCHANGED <<driver, wasmStore>>
  BY <1>2 DEF EndWasm, Exception, FinishExecuteOnDestContext, ExecuteOnDestContext, StorageStore,
              SignalError, HostRest, world
<1>3. ASSUME TestApi PROVE UNCHANGED <<driver, wasmStore>>
  BY <1>3 DEF TestApi, CalledByOther, CreateAccount, RegisterNewAddress, DeployContract,
              CannotDeploy, SetStorage, SetExternalBalance, SetESDTExternalBalance,
              SetESDTRole, NoEffect, AssertFails, AssumeFails, StartPrank, StopPrank, HostRest,
              world
<1> QED BY <1>1, <1>2, <1>3 DEF Interpreter

LEMMA TestInvInductive == ASSUME TestInv, [Next]_vars PROVE TestInv'
<1>0. IInv /\ IInv' /\ TypeOK /\ TypeOK'
  BY IInvInductive DEF TestInv, IInv
<1>1. CASE Interpreter
  <2>1. UNCHANGED <<driver, wasmStore>>
    BY <1>0, <1>1, InterpreterKeepsDriver
  <2>2. NothingToDeploy'
    BY <2>1 DEF TestInv, NothingToDeploy, driver
  <2>3. CASE stage = "run"
    <3>1. OutputsAreConsumed' /\ WorldsKeepCode'
      BY <1>0, <1>1, <2>3, CodeInTest, EndInTest, MandosInTest DEF Interpreter
    <3> QED BY <1>0, <2>2, <3>1 DEF TestInv
  <2>4. CASE stage # "run"
    BY <1>0, <2>1, <2>2, <2>4 DEF TestInv, OutputsAreConsumed, WorldsKeepCode, driver
  <2> QED BY <2>3, <2>4
<1>2. CASE TestWithKfuzz
  <2>1. /\ stage = "next" /\ stage' = "run" /\ UNCHANGED <<wasmStore, deployed>>
        /\ k' = TestSteps /\ callStack' = <<>> /\ interimStates' = <<>>
        /\ accounts' = deployed.accounts /\ callState'.instr = "none"
    BY <1>0, <1>2 DEF TestWithKfuzz, TypeOK
  <2>2. CodeKept(deployed.accounts, deployed.accounts) /\ deployed.accounts \in Accounts
    BY <1>0 DEF CodeKept, TypeOK, DeployedConfig
  <2>3. callStack' \in Seq(Consumers) /\ interimStates' \in Seq(KeptWorlds(deployed.accounts))
    BY <2>1
  <2> QED BY <1>0, <2>1, <2>2, <2>3 DEF TestInv, NothingToDeploy, OutputsAreConsumed,
                                        WorldsKeepCode, KeptWorlds
<1>3. CASE Program /\ ~TestWithKfuzz
  <2>1. /\ stage' # "run"
        /\ stage' = "next" =>
             \/ stage \in {"next", "run"} /\ UNCHANGED wasmStore
             \/ wasmStore' = {}
    BY <1>3 DEF Program, DeployTest, KasmerRunError, UnsupportedType, RunPasses, RunFails,
                EndpointPasses, AllPass, world
  <2> QED BY <1>0, <2>1 DEF TestInv, NothingToDeploy, OutputsAreConsumed, WorldsKeepCode
<1>4. CASE UNCHANGED vars
  BY <1>0, <1>4 DEF vars, driver, world, machine, TestInv, NothingToDeploy, OutputsAreConsumed,
                    WorldsKeepCode
<1> QED BY <1>1, <1>2, <1>3, <1>4 DEF Next

LEMMA InitTestInv == ASSUME Init PROVE TestInv
BY InitIInv DEF Init, TestInv, NothingToDeploy, OutputsAreConsumed, WorldsKeepCode

LEMMA TestInvHolds == Spec => []TestInv
<1>1. Init => TestInv
  BY InitTestInv
<1>2. TestInv /\ [Next]_vars => TestInv'
  BY TestInvInductive
<1> QED BY <1>1, <1>2, PTL DEF Spec

(* In a test an exception can always be reported and rolled back: no output  *)
(* of an earlier call is left when one is thrown, because deployContract,    *)
(* which leaves one, finds nothing to deploy (kasmer.py:118, kasmer.md:134). *)
THEOREM TestFailuresAreCaught == Spec => []FailuresInTestsAreCaught
<1>1. TestInv => FailuresInTestsAreCaught
  BY DEF TestInv, OutputsAreConsumed, FailuresInTestsAreCaught
<1> QED BY <1>1, TestInvHolds, PTL

(* The code of every account in a test is the one it had when deploy_test    *)
(* ended, or none: through every call, rollback and function of the test API.*)
THEOREM CodeComesFromInit == Spec => []ContractsComeFromInit
<1>1. TestInv => ContractsComeFromInit
  BY DEF TestInv, WorldsKeepCode, KeptWorlds, CodeKept, ContractsComeFromInit
<1> QED BY <1>1, TestInvHolds, PTL


(* --------------------------- The bottom of a stack ----------------------- *)

LEMMA BottomPushed ==
  ASSUME NEW S, NEW x \in S, NEW s \in Seq(S), NEW t, t = <<x>> \o s
  PROVE  t # <<>> /\ t[Len(t)] = (IF s = <<>> THEN x ELSE s[Len(s)])
<1>1. /\ t \in Seq(S) /\ t # <<>> /\ Len(t) = Len(s) + 1 /\ t[1] = x
      /\ \A i \in 2..Len(s) + 1 : t[i] = s[i - 1]
  BY PushFacts
<1>2. CASE s = <<>>
  <2>1. Len(t) = 1
    BY <1>1, <1>2, EmptySeq
  <2> QED BY <1>1, <1>2, <2>1
<1>3. CASE s # <<>>
  <2>1. Len(s) \in Nat \ {0}
    BY <1>3, EmptySeq
  <2>2. Len(s) + 1 \in 2..Len(s) + 1 /\ (Len(s) + 1) - 1 = Len(s)
    BY <2>1
  <2>3. t[Len(s) + 1] = s[(Len(s) + 1) - 1]
    BY <1>1, <2>2
  <2> QED BY <1>1, <1>3, <2>2, <2>3
<1> QED BY <1>2, <1>3

LEMMA BottomPopped ==
  ASSUME NEW S, NEW s \in Seq(S), s # <<>>, NEW t, t = Tail(s)
  PROVE  /\ t = <<>> => Head(s) = s[Len(s)]
         /\ t # <<>> => t[Len(t)] = s[Len(s)]
<1>1. /\ Head(s) = s[1] /\ t \in Seq(S) /\ Len(t) = Len(s) - 1 /\ Len(s) > 0
      /\ \A i \in 1..Len(s) - 1 : t[i] = s[i + 1]
      /\ t = <<>> <=> Len(s) = 1
  BY PopFacts
<1>2. ASSUME t # <<>> PROVE t[Len(t)] = s[Len(s)]
  <2>1. Len(s) \in Nat /\ Len(s) # 1
    BY <1>1, <1>2, EmptySeq
  <2>2. Len(s) - 1 \in 1..Len(s) - 1 /\ (Len(s) - 1) + 1 = Len(s)
    BY <1>1, <2>1
  <2>3. t[Len(s) - 1] = s[(Len(s) - 1) + 1]
    BY <1>1, <2>2
  <2> QED BY <1>1, <2>2, <2>3
<1> QED BY <1>1, <1>2

(* What code does to the stacks: it returns or throws in its own frame, ends *)
(* the run, or calls, with a world to come back to.                          *)
Waits(frame) ==
  \E instr \in {"code", "finishExecuteOnDestContext"} :
    frame = [callState EXCEPT !.instr = instr]
CallsOn(frame, w) ==
  /\ Waits(frame) /\ callStack' = <<frame>> \o callStack
  /\ w \in Accounts /\ interimStates' = <<w>> \o interimStates

LEMMA CodeStacks ==
  ASSUME TypeOK, TestApi \/ ExecuteOnDestContext \/ StorageStore \/ SignalError
  PROVE  /\ callState.instr = "code" /\ callStack # <<>> /\ interimStates # <<>>
         /\ \/ UNCHANGED <<k, callStack, interimStates, assumed>>
            \/ AssumeFails
            \/ /\ UNCHANGED <<k, assumed>>
               /\ \E frame \in Frame, w \in Accounts : CallsOn(frame, w)
<1> USE KasmerAssumption
<1> DEFINE Goal == \/ UNCHANGED <<k, callStack, interimStates, assumed>>
                   \/ AssumeFails
                   \/ /\ UNCHANGED <<k, assumed>>
                      /\ \E frame \in Frame, w \in Accounts : CallsOn(frame, w)
<1>1. callState.instr = "code"
  BY DEF TestApi, CalledByOther, CreateAccount, RegisterNewAddress, DeployContract,
         CannotDeploy, SetStorage, SetExternalBalance, SetESDTExternalBalance,
         SetESDTRole, NoEffect, AssertFails, AssumeFails, StartPrank, StopPrank,
         ExecuteOnDestContext, StorageStore, SignalError, Calls, Code
<1>2. callStack # <<>> /\ interimStates # <<>>
  BY <1>1, EmptySeq DEF TypeOK, CallsAreNested
<1>3. CASE DeployContract \/ ExecuteOnDestContext
  <2>1. PICK w \in Accounts, instr \in {"code", "finishExecuteOnDestContext"} :
          /\ interimStates' = <<w>> \o interimStates
          /\ callStack' = <<[callState EXCEPT !.instr = instr]>> \o callStack
    <3>1. CASE ExecuteOnDestContext
      <4>1. /\ interimStates' = <<accounts>> \o interimStates
            /\ callStack' = <<[callState EXCEPT !.instr = "finishExecuteOnDestContext"]>>
                              \o callStack
        BY <3>1 DEF ExecuteOnDestContext, CallContract
      <4> QED BY <4>1 DEF TypeOK
    <3>2. CASE DeployContract
      <4>1. PICK r \in Deployments, e \in newAddresses :
              CallContract(WithDeployed(accounts, e.new, r.owner, r.path),
                           r.owner, e.new, r.value, "code")
        BY <3>2 DEF DeployContract
      <4>2. WithDeployed(accounts, e.new, r.owner, r.path) \in Accounts
        BY WithDeployedType DEF TypeOK, AnyAddress, Module
      <4>3. PICK w : w = WithDeployed(accounts, e.new, r.owner, r.path)
        OBVIOUS
      <4>4. /\ interimStates' = <<w>> \o interimStates
            /\ callStack' = <<[callState EXCEPT !.instr = "code"]>> \o callStack
        BY <4>1, <4>3 DEF CallContract
      <4> QED BY <4>2, <4>3, <4>4
    <3> QED BY <1>3, <3>1, <3>2
  <2>2. [callState EXCEPT !.instr = instr] \in Frame
    BY InstrType DEF Instr
  <2>3. CallsOn([callState EXCEPT !.instr = instr], w)
    BY <2>1 DEF CallsOn, Waits
  <2> QED BY <1>1, <1>2, <1>3, <2>2, <2>3 DEF DeployContract, ExecuteOnDestContext
<1>4. CASE ~(DeployContract \/ ExecuteOnDestContext)
  BY <1>1, <1>2, <1>4 DEF TestApi, CalledByOther, CreateAccount, RegisterNewAddress,
         CannotDeploy, SetStorage, SetExternalBalance, SetESDTExternalBalance,
         SetESDTRole, NoEffect, AssertFails, StartPrank, StopPrank,
         StorageStore, SignalError, HostRest
<1> QED BY <1>3, <1>4

(* ------------------------ Failed runs are rolled back -------------------- *)

(* The world a run can be taken back to is the one its call was made in.     *)
RunStart == [deployed.accounts EXCEPT ![Root].nonce = @ + 1]
RollsBack ==
  stage = "run" =>
    /\ k \in {TestSteps, ToCall} => accounts = deployed.accounts
    /\ interimStates # <<>> => interimStates[Len(interimStates)] = RunStart
    /\ k = AfterCall /\ callStack = <<>> /\ vmOutput # "OK" => accounts = RunStart

LEMMA CallSteps ==
  /\ AfterCall \notin {TestSteps, ToCall} /\ AtEnd \notin {TestSteps, ToCall, AfterCall}
  /\ <<>> \notin {TestSteps, ToCall, AfterCall, AtEnd}
  /\ Tail(TestSteps) = ToCall /\ Tail(ToCall) = AfterCall /\ Tail(AfterCall) = AtEnd
  /\ Tail(AtEnd) = <<>>
  /\ Head(ToCall) = "callTx"
<1>1. Len(TestSteps) = 4 /\ Len(ToCall) = 3 /\ Len(AfterCall) = 2 /\ Len(AtEnd) = 1
  BY DEF TestSteps, ToCall, AfterCall, AtEnd
<1>2. Tail(TestSteps) = ToCall
  BY DEF TestSteps, ToCall
<1>3. Tail(ToCall) = AfterCall /\ Head(ToCall) = "callTx"
  BY DEF ToCall, AfterCall
<1>4. Tail(AfterCall) = AtEnd
  BY DEF AfterCall, AtEnd
<1>5. Tail(AtEnd) = <<>>
  BY DEF AtEnd
<1>6. <<>> \notin {TestSteps, ToCall, AfterCall, AtEnd}
  BY DEF TestSteps, ToCall, AfterCall, AtEnd
<1> QED BY <1>1, <1>2, <1>3, <1>4, <1>5, <1>6

(* The Mandos steps of a run, in order.                                      *)
LEMMA RunSteps ==
  ASSUME TestInv, stage = "run",
         SetExitCode \/ SetAccount \/ NewAddress \/ DeployTx \/ CallTx \/ CheckExpectStatus
  PROVE  /\ callState.instr = "none" /\ callStack = <<>> /\ interimStates = <<>>
         /\ UNCHANGED <<driver, assumed>> /\ k # <<>> /\ k' = Tail(k)
         /\ \/ SetExitCode /\ k = TestSteps /\ exitCode' = 1
            \/ SetExitCode /\ k = AtEnd /\ exitCode' = 0
            \/ CallTx /\ k = ToCall
            \/ CheckExpectStatus /\ k = AfterCall
<1>1. /\ k \in {TestSteps, ToCall, AfterCall, AtEnd} /\ k # <<>> /\ k' = Tail(k)
      /\ callState.instr = "none" /\ UNCHANGED <<driver, assumed>>
  BY DEF TestInv, OutputsAreConsumed, SetExitCode, SetAccount, NewAddress, DeployTx, CallTx,
         CheckExpectStatus, StepIs, StepDone, machine
<1>2. callStack = <<>> /\ interimStates = <<>>
  <2>1. callStack = <<>> /\ Len(interimStates) = 0 /\ interimStates \in Seq(Accounts)
    BY <1>1, EmptySeq DEF TestInv, IInv, TypeOK, CallsAreNested
  <2> QED BY <2>1, EmptySeq
<1>3. k \in StepLists /\ Head(k) \in {"setExitCode1", "callTx", "checkExpectStatus",
                                      "setExitCode0"}
  BY <1>1 DEF TestInv, IInv, TypeOK, TestSteps, ToCall, AfterCall, AtEnd
<1>4. /\ k = TestSteps <=> Head(k) = "setExitCode1"
      /\ k = ToCall <=> Head(k) = "callTx"
      /\ k = AfterCall <=> Head(k) = "checkExpectStatus"
      /\ k = AtEnd <=> Head(k) = "setExitCode0"
  BY <1>1 DEF TestSteps, ToCall, AfterCall, AtEnd
<1>5. CASE SetExitCode \/ CallTx \/ CheckExpectStatus
  BY <1>1, <1>2, <1>4, <1>5 DEF SetExitCode, CallTx, CheckExpectStatus, StepIs
<1>6. CASE SetAccount \/ NewAddress \/ DeployTx
  BY <1>3, <1>6 DEF SetAccount, NewAddress, DeployTx, StepIs
<1> QED BY <1>5, <1>6

LEMMA MandosRollsBack ==
  ASSUME TestInv, RollsBack, stage = "run",
         SetExitCode \/ SetAccount \/ NewAddress \/ DeployTx \/ CallTx \/ CheckExpectStatus
  PROVE  RollsBack'
<1>1. /\ callStack = <<>> /\ interimStates = <<>> /\ UNCHANGED driver /\ k' = Tail(k)
      /\ \/ SetExitCode /\ k \in {TestSteps, AtEnd}
         \/ CallTx /\ k = ToCall
         \/ CheckExpectStatus /\ k = AfterCall
  BY RunSteps
<1>2. RunStart' = RunStart
  BY <1>1 DEF RunStart, driver
<1>3. CASE \/ SetExitCode /\ k \in {TestSteps, AtEnd}
           \/ CheckExpectStatus /\ k = AfterCall
  <2>1. UNCHANGED <<accounts, callStack, interimStates>>
    BY <1>3 DEF SetExitCode, CheckExpectStatus, world, machine
  <2>2. k' # AfterCall /\ (k' \in {TestSteps, ToCall} => k = TestSteps)
    BY <1>1, <1>3, CallSteps
  <2> QED BY <1>1, <1>2, <2>1, <2>2 DEF RollsBack, driver
<1>4. CASE CallTx /\ k = ToCall
  <2>1. /\ IsAccount(Root) /\ CallContract(Sent, Root, TestSc, 0, "none")
        /\ k = ToCall /\ k' = AfterCall
    BY <1>1, <1>4, CallSteps DEF CallTx
  <2>2. Sent = RunStart /\ Sent \in Accounts
    BY <2>1, SentType DEF RollsBack, Sent, RunStart, TestInv, IInv
  <2>3. PICK w \in Accounts : w = RunStart
    BY <2>2
  <2>4. PICK frame : frame = [callState EXCEPT !.instr = "none"]
    OBVIOUS
  <2>5. frame \in Frame
    BY <2>4, InstrType, InstrNames DEF TestInv, IInv
  <2>6. interimStates' = <<w>> \o interimStates /\ callStack' = <<frame>> \o callStack
    BY <2>1, <2>2, <2>3, <2>4 DEF CallContract
  <2>7. interimStates'[Len(interimStates')] = w
    BY <1>1, <2>6, BottomPushed DEF TestInv, IInv, TypeOK
  <2>8. callStack' # <<>>
    BY <2>5, <2>6, BottomPushed DEF TestInv, IInv, TypeOK
  <2> QED BY <1>2, <2>1, <2>3, <2>7, <2>8, CallSteps DEF RollsBack
<1> QED BY <1>1, <1>3, <1>4

LEMMA CodeRollsBack ==
  ASSUME TestInv, RollsBack, stage = "run",
         TestApi \/ ExecuteOnDestContext \/ StorageStore \/ SignalError
  PROVE  RollsBack'
<1>1. /\ TypeOK /\ callState.instr # "none" /\ UNCHANGED driver /\ callStack # <<>>
      /\ k = AfterCall /\ interimStates # <<>>
  BY CodeKeepsSteps, CodeStacks DEF TestInv, IInv, CallsComeBeforeChecks
<1>2. RunStart' = RunStart
  BY <1>1 DEF RunStart, driver
<1>3. CASE UNCHANGED <<k, callStack, interimStates, assumed>>
  BY <1>1, <1>2, <1>3, CallSteps DEF RollsBack, driver
<1>4. CASE AssumeFails
  BY <1>4, CallSteps DEF AssumeFails, RollsBack
<1>5. ASSUME UNCHANGED <<k, assumed>>, NEW frame \in Frame, NEW w \in Accounts,
             CallsOn(frame, w)
      PROVE  RollsBack'
  <2>1. interimStates'[Len(interimStates')] = interimStates[Len(interimStates)]
    BY <1>1, <1>5, BottomPushed DEF CallsOn, TypeOK
  <2>2. callStack' # <<>>
    BY <1>5, BottomPushed DEF CallsOn, TestInv, IInv, TypeOK
  <2> QED BY <1>1, <1>2, <1>5, <2>1, <2>2, CallSteps DEF RollsBack, driver
<1> QED BY <1>1, <1>3, <1>4, <1>5, CodeStacks

LEMMA EndRollsBack ==
  ASSUME TestInv, RollsBack, stage = "run", EndWasm \/ Exception \/ FinishExecuteOnDestContext
  PROVE  RollsBack'
<1>1. /\ TypeOK /\ callState.instr # "none" /\ UNCHANGED driver /\ k = AfterCall
      /\ k' = k /\ callStack # <<>> /\ interimStates # <<>>
      /\ interimStates \in Seq(Accounts) /\ callStack \in Seq(Frame)
      /\ Len(callStack) = Len(interimStates)
  <2>1. TypeOK /\ callState.instr # "none" /\ UNCHANGED driver /\ k = AfterCall /\ k' = k
    BY CodeKeepsSteps DEF TestInv, IInv, CallsComeBeforeChecks, EndWasm, Exception,
                          FinishExecuteOnDestContext
  <2> QED BY <2>1, EmptySeq DEF TypeOK, CallsAreNested
<1>2. RunStart' = RunStart
  BY <1>1 DEF RunStart, driver
<1>3. CASE FinishExecuteOnDestContext
  BY <1>1, <1>2, <1>3, CallSteps DEF FinishExecuteOnDestContext, RollsBack, driver, world
<1>4. CASE EndWasm \/ Exception
  <2>1. callStack' = Tail(callStack) /\ interimStates' = Tail(interimStates)
    BY <1>4 DEF EndWasm, Exception, Pop
  <2>2. /\ interimStates' = <<>> => Head(interimStates) = interimStates[Len(interimStates)]
        /\ interimStates' # <<>> =>
             interimStates'[Len(interimStates')] = interimStates[Len(interimStates)]
    BY <1>1, <2>1, BottomPopped
  <2>3. callStack' = <<>> => interimStates' = <<>>
    BY <1>1, <2>1, PopFacts
  <2>4. vmOutput' # "OK" => accounts' = Head(interimStates)
    BY <1>4 DEF EndWasm, Exception
  <2> QED BY <1>1, <1>2, <2>2, <2>3, <2>4, CallSteps DEF RollsBack, driver
<1> QED BY <1>3, <1>4

LEMMA RollsBackInductive ==
  ASSUME TestInv, RollsBack, [Next]_vars PROVE RollsBack'
<1>0. TypeOK
  BY DEF TestInv, IInv
<1>1. CASE Interpreter
  <2>1. CASE stage = "run"
    BY <1>1, <2>1, MandosRollsBack, CodeRollsBack, EndRollsBack DEF Interpreter
  <2>2. CASE stage # "run"
    <3>1. UNCHANGED stage
      BY <1>0, <1>1, InterpreterKeepsDriver DEF driver
    <3> QED BY <2>2, <3>1 DEF RollsBack
  <2> QED BY <2>1, <2>2
<1>2. CASE TestWithKfuzz
  BY <1>2, CallSteps DEF TestWithKfuzz, RollsBack
<1>3. CASE Program /\ ~TestWithKfuzz
  BY <1>3 DEF Program, DeployTest, KasmerRunError, UnsupportedType, RunPasses, RunFails,
              EndpointPasses, AllPass, RollsBack
<1>4. CASE UNCHANGED vars
  BY <1>4 DEF vars, driver, world, machine, RollsBack, RunStart
<1> QED BY <1>1, <1>2, <1>3, <1>4 DEF Next

(* When the call of a test fails, the accounts are those that deploy_test    *)
(* left, but for the nonce of the sender: all that the test API, calls at    *)
(* any depth and their own rollbacks changed is taken back (kasmer.md,       *)
(* kasmer.py:293-315), whatever the test and the contracts do.               *)
THEOREM FailedRunsAreRolledBack == Spec => []FailedTestsAreRolledBack
<1>1. Init => RollsBack
  BY DEF Init, RollsBack
<1>2. TestInv /\ RollsBack /\ [Next]_vars => RollsBack'
  BY RollsBackInductive
<1>3. RollsBack => FailedTestsAreRolledBack
  BY CallSteps DEF RollsBack, FailedTestsAreRolledBack, RunStart
<1> QED BY <1>1, <1>2, <1>3, TestInvHolds, PTL DEF Spec

(* ------------------------------ Impersonation ---------------------------- *)

(* The prank functions are the test contract's, and no call comes back to it.*)
NoForeignPranks ==
  ContractImports \cap {"startPrank", "stopPrank"} = {} /\ TestSc \notin Callees

(* Who acts in a frame: a contract as itself, or the test contract as an     *)
(* account it impersonates.                                                  *)
Contracts == {TestSc} \cup Callees \cup {r.new : r \in Registrations}
Acts(frame) ==
  \/ frame.callee = frame.runner /\ frame.runner \in Contracts
  \/ frame.runner = TestSc /\ frame.callee \in Pranks
FailedCall == [Idle EXCEPT !.instr = "exception"]
KnownAddresses == {[creator |-> Root, nonce |-> 1, new |-> TestSc]} \cup Registrations
AddressesAreKnown ==
  newAddresses \subseteq KnownAddresses /\ deployed.newAddresses \subseteq KnownAddresses
FramesAct ==
  Running =>
    /\ callState.instr # "none" => Acts(callState) \/ callState = FailedCall
    /\ \A i \in 1..Len(callStack) : callStack[i].instr # "none" => Acts(callStack[i])

(* While a frame impersonates, its prank is open, and no code of the test    *)
(* contract runs, or waits, above it, which could close it.                  *)
Impersonates(frame) == frame.instr # "none" /\ frame.callee # frame.runner
PranksAreOpen ==
  Running =>
    /\ Impersonates(callState) => prank
    /\ \A i \in 1..Len(callStack) : Impersonates(callStack[i]) =>
         /\ prank /\ callState.runner # TestSc
         /\ \A j \in 1..Len(callStack) : j < i => callStack[j].runner # TestSc
PrankInv == AddressesAreKnown /\ FramesAct /\ PranksAreOpen

(* What code does to the frame it runs in, and to <prank>.                   *)
Stays ==
  /\ callState'.callee = callState.callee /\ callState'.runner = callState.runner
  /\ callState'.instr # "none" /\ UNCHANGED <<callStack, prank>>
StartsPrank ==
  /\ callState.runner = TestSc /\ callState'.runner = TestSc /\ callState'.callee \in Pranks
  /\ prank' /\ UNCHANGED callStack
StopsPrank ==
  /\ callState.runner = TestSc /\ callState'.runner = TestSc /\ callState'.callee = TestSc
  /\ UNCHANGED callStack
Calling(frame, to) ==
  /\ frame.callee = callState.callee /\ frame.runner = callState.runner
  /\ frame.instr # "none" /\ callStack' = <<frame>> \o callStack
  /\ to \in Contracts /\ (callState.callee = TestSc \/ to # TestSc)
  /\ callState' \in {FailedCall, [callee |-> to, runner |-> to, instr |-> "code"]}
  /\ UNCHANGED prank

LEMMA CodeActs ==
  ASSUME NoForeignPranks, TypeOK, AddressesAreKnown,
         TestApi \/ ExecuteOnDestContext \/ StorageStore \/ SignalError
  PROVE  \/ Stays \/ StartsPrank \/ StopsPrank \/ AssumeFails
         \/ \E frame \in Frame, to \in Contracts : Calling(frame, to)
<1> USE KasmerAssumption
<1>1. callState.instr = "code" /\ callState \in Frame
  BY CodeStacks DEF TypeOK
<1>2. ASSUME HostRest, UNCHANGED prank,
             Throws \/ Succeeds \/ callState' = [callState EXCEPT !.instr = "stuck"]
      PROVE  Stays
  BY <1>1, <1>2 DEF HostRest, Throws, Succeeds, Stays, Frame
<1>3. ASSUME NEW accts, NEW from, NEW to, NEW value,
             NEW instr \in {"code", "finishExecuteOnDestContext"},
             CallContract(accts, from, to, value, instr), UNCHANGED prank,
             to \in Contracts, callState.callee = TestSc \/ to # TestSc
      PROVE  \E frame \in Frame, dest \in Contracts : Calling(frame, dest)
  <2>1. PICK frame : frame = [callState EXCEPT !.instr = instr]
    OBVIOUS
  <2>2. /\ frame \in Frame /\ frame.instr # "none"
        /\ frame.callee = callState.callee /\ frame.runner = callState.runner
    BY <1>1, <2>1 DEF Frame, Instr
  <2>3. callStack' = <<frame>> \o callStack
    BY <1>3, <2>1 DEF CallContract
  <2>4. callState' \in {FailedCall, [callee |-> to, runner |-> to, instr |-> "code"]}
    BY <1>3 DEF CallContract, FailedCall
  <2>5. Calling(frame, to)
    BY <1>3, <2>2, <2>3, <2>4 DEF Calling
  <2> QED BY <1>3, <2>2, <2>5
<1>4. CASE CalledByOther \/ CreateAccount \/ RegisterNewAddress \/ CannotDeploy \/ SetStorage
             \/ SetExternalBalance \/ SetESDTExternalBalance \/ SetESDTRole \/ NoEffect
             \/ AssertFails \/ StorageStore \/ SignalError
  BY <1>2, <1>4 DEF CalledByOther, CreateAccount, RegisterNewAddress, CannotDeploy,
         SetStorage, SetExternalBalance, SetESDTExternalBalance, SetESDTRole, NoEffect,
         AssertFails, StorageStore, SignalError
<1>5. CASE DeployContract
  <2>1. PICK r \in Deployments, e \in newAddresses :
          CallContract(WithDeployed(accounts, e.new, r.owner, r.path),
                       r.owner, e.new, r.value, "code")
    BY <1>5 DEF DeployContract
  <2>2. e.new \in Contracts
    <3>1. e \in KnownAddresses
      BY DEF AddressesAreKnown
    <3> QED BY <3>1 DEF KnownAddresses, Contracts
  <2>3. UNCHANGED prank /\ callState.callee = TestSc
    BY <1>5 DEF DeployContract, IsRunner
  <2> QED BY <1>3, <2>1, <2>2, <2>3
<1>6. CASE ExecuteOnDestContext
  <2>1. PICK to \in Callees :
          CallContract(accounts, callState.callee, to, 0, "finishExecuteOnDestContext")
    BY <1>6 DEF ExecuteOnDestContext
  <2>2. to \in Contracts /\ to # TestSc /\ UNCHANGED prank
    BY <1>6 DEF Contracts, NoForeignPranks, ExecuteOnDestContext
  <2> QED BY <1>3, <2>1, <2>2
<1>7. CASE StartPrank
  <2>1. callState.runner = TestSc /\ HostRest
    BY <1>7 DEF StartPrank, Calls, NoForeignPranks
  <2>2. CASE prank
    BY <1>2, <1>7, <2>1, <2>2 DEF StartPrank
  <2>3. CASE ~prank
    BY <1>1, <1>7, <2>1, <2>3 DEF StartPrank, HostRest, StartsPrank, Frame
  <2> QED BY <2>2, <2>3
<1>8. CASE StopPrank
  <2>1. callState.runner = TestSc /\ HostRest
    BY <1>8 DEF StopPrank, Calls, NoForeignPranks
  <2>2. CASE prank
    BY <1>1, <1>8, <2>1, <2>2 DEF StopPrank, HostRest, StopsPrank, Frame
  <2>3. CASE ~prank
    BY <1>2, <1>8, <2>1, <2>3 DEF StopPrank
  <2> QED BY <2>2, <2>3
<1> QED BY <1>4, <1>5, <1>6, <1>7, <1>8 DEF TestApi

LEMMA FailedCallIs ==
  /\ FailedCall.callee = NoAddress /\ FailedCall.runner = NoAddress
  /\ FailedCall.instr = "exception" /\ NoAddress # TestSc
BY KasmerAssumption DEF FailedCall, Idle

LEMMA CallingKeepsPranks ==
  ASSUME TypeOK, FramesAct, PranksAreOpen, Running, callState.instr = "code",
         NEW frame \in Frame, NEW to, Calling(frame, to)
  PROVE  FramesAct' /\ PranksAreOpen'
<1>1. /\ callStack' \in Seq(Frame) /\ Len(callStack') = Len(callStack) + 1
      /\ callStack'[1] = frame /\ Len(callStack) \in Nat
      /\ \A i \in 2..Len(callStack) + 1 : callStack'[i] = callStack[i - 1]
  BY PushFacts DEF Calling, TypeOK
<1>2. Acts(callState) /\ Acts(frame)
  <2>1. Acts(callState)
    BY FailedCallIs DEF FramesAct
  <2> QED BY <2>1 DEF Acts, Calling
<1>3. Acts(callState') \/ callState' = FailedCall
  BY DEF Calling, Acts
<1>4. FramesAct'
  <2>1. \A i \in 1..Len(callStack') : callStack'[i].instr # "none" => Acts(callStack'[i])
    <3> SUFFICES ASSUME NEW i \in 1..Len(callStack'), callStack'[i].instr # "none"
                 PROVE  Acts(callStack'[i])
      OBVIOUS
    <3>1. CASE i = 1
      BY <1>1, <1>2, <3>1
    <3>2. CASE i # 1
      <4>1. i \in 2..Len(callStack) + 1 /\ i - 1 \in 1..Len(callStack)
        BY <1>1, <3>2
      <4>2. callStack'[i] = callStack[i - 1]
        BY <1>1, <4>1
      <4> QED BY <4>1, <4>2 DEF FramesAct
    <3> QED BY <3>1, <3>2
  <2> QED BY <1>3, <2>1 DEF FramesAct, Acts
<1>5. ~Impersonates(callState')
  BY FailedCallIs DEF Calling, Impersonates
<1>6. ASSUME NEW i \in 1..Len(callStack'), Impersonates(callStack'[i])
      PROVE  /\ prank' /\ callState'.runner # TestSc
             /\ \A j \in 1..Len(callStack') : j < i => callStack'[j].runner # TestSc
  <2>1. ASSUME callState.callee # TestSc PROVE callState'.runner # TestSc
    BY <2>1, FailedCallIs DEF Calling
  <2>2. ASSUME callState.callee = TestSc, callState.runner # TestSc PROVE FALSE
    BY <1>2, <2>2 DEF Acts
  <2>3. CASE i = 1
    <3>1. callState.callee # callState.runner /\ Impersonates(callState)
      BY <1>1, <1>6, <2>3 DEF Impersonates, Calling
    <3>2. prank' /\ callState.callee # TestSc
      BY <2>2, <3>1 DEF PranksAreOpen, Calling
    <3> QED BY <2>1, <2>3, <3>2
  <2>4. CASE i # 1
    <3>1. i \in 2..Len(callStack) + 1 /\ i - 1 \in 1..Len(callStack)
      BY <1>1, <2>4
    <3>2. callStack'[i] = callStack[i - 1]
      BY <1>1, <3>1
    <3>3. /\ prank /\ callState.runner # TestSc
          /\ \A j \in 1..Len(callStack) : j < i - 1 => callStack[j].runner # TestSc
      BY <1>6, <3>1, <3>2 DEF PranksAreOpen
    <3>4. prank' /\ callState'.runner # TestSc /\ frame.runner # TestSc
      BY <2>1, <2>2, <3>3 DEF Calling
    <3>5. ASSUME NEW j \in 1..Len(callStack'), j < i PROVE callStack'[j].runner # TestSc
      <4>1. CASE j = 1
        BY <1>1, <3>4, <4>1
      <4>2. CASE j # 1
        <5>1. /\ j \in 2..Len(callStack) + 1 /\ j - 1 \in 1..Len(callStack)
              /\ j - 1 < i - 1
          BY <1>1, <3>1, <3>5, <4>2
        <5>2. callStack'[j] = callStack[j - 1]
          BY <1>1, <5>1
        <5> QED BY <3>3, <5>1, <5>2
      <4> QED BY <4>1, <4>2
    <3> QED BY <3>4, <3>5
  <2> QED BY <2>3, <2>4
<1> QED BY <1>4, <1>5, <1>6 DEF PranksAreOpen, Impersonates

LEMMA PopKeepsPranks ==
  ASSUME TypeOK, FramesAct, PranksAreOpen, Running, callStack # <<>>, Pop, UNCHANGED prank
  PROVE  FramesAct' /\ PranksAreOpen'
<1>1. /\ callState' = callStack[1] /\ Len(callStack) > 0 /\ Len(callStack) \in Nat
      /\ callStack' \in Seq(Frame) /\ Len(callStack') = Len(callStack) - 1
      /\ \A i \in 1..Len(callStack) - 1 : callStack'[i] = callStack[i + 1]
  BY PopFacts DEF Pop, TypeOK
<1>2. 1 \in 1..Len(callStack)
  BY <1>1
<1>3. callState'.instr # "none" => Acts(callState')
  BY <1>1, <1>2 DEF FramesAct
<1>4. ASSUME NEW i \in 1..Len(callStack')
      PROVE  i + 1 \in 1..Len(callStack) /\ callStack'[i] = callStack[i + 1]
  <2>1. i \in 1..Len(callStack) - 1 /\ i + 1 \in 1..Len(callStack)
    BY <1>1
  <2> QED BY <1>1, <2>1
<1>5. FramesAct'
  <2>1. \A i \in 1..Len(callStack') : callStack'[i].instr # "none" => Acts(callStack'[i])
    BY <1>4 DEF FramesAct
  <2> QED BY <1>3, <2>1 DEF FramesAct, Acts
<1>6. Impersonates(callState') => prank'
  BY <1>1, <1>2 DEF PranksAreOpen
<1>7. ASSUME NEW i \in 1..Len(callStack'), Impersonates(callStack'[i])
      PROVE  /\ prank' /\ callState'.runner # TestSc
             /\ \A j \in 1..Len(callStack') : j < i => callStack'[j].runner # TestSc
  <2>1. i + 1 \in 1..Len(callStack) /\ Impersonates(callStack[i + 1]) /\ 1 < i + 1
    BY <1>1, <1>4, <1>7
  <2>2. prank /\ \A j \in 1..Len(callStack) : j < i + 1 => callStack[j].runner # TestSc
    BY <2>1 DEF PranksAreOpen
  <2>3. prank' /\ callState'.runner # TestSc
    BY <1>1, <1>2, <2>1, <2>2
  <2>4. ASSUME NEW j \in 1..Len(callStack'), j < i PROVE callStack'[j].runner # TestSc
    <3>1. j + 1 \in 1..Len(callStack) /\ callStack'[j] = callStack[j + 1] /\ j + 1 < i + 1
      BY <1>1, <1>4, <2>4
    <3> QED BY <2>2, <3>1
  <2> QED BY <2>3, <2>4
<1> QED BY <1>5, <1>6, <1>7 DEF PranksAreOpen, Impersonates

(* The first call of a transaction: nobody acts below it.                    *)
LEMMA FirstCallKeepsPranks ==
  ASSUME TypeOK, callState.instr = "none", NEW accts, NEW from, NEW to \in Contracts, NEW value,
         CallContract(accts, from, to, value, "none")
  PROVE  FramesAct' /\ PranksAreOpen'
<1>1. PICK frame : frame = [callState EXCEPT !.instr = "none"]
  OBVIOUS
<1>2. frame \in Frame /\ frame.instr = "none"
  BY <1>1, InstrType, InstrNames
<1>3. callStack' = <<frame>> \o callStack /\ callStack = <<>>
  BY <1>1 DEF CallContract, TypeOK, CallsAreNested
<1>4. Len(callStack') = 1 /\ callStack'[1] = frame
  BY <1>2, <1>3, PushFacts, EmptySeq DEF TypeOK
<1>5. \A i \in 1..Len(callStack') : callStack'[i].instr = "none"
  BY <1>2, <1>4
<1>6. callState' \in {FailedCall, [callee |-> to, runner |-> to, instr |-> "code"]}
  BY DEF CallContract, FailedCall
<1>7. Acts(callState') \/ callState' = FailedCall
  BY <1>6 DEF Acts
<1>8. ~Impersonates(callState')
  BY <1>6, FailedCallIs DEF Impersonates
<1>9. FramesAct'
  BY <1>5, <1>7 DEF FramesAct, Acts
<1> QED BY <1>5, <1>8, <1>9 DEF PranksAreOpen, Impersonates

LEMMA NoFrames ==
  ASSUME callStack' = <<>>, callState'.instr = "none" PROVE FramesAct' /\ PranksAreOpen'
<1>1. Len(callStack') = 0
  BY EmptySeq
<1> QED BY <1>1 DEF FramesAct, PranksAreOpen, Impersonates

LEMMA FrameKeepsPranks ==
  ASSUME TypeOK, FramesAct, PranksAreOpen, Running, callState.instr = "code",
         Stays \/ StartsPrank \/ StopsPrank
  PROVE  FramesAct' /\ PranksAreOpen'
<1>1. Acts(callState) /\ UNCHANGED callStack
  BY FailedCallIs DEF FramesAct, Stays, StartsPrank, StopsPrank
<1>2. Acts(callState')
  BY <1>1 DEF Acts, Stays, StartsPrank, StopsPrank, Contracts
<1>3. FramesAct'
  BY <1>1, <1>2 DEF FramesAct, Acts
<1>4. ASSUME Stays PROVE PranksAreOpen'
  BY <1>1, <1>4 DEF Stays, PranksAreOpen, Impersonates
<1>5. ASSUME StartsPrank \/ StopsPrank PROVE PranksAreOpen'
  <2>1. callState.runner = TestSc /\ (Impersonates(callState') => prank')
    BY <1>5 DEF StartsPrank, StopsPrank, Impersonates
  <2>2. \A i \in 1..Len(callStack) : ~Impersonates(callStack[i])
    BY <2>1 DEF PranksAreOpen
  <2> QED BY <1>1, <2>1, <2>2 DEF PranksAreOpen, Impersonates
<1> QED BY <1>3, <1>4, <1>5

LEMMA AddressesStayKnown ==
  ASSUME AddressesAreKnown, TypeOK, [Next]_vars PROVE AddressesAreKnown'
<1>1. ASSUME NEW c, NEW n, NEW a, [creator |-> c, nonce |-> n, new |-> a] \in KnownAddresses,
             SetNewAddress(c, n, a)
      PROVE  newAddresses' \subseteq KnownAddresses
  BY <1>1 DEF SetNewAddress, AddressesAreKnown
<1>2. CASE Interpreter
  <2>0. UNCHANGED deployed
    BY <1>2, InterpreterKeepsDriver DEF driver
  <2>1. CASE NewAddress
    BY <1>1, <2>0, <2>1 DEF NewAddress, KnownAddresses, AddressesAreKnown
  <2>2. CASE RegisterNewAddress
    <3>1. PICK r \in Registrations : SetNewAddress(r.creator, r.nonce, r.new)
      BY <2>2 DEF RegisterNewAddress
    <3>2. r = [creator |-> r.creator, nonce |-> r.nonce, new |-> r.new] /\ r \in KnownAddresses
      BY <3>1, KasmerAssumption DEF KnownAddresses, NewAddressEntry
    <3> QED BY <1>1, <2>0, <3>1, <3>2 DEF AddressesAreKnown
  <2>3. CASE ~NewAddress /\ ~RegisterNewAddress
    <3>1. ASSUME TestApi PROVE UNCHANGED newAddresses
      BY <2>3, <3>1 DEF TestApi, CalledByOther, CreateAccount, DeployContract,
         CannotDeploy, SetStorage, SetExternalBalance, SetESDTExternalBalance,
         SetESDTRole, NoEffect, AssertFails, AssumeFails, StartPrank, StopPrank, world
    <3>2. ASSUME ~TestApi PROVE UNCHANGED newAddresses
      BY <1>2, <2>3, <3>2 DEF Interpreter, SetExitCode, SetAccount, DeployTx, CallTx,
         CheckExpectStatus, EndWasm, Exception, FinishExecuteOnDestContext,
         ExecuteOnDestContext, StorageStore, SignalError, world
    <3> QED BY <2>0, <3>1, <3>2 DEF AddressesAreKnown
  <2> QED BY <2>1, <2>2, <2>3
<1>3. CASE Program
  <2>1. CASE DeployTest \/ TestWithKfuzz
    BY <2>1 DEF DeployTest, TestWithKfuzz, AddressesAreKnown
  <2>2. CASE ~DeployTest /\ ~TestWithKfuzz
    BY <1>3, <2>2 DEF Program, KasmerRunError, UnsupportedType, RunPasses, RunFails,
         EndpointPasses, AllPass, AddressesAreKnown, world
  <2> QED BY <2>1, <2>2
<1>4. CASE UNCHANGED vars
  BY <1>4 DEF vars, driver, world, AddressesAreKnown
<1> QED BY <1>2, <1>3, <1>4 DEF Next

LEMMA PrankInvInductive ==
  ASSUME NoForeignPranks, TypeOK, PrankInv, [Next]_vars PROVE PrankInv'
<1>0. AddressesAreKnown /\ FramesAct /\ PranksAreOpen /\ AddressesAreKnown'
  BY AddressesStayKnown DEF PrankInv
<1>1. CASE Interpreter
  <2>0. UNCHANGED driver /\ (Running' <=> Running)
    BY <1>1, InterpreterKeepsDriver DEF driver, Running
  <2>1. CASE SetExitCode \/ SetAccount \/ NewAddress \/ CheckExpectStatus
    <3>1. callState.instr = "none" /\ UNCHANGED <<callState, callStack, prank>>
      BY <2>1 DEF SetExitCode, SetAccount, NewAddress, CheckExpectStatus, StepIs, machine
    <3> QED BY <1>0, <2>0, <3>1 DEF PrankInv, FramesAct, PranksAreOpen, Acts, Impersonates
  <2>2. CASE DeployTx
    <3>1. PICK e \in newAddresses :
            CallContract(WithDeployed(Sent, e.new, Root, TestWasm), Root, e.new, 0, "none")
      BY <2>2 DEF DeployTx
    <3>2. e.new \in Contracts
      <4>1. e \in KnownAddresses
        BY <1>0 DEF AddressesAreKnown
      <4> QED BY <4>1 DEF KnownAddresses, Contracts
    <3>3. callState.instr = "none"
      BY <2>2 DEF DeployTx, StepIs
    <3> QED BY <1>0, <3>1, <3>2, <3>3, FirstCallKeepsPranks DEF PrankInv
  <2>3. CASE CallTx
    <3>1. CallContract(Sent, Root, TestSc, 0, "none") /\ callState.instr = "none"
          /\ TestSc \in Contracts
      BY <2>3 DEF CallTx, StepIs, Contracts
    <3> QED BY <1>0, <3>1, FirstCallKeepsPranks DEF PrankInv
  <2>4. CASE EndWasm \/ Exception
    <3>1. /\ callState.instr # "none" /\ Pop /\ UNCHANGED prank /\ Running
      BY <2>4 DEF EndWasm, Exception, Code
    <3>2. callStack # <<>>
      BY <3>1 DEF TypeOK, CallsAreNested
    <3> QED BY <1>0, <3>1, <3>2, PopKeepsPranks DEF PrankInv
  <2>5. CASE FinishExecuteOnDestContext
    <3>1. /\ callState.instr = "finishExecuteOnDestContext" /\ Running
          /\ callState'.callee = callState.callee /\ callState'.runner = callState.runner
          /\ callState'.instr # "none" /\ UNCHANGED <<callStack, prank>>
      BY <2>5 DEF FinishExecuteOnDestContext, TypeOK, Frame
    <3>2. Acts(callState)
      BY <1>0, <3>1, FailedCallIs DEF FramesAct
    <3> QED BY <1>0, <3>1, <3>2 DEF PrankInv, FramesAct, PranksAreOpen, Acts, Impersonates
  <2>6. CASE TestApi \/ ExecuteOnDestContext \/ StorageStore \/ SignalError
    <3>1. callState.instr = "code" /\ Running
      <4>1. callState.instr = "code"
        BY <2>6, CodeStacks
      <4>2. ASSUME ~Running PROVE FALSE
        BY <2>6, <4>2 DEF TestApi, CalledByOther, CreateAccount, RegisterNewAddress,
           DeployContract, CannotDeploy, SetStorage, SetExternalBalance,
           SetESDTExternalBalance, SetESDTRole, NoEffect, AssertFails, AssumeFails,
           StartPrank, StopPrank, ExecuteOnDestContext, StorageStore, SignalError, Calls, Code
      <4> QED BY <4>1, <4>2
    <3>2. CASE AssumeFails
      BY <1>0, <3>1, <3>2, NoFrames DEF AssumeFails, PrankInv, TypeOK, Frame
    <3>3. CASE Stays \/ StartsPrank \/ StopsPrank
      BY <1>0, <3>1, <3>3, FrameKeepsPranks DEF PrankInv
    <3>4. ASSUME NEW frame \in Frame, NEW to \in Contracts, Calling(frame, to) PROVE PrankInv'
      BY <1>0, <3>1, <3>4, CallingKeepsPranks DEF PrankInv
    <3> QED BY <1>0, <2>6, <3>2, <3>3, <3>4, CodeActs
  <2> QED BY <1>1, <2>1, <2>2, <2>3, <2>4, <2>5, <2>6 DEF Interpreter
<1>2. CASE TestWithKfuzz
  BY <1>0, <1>2, NoFrames DEF TestWithKfuzz, TypeOK, PrankInv
<1>3. CASE Program /\ ~TestWithKfuzz
  <2>1. ~Running'
    BY <1>3 DEF Program, DeployTest, KasmerRunError, UnsupportedType, RunPasses, RunFails,
                EndpointPasses, AllPass, Running
  <2> QED BY <1>0, <2>1 DEF PrankInv, FramesAct, PranksAreOpen
<1>4. CASE UNCHANGED vars
  <2>1. UNCHANGED <<callState, callStack, prank, stage>>
    BY <1>4 DEF vars, driver, machine
  <2> QED BY <1>0, <2>1 DEF PrankInv, FramesAct, PranksAreOpen, Acts, Impersonates, Running
<1> QED BY <1>1, <1>2, <1>3, <1>4 DEF Next

LEMMA InitPrankInv == ASSUME Init PROVE PrankInv
<1>1. callStack = <<>> /\ callState.instr = "none" /\ Len(callStack) = 0
  BY EmptySeq DEF Init, Idle
<1>2. newAddresses = {} /\ deployed.newAddresses = {}
  BY DEF Init
<1> QED BY <1>1, <1>2 DEF PrankInv, AddressesAreKnown, FramesAct, PranksAreOpen, Impersonates

(* Code acts as the contract it belongs to, unless it is the test contract's *)
(* and a prank is open, after calls, failed calls and stopPrank alike: if no *)
(* call comes back to the test contract and no other contract uses the prank *)
(* functions, as <prank> is one cell for all calls (kasmer.md:589-632).      *)
THEOREM PranksAreVisible == ASSUME NoForeignPranks PROVE Spec => []ImpersonationIsVisible
<1>1. Init => PrankInv
  BY InitPrankInv
<1>2. TypeOK /\ PrankInv /\ [Next]_vars => PrankInv'
  BY PrankInvInductive
<1>3. PrankInv => ImpersonationIsVisible
  <2> SUFFICES ASSUME PrankInv, Running, callState.instr = "code"
               PROVE  \/ callState.callee = callState.runner
                      \/ callState.runner = TestSc /\ prank
    BY DEF ImpersonationIsVisible
  <2>1. Acts(callState)
    BY FailedCallIs DEF PrankInv, FramesAct
  <2> QED BY <2>1 DEF PrankInv, PranksAreOpen, Impersonates, Acts
<1> QED BY <1>1, <1>2, <1>3, TypeCorrect, PTL DEF Spec

(* -------------------------- Claims and passed runs ----------------------- *)

(* What deploy_test leaves behind when it ends, and what a run starts from.  *)
DeployedIsOver ==
  /\ deployed.callState = Idle \/ Acts(deployed.callState)
  /\ stage \in {"next", "run"} => deployed.exitCode = 0
  /\ (stage = "deploy" /\ k = <<>>) => exitCode = 0
RunsStartDeployed ==
  (stage = "run" /\ k = TestSteps) =>
    /\ accounts = deployed.accounts /\ newAddresses = deployed.newAddresses
    /\ prank = deployed.prank /\ exitCode = deployed.exitCode

(* Below all calls is the call state that was deployed, and an assumption    *)
(* that fails leaves that of the code it fails in.                           *)
Bottom == IF callStack = <<>> THEN callState ELSE callStack[Len(callStack)]
CallStateReturns ==
  Running => IF assumed THEN k = <<>> /\ callStack = <<>> /\ Acts(callState)
             ELSE Bottom = deployed.callState
ClaimInv == DeployedIsOver /\ RunsStartDeployed /\ CallStateReturns

LEMMA InterpreterRuns == ASSUME Interpreter PROVE Running
<1>1. ASSUME TestApi PROVE Running
  BY <1>1 DEF TestApi, CalledByOther, CreateAccount, RegisterNewAddress,
       DeployContract, CannotDeploy, SetStorage, SetExternalBalance,
       SetESDTExternalBalance, SetESDTRole, NoEffect, AssertFails, AssumeFails,
       StartPrank, StopPrank, Calls, Code
<1>2. ASSUME ~TestApi PROVE Running
  BY <1>2 DEF Interpreter, SetExitCode, SetAccount, NewAddress, DeployTx, CallTx,
       CheckExpectStatus, StepIs, EndWasm, Exception, FinishExecuteOnDestContext,
       ExecuteOnDestContext, StorageStore, SignalError, Code
<1> QED BY <1>1, <1>2

LEMMA TailsOfSteps ==
  ASSUME NEW s \in StepLists, s # <<>>
  PROVE  Tail(s) # TestSteps /\ (Tail(s) = <<>> => s = AtEnd)
<1>1. CASE s = DeploySteps
  <2>1. Tail(s) # <<>> /\ Head(Tail(s)) = "setAccount"
    BY <1>1 DEF DeploySteps
  <2> QED BY <2>1, DifferentSteps
<1>2. CASE s = Tail(DeploySteps)
  <2>1. Tail(s) # <<>> /\ Head(Tail(s)) = "newAddress"
    BY <1>2 DEF DeploySteps
  <2> QED BY <2>1, DifferentSteps
<1>3. CASE s = Tail(Tail(DeploySteps))
  <2>1. Tail(s) # <<>> /\ Head(Tail(s)) = "deployTx"
    BY <1>3 DEF DeploySteps
  <2> QED BY <2>1, DifferentSteps
<1>4. CASE s = ToDeploy
  <2>1. Tail(s) = AfterCall
    BY <1>4 DEF ToDeploy, AfterCall
  <2> QED BY <2>1, DifferentSteps
<1>5. CASE s \in {TestSteps, ToCall, AfterCall, AtEnd}
  BY <1>5, CallSteps, DifferentSteps
<1> QED BY <1>1, <1>2, <1>3, <1>4, <1>5, StepListsAre

LEMMA MandosKeepsClaims ==
  ASSUME IInv, ClaimInv, Running,
         SetExitCode \/ SetAccount \/ NewAddress \/ DeployTx \/ CallTx \/ CheckExpectStatus
  PROVE  ClaimInv'
<1>1. /\ callState.instr = "none" /\ callStack = <<>> /\ k # <<>> /\ k' = Tail(k)
      /\ UNCHANGED <<driver, assumed>> /\ ~assumed /\ callState = deployed.callState
  <2>1. /\ callState.instr = "none" /\ k # <<>> /\ k' = Tail(k) /\ UNCHANGED assumed
    BY DEF SetExitCode, SetAccount, NewAddress, DeployTx, CallTx, CheckExpectStatus, StepIs,
           StepDone, machine
  <2>2. UNCHANGED driver
    BY InterpreterKeepsDriver DEF Interpreter, IInv
  <2>3. callStack = <<>>
    BY <2>1 DEF IInv, TypeOK, CallsAreNested
  <2> QED BY <2>1, <2>2, <2>3 DEF ClaimInv, CallStateReturns, Bottom
<1>2. k' # TestSteps /\ (k' = <<>> => SetExitCode /\ exitCode' = 0)
  <2>1. k \in StepLists \ {<<>>}
    BY <1>1 DEF IInv, TypeOK
  <2>2. k' # TestSteps
    BY <1>1, <2>1, TailsOfSteps
  <2>3. k' = <<>> => k = AtEnd
    BY <1>1, <2>1, TailsOfSteps
  <2>4. k = AtEnd => Head(k) = "setExitCode0"
    BY DEF AtEnd
  <2>5. Head(k) = "setExitCode0" => SetExitCode /\ exitCode' = 0
    BY DEF SetExitCode, SetAccount, NewAddress, DeployTx, CallTx, CheckExpectStatus, StepIs
  <2> QED BY <2>2, <2>3, <2>4, <2>5
<1>3. DeployedIsOver' /\ RunsStartDeployed'
  BY <1>1, <1>2 DEF ClaimInv, DeployedIsOver, RunsStartDeployed, driver, Acts
<1>4. Bottom' = deployed.callState
  <2>1. CASE DeployTx \/ CallTx
    <3>1. callStack' = <<[callState EXCEPT !.instr = "none"]>> \o callStack
      BY <2>1 DEF DeployTx, CallTx, CallContract
    <3>2. [callState EXCEPT !.instr = "none"] = callState /\ callState \in Frame
      BY <1>1 DEF IInv, TypeOK, Frame
    <3>3. PICK frame : frame = [callState EXCEPT !.instr = "none"]
      OBVIOUS
    <3>4. callStack' = <<frame>> \o callStack /\ frame \in Frame /\ frame = callState
      BY <3>1, <3>2, <3>3
    <3>5. callStack' # <<>> /\ callStack'[Len(callStack')] = frame
      BY <1>1, <3>4, BottomPushed DEF IInv, TypeOK
    <3> QED BY <1>1, <3>4, <3>5 DEF Bottom
  <2>2. CASE SetExitCode \/ SetAccount \/ NewAddress \/ CheckExpectStatus
    BY <1>1, <2>2 DEF SetExitCode, SetAccount, NewAddress, CheckExpectStatus, machine, Bottom
  <2> QED BY <2>1, <2>2
<1> QED BY <1>1, <1>3, <1>4 DEF ClaimInv, CallStateReturns, driver

LEMMA CallsKeepClaims ==
  ASSUME IInv, IInv', ClaimInv, FramesAct, Running, callState.instr # "none", UNCHANGED driver,
         \/ UNCHANGED <<k, callStack, assumed>>
         \/ AssumeFails
         \/ /\ UNCHANGED <<k, assumed>> /\ callStack' = Tail(callStack)
            /\ callState' = Head(callStack)
         \/ /\ UNCHANGED <<k, assumed>>
            /\ \E frame \in Frame : callStack' = <<frame>> \o callStack
  PROVE  ClaimInv'
<1>1. /\ k = AfterCall /\ callStack # <<>> /\ callStack \in Seq(Frame) /\ ~assumed
      /\ Bottom = deployed.callState /\ Bottom = callStack[Len(callStack)]
  BY CallSteps DEF IInv, CallsComeBeforeChecks, TypeOK, CallsAreNested, ClaimInv,
                   CallStateReturns, Bottom
<1>2. CASE AssumeFails
  <2>1. /\ k' = <<>> /\ callStack' = <<>> /\ assumed' /\ exitCode' = 0
        /\ callState.instr = "code" /\ callState' = [callState EXCEPT !.instr = "none"]
    BY <1>2 DEF AssumeFails, Calls, Code
  <2>2. Acts(callState)
    BY <2>1, FailedCallIs DEF FramesAct
  <2>3. Acts(callState')
    BY <2>1, <2>2 DEF Acts, IInv, TypeOK, Frame
  <2> QED BY <2>1, <2>3, CallSteps DEF ClaimInv, DeployedIsOver, RunsStartDeployed,
                                       CallStateReturns, driver, Acts
<1>3. CASE /\ UNCHANGED <<k, assumed>>
           /\ Bottom' = deployed.callState
  BY <1>1, <1>3, CallSteps DEF ClaimInv, DeployedIsOver, RunsStartDeployed,
                               CallStateReturns, driver, Acts
<1>4. CASE UNCHANGED <<k, callStack, assumed>>
  BY <1>1, <1>3, <1>4 DEF Bottom
<1>5. CASE UNCHANGED <<k, assumed>> /\ callStack' = Tail(callStack)
           /\ callState' = Head(callStack)
  BY <1>1, <1>3, <1>5, BottomPopped DEF Bottom
<1>6. ASSUME UNCHANGED <<k, assumed>>, NEW frame \in Frame, callStack' = <<frame>> \o callStack
      PROVE  ClaimInv'
  BY <1>1, <1>3, <1>6, BottomPushed DEF Bottom
<1> QED BY <1>2, <1>4, <1>5, <1>6

LEMMA DeployKeepsClaims ==
  ASSUME IInv, ClaimInv, DeployTest PROVE ClaimInv'
<1>1. /\ stage = "deploy" /\ stage' = "next" /\ k = <<>> /\ Running
      /\ deployed'.callState = callState /\ deployed'.exitCode = exitCode
  BY DEF DeployTest, Running
<1>2. callState.instr = "none" /\ callStack = <<>>
  BY <1>1, CallSteps DEF IInv, CallsComeBeforeChecks, TypeOK, CallsAreNested
<1>3. callState = Idle \/ Acts(callState)
  BY <1>1, <1>2 DEF ClaimInv, CallStateReturns, DeployedIsOver, Bottom
<1> QED BY <1>1, <1>3 DEF ClaimInv, DeployedIsOver, RunsStartDeployed, CallStateReturns,
                          Running, Acts, Idle

LEMMA ClaimInvInductive ==
  ASSUME IInv, FramesAct, ClaimInv, [Next]_vars PROVE ClaimInv'
<1>0. TypeOK /\ IInv'
  BY IInvInductive DEF IInv
<1>1. CASE Interpreter
  <2>0. UNCHANGED driver /\ Running
    BY <1>0, <1>1, InterpreterKeepsDriver, InterpreterRuns
  <2>1. CASE SetExitCode \/ SetAccount \/ NewAddress \/ DeployTx \/ CallTx \/ CheckExpectStatus
    BY <2>0, <2>1, MandosKeepsClaims
  <2>2. CASE EndWasm \/ Exception
    <3>1. /\ UNCHANGED <<k, assumed>> /\ callStack' = Tail(callStack)
          /\ callState' = Head(callStack) /\ callState.instr # "none"
      BY <2>2 DEF EndWasm, Exception, Pop, Code
    <3> QED BY <1>0, <2>0, <3>1, CallsKeepClaims
  <2>3. CASE FinishExecuteOnDestContext
    <3>1. UNCHANGED <<k, callStack, assumed>> /\ callState.instr # "none"
      BY <2>3 DEF FinishExecuteOnDestContext
    <3> QED BY <1>0, <2>0, <3>1, CallsKeepClaims
  <2>4. CASE TestApi \/ ExecuteOnDestContext \/ StorageStore \/ SignalError
    <3>1. /\ callState.instr # "none"
          /\ \/ UNCHANGED <<k, callStack, assumed>>
             \/ AssumeFails
             \/ /\ UNCHANGED <<k, assumed>>
                /\ \E frame \in Frame : callStack' = <<frame>> \o callStack
      BY <1>0, <2>4, CodeStacks DEF CallsOn
    <3> QED BY <1>0, <2>0, <3>1, CallsKeepClaims
  <2> QED BY <1>1, <2>1, <2>2, <2>3, <2>4 DEF Interpreter
<1>2. CASE TestWithKfuzz
  <2>1. /\ stage = "next" /\ stage' = "run" /\ callStack' = <<>> /\ assumed' = FALSE
        /\ UNCHANGED deployed /\ callState' = deployed.callState
        /\ accounts' = deployed.accounts /\ newAddresses' = deployed.newAddresses
        /\ prank' = deployed.prank /\ exitCode' = deployed.exitCode
    BY <1>2 DEF TestWithKfuzz
  <2> QED BY <2>1 DEF ClaimInv, DeployedIsOver, RunsStartDeployed, CallStateReturns, Bottom,
                      Running, Acts
<1>3. CASE DeployTest
  BY <1>3, DeployKeepsClaims
<1>4. CASE Program /\ ~TestWithKfuzz /\ ~DeployTest
  <2>1. /\ UNCHANGED <<deployed, k, exitCode>> /\ ~Running' /\ stage' # "run"
        /\ stage' # "deploy" /\ (stage' = "next" => stage \in {"next", "run"})
    BY <1>4 DEF Program, KasmerRunError, UnsupportedType, RunPasses, RunFails,
                EndpointPasses, AllPass, Running
  <2> QED BY <2>1 DEF ClaimInv, DeployedIsOver, RunsStartDeployed, CallStateReturns, Acts
<1>5. CASE UNCHANGED vars
  <2>1. UNCHANGED <<stage, deployed, k, exitCode, accounts, newAddresses, prank, callState,
                    callStack, assumed>>
    BY <1>5 DEF vars, driver, world, machine
  <2> QED BY <2>1 DEF ClaimInv, DeployedIsOver, RunsStartDeployed, CallStateReturns, Bottom,
                      Running, Acts
<1> QED BY <1>1, <1>2, <1>3, <1>4, <1>5 DEF Next

LEMMA InitClaimInv == ASSUME Init PROVE ClaimInv
<1>1. /\ stage = "deploy" /\ k = DeploySteps /\ callStack = <<>> /\ callState = Idle
      /\ ~assumed /\ deployed.callState = Idle
  BY DEF Init
<1>2. k # <<>>
  BY <1>1 DEF DeploySteps
<1> QED BY <1>1, <1>2 DEF ClaimInv, DeployedIsOver, RunsStartDeployed, CallStateReturns, Bottom

(* An account that a test impersonates is not a contract whose code runs: so *)
(* <callee> tells whose code it was.                                         *)
PranksAreNoContracts == Pranks \cap Contracts \subseteq {TestSc}

LEMMA SameCallee ==
  ASSUME PranksAreNoContracts, NEW f \in Frame, NEW g \in Frame, f.instr = g.instr,
         f = Idle \/ Acts(f), Acts(g), f.callee = g.callee
  PROVE  f = g
<1> USE KasmerAssumption
<1>1. Contracts \subseteq Address
  BY DEF Contracts, NewAddressEntry
<1>2. g.callee \in Address
  BY <1>1 DEF Acts
<1>3. Acts(f)
  BY <1>2 DEF Idle
<1>4. f.runner = g.runner
  BY <1>3 DEF Acts, PranksAreNoContracts
<1> QED BY <1>4 DEF Frame

LEMMA ClaimsBegin ==
  ASSUME TypeOK, ClaimInv, stage = "run", k = TestSteps, callState.instr = "none"
  PROVE  MatchesLhs <=> ~deployed.prank
<1>1. callStack = <<>> /\ interimStates = <<>>
  <2>1. callStack = <<>> /\ Len(interimStates) = 0 /\ interimStates \in Seq(Accounts)
    BY EmptySeq DEF TypeOK, CallsAreNested
  <2> QED BY <2>1, EmptySeq
<1>2. k # <<>>
  BY DEF TestSteps
<1>3. callState = deployed.callState
  BY <1>1, <1>2 DEF ClaimInv, CallStateReturns, Running, Bottom
<1>4. /\ accounts = deployed.accounts /\ newAddresses = deployed.newAddresses
      /\ prank = deployed.prank /\ exitCode = 0 /\ deployed.exitCode = 0
  BY DEF ClaimInv, RunsStartDeployed, DeployedIsOver
<1>5. deployed \in DeployedConfig /\ deployed.prank \in BOOLEAN
  BY DEF TypeOK, DeployedConfig
<1>6. Lhs = [accounts |-> deployed.accounts, newAddresses |-> deployed.newAddresses,
             callState |-> deployed.callState, prank |-> FALSE, vmOutput |-> "any",
             exitCode |-> 0]
  <2>1. PICK a, b, c, d, e, f :
          deployed = [accounts |-> a, newAddresses |-> b, callState |-> c, prank |-> d,
                      vmOutput |-> e, exitCode |-> f]
    BY <1>5 DEF DeployedConfig
  <2>2. PICK x : x = [deployed EXCEPT !.prank = FALSE]
    OBVIOUS
  <2>3. PICK y : y = [x EXCEPT !.exitCode = 0]
    OBVIOUS
  <2>4. Lhs = [y EXCEPT !.vmOutput = "any"]
    BY <2>2, <2>3 DEF Lhs
  <2>5. x = [accounts |-> a, newAddresses |-> b, callState |-> c, prank |-> FALSE,
             vmOutput |-> e, exitCode |-> f]
    BY <2>1, <2>2
  <2>6. y = [accounts |-> a, newAddresses |-> b, callState |-> c, prank |-> FALSE,
             vmOutput |-> e, exitCode |-> 0]
    BY <2>3, <2>5
  <2> QED BY <2>1, <2>4, <2>6
<1>7. MatchesLhs <=>
        Lhs = [accounts |-> deployed.accounts, newAddresses |-> deployed.newAddresses,
               callState |-> deployed.callState, prank |-> deployed.prank,
               vmOutput |-> "any", exitCode |-> 0]
  BY <1>1, <1>3, <1>4 DEF MatchesLhs
<1> QED BY <1>5, <1>6, <1>7

LEMMA ClaimsEnd ==
  ASSUME PranksAreNoContracts, TestInv, ClaimInv, stage = "run", Stopped, exitCode = 0
  PROVE  MatchesRhs <=> /\ newAddresses = deployed.newAddresses
                        /\ ~prank
                        /\ assumed => deployed.callState.callee = callState.callee
<1>0. TypeOK /\ IInv /\ Running /\ wasmStore = {}
  BY DEF TestInv, IInv, Running, NothingToDeploy
<1>1. k = <<>>
  <2>1. assumed \/ k = <<>>
    BY <1>0, ExitCodeIsSound DEF ExitCodeSound
  <2> QED BY <1>0, <2>1 DEF ClaimInv, CallStateReturns
<1>2. callState.instr = "none" /\ callStack = <<>> /\ interimStates = <<>>
  <2>1. callState.instr = "none"
    BY <1>0, <1>1, CallSteps DEF IInv, CallsComeBeforeChecks
  <2>2. callStack = <<>> /\ Len(interimStates) = 0 /\ interimStates \in Seq(Accounts)
    BY <1>0, <2>1, EmptySeq DEF TypeOK, CallsAreNested
  <2> QED BY <2>1, <2>2, EmptySeq
<1>3. Lhs.newAddresses = deployed.newAddresses /\ Lhs.callState = deployed.callState
  BY <1>0 DEF Lhs, TypeOK, DeployedConfig
<1>4. MatchesRhs <=> /\ ~prank /\ newAddresses = deployed.newAddresses
                     /\ callState = deployed.callState
  BY <1>0, <1>1, <1>2, <1>3 DEF MatchesRhs, TypeOK
<1>5. callState = deployed.callState <=>
        (assumed => deployed.callState.callee = callState.callee)
  <2>1. CASE ~assumed
    BY <1>0, <1>2, <2>1 DEF ClaimInv, CallStateReturns, Bottom
  <2>2. CASE assumed
    <3>1. Acts(callState) /\ (deployed.callState = Idle \/ Acts(deployed.callState))
      BY <1>0, <2>2 DEF ClaimInv, CallStateReturns, DeployedIsOver
    <3>2. /\ callState \in Frame /\ deployed.callState \in Frame
          /\ deployed.callState.instr = callState.instr
      BY <1>0, <1>2 DEF TypeOK, DeployedConfig
    <3>3. deployed.callState.callee = callState.callee => deployed.callState = callState
      BY <3>1, <3>2, SameCallee
    <3> QED BY <2>2, <3>3
  <2> QED BY <2>1, <2>2
<1> QED BY <1>4, <1>5

(* A claim is about the runs the fuzzer makes: they begin in its left side   *)
(* unless init left a prank open, and a run that passed ends in its right    *)
(* side exactly when the test registered nothing, closed its prank, and      *)
(* failed no assumption but in code that acts as the contract deploy_test    *)
(* ended in (kasmer.py:330-378).  As <callee> has to tell whose code that    *)
(* was, the test impersonates no contract that runs.                         *)
THEOREM ClaimsAreAboutTheRuns ==
  ASSUME NoForeignPranks, PranksAreNoContracts PROVE Spec => []ClaimsMatchPassedRuns
<1>1. Init => PrankInv /\ ClaimInv
  BY InitPrankInv, InitClaimInv
<1>2. TestInv /\ PrankInv /\ ClaimInv /\ [Next]_vars => PrankInv' /\ ClaimInv'
  BY PrankInvInductive, ClaimInvInductive DEF TestInv, IInv, PrankInv
<1>3. TestInv /\ ClaimInv => ClaimsMatchPassedRuns
  BY ClaimsBegin, ClaimsEnd DEF ClaimsMatchPassedRuns, TestInv, IInv
<1> QED BY <1>1, <1>2, <1>3, TestInvHolds, PTL DEF Spec
===============================================================================
