-------------------------------- MODULE Kasmer --------------------------------
(***************************************************************************)
(* Property tests of a contract (kasmer.py over kasmer.md): the program    *)
(* deploys a test contract, keeps the configuration it got, and runs every *)
(* test endpoint from a copy of it, several times with arguments it draws. *)
(* Only the <exit-code> of a run tells whether it passed.                  *)
(*                                                                         *)
(* The code of the test contract and of the contracts under test is any    *)
(* program: it makes an arbitrary choice among the functions of the test   *)
(* API, calls, errors and returns, MaxCalls of them in a run.              *)
(***************************************************************************)
EXTENDS Integers, Sequences

CONSTANTS Address, NoAddress,
          Root, TestSc,        \* ROOT_ACCT_ADDR, TEST_SC_ADDR
          NoAccount,           \* the value of an address without an account
          Paths,               \* contract_wasms: files that can be deployed
          TestWasm,            \* the module of the test contract
          Role,
          Abis,                \* the endpoints of an ABI: [test, types], in order
          SupportedTypes,      \* types _type_to_strategy knows
          ContractImports,     \* test API functions a contract under test uses
          NewAccounts, Registrations, Deployments,    \* what code asks the test
          Targets, Amounts, StorageValues, Pranks,    \* API for, and the
          Callees,                                    \* contracts it calls
          MaxCalls, MaxDepth, MaxExamples

Module == Paths \cup {TestWasm}
AnyAddress == Address \cup {NoAddress}
NewAddressEntry == [creator : Address, nonce : Nat, new : Address]
Endpoint == [test : BOOLEAN, types : SUBSET STRING]

ASSUME KasmerAssumption ==
  /\ Root \in Address /\ TestSc \in Address /\ Root # TestSc
  /\ NoAddress \notin Address
  /\ TestWasm \notin Paths
  /\ NewAccounts \subseteq [addr : Address, nonce : Nat, balance : Int]
  /\ Registrations \subseteq NewAddressEntry
  /\ Deployments \subseteq [owner : Address, path : Paths, value : Nat]
  /\ Targets \subseteq Address /\ Pranks \subseteq Address /\ Callees \subseteq Address
  /\ Amounts \subseteq Int /\ StorageValues \subseteq Int
  /\ Abis \subseteq Seq(Endpoint)
  /\ MaxCalls \in Nat /\ MaxDepth \in Nat /\ MaxExamples \in Nat

(* ------------------------------- Accounts -------------------------------- *)

(* code is {} for .Code; storage is the value of one key and esdt, roles the *)
(* data of one token, 0 and {} when there is no entry.                       *)
Account == [nonce : Nat, balance : Int, owner : AnyAddress, code : SUBSET Module,
            storage : Int, esdt : Int, roles : SUBSET Role]

ASSUME NoAccountAssumption == NoAccount \notin Account

NewAccount == [nonce |-> 0, balance |-> 0, owner |-> NoAddress, code |-> {},
               storage |-> 0, esdt |-> 0, roles |-> {}]

Instr == {"none", "code", "exception", "finishExecuteOnDestContext", "stuck"}
Frame == [callee : AnyAddress, runner : AnyAddress, instr : Instr]

(* ------------------------------- State ----------------------------------- *)

VARIABLES stage,          \* where the program is
          todo,           \* test endpoints left, the current one first
          examples,       \* passed runs of the current endpoint
          deployed,       \* init_subst: what deploy_test returns
          k,              \* <k>, Mandos steps
          exitCode,       \* <exit-code>
          accounts,       \* <accounts>
          newAddresses,   \* <newAddresses>
          wasmStore,      \* <wasmStore>
          callState,      \* <callee>, whose code runs, what is in <instrs>
          callStack, interimStates,
          prank,          \* <prank>
          vmOutput,       \* return code of <vmOutput>
          calls,          \* functions called in this run, to bound the code
          assumed         \* history: an assumption failed in this run

driver == <<stage, todo, examples, deployed>>
world == <<accounts, newAddresses, wasmStore>>
machine == <<callState, callStack, interimStates, prank, vmOutput, assumed>>
vars == <<driver, k, exitCode, world, machine, calls>>

Stage == {"deploy", "next", "run", "passed", "failed"}
ReturnCode == {"none", "OK", "UserError", "ExecutionFailed", "OutOfFunds", "ContractNotFound"}

DeploySteps == <<"setExitCode1", "setAccount", "newAddress", "deployTx",
                 "checkExpectStatus", "setExitCode0">>
TestSteps == <<"setExitCode1", "callTx", "checkExpectStatus", "setExitCode0">>

IsTest(endpoint) == endpoint.test                 \* its name starts with test_
GetTestEndpoints(abi) == SelectSeq(abi, IsTest)

Idle == [callee |-> NoAddress, runner |-> NoAddress, instr |-> "none"]

Init ==
  /\ stage = "deploy" /\ examples = 0 /\ calls = 0
  /\ todo \in {GetTestEndpoints(abi) : abi \in Abis}
  /\ k = DeploySteps /\ exitCode = 0
  /\ accounts = [a \in Address |-> NoAccount]
  /\ newAddresses = {} /\ wasmStore = Paths
  /\ callState = Idle /\ callStack = <<>> /\ interimStates = <<>>
  /\ prank = FALSE /\ vmOutput = "none" /\ assumed = FALSE
  /\ deployed = [accounts |-> accounts, newAddresses |-> newAddresses, callState |-> callState,
                 prank |-> prank, vmOutput |-> vmOutput, exitCode |-> exitCode]

Running == stage \in {"deploy", "run"}
IsAccount(a) == accounts[a] # NoAccount
Created(a) == IF IsAccount(a) THEN accounts[a] ELSE NewAccount

(* ------------------------------ Mandos steps ----------------------------- *)

(* A step is taken when the call that was started before it has ended.       *)
StepIs(s) == Running /\ callState.instr = "none" /\ k # <<>> /\ Head(k) = s
StepDone == k' = Tail(k)

SetExitCode ==
  /\ \/ StepIs("setExitCode1") /\ exitCode' = 1
     \/ StepIs("setExitCode0") /\ exitCode' = 0
  /\ StepDone
  /\ UNCHANGED <<driver, world, machine, calls>>

SetAccount ==
  /\ StepIs("setAccount")
  /\ accounts' = [accounts EXCEPT ![Root] =
                    [Created(Root) EXCEPT !.nonce = 1, !.balance = 100000, !.code = {},
                                          !.owner = NoAddress, !.storage = 0]]
  /\ StepDone
  /\ UNCHANGED <<driver, exitCode, newAddresses, wasmStore, machine, calls>>

SetNewAddress(creator, nonce, new) ==
  newAddresses' = {e \in newAddresses : <<e.creator, e.nonce>> # <<creator, nonce>>}
                    \cup {[creator |-> creator, nonce |-> nonce, new |-> new]}

NewAddress ==
  /\ StepIs("newAddress")
  /\ SetNewAddress(Root, 1, TestSc)
  /\ StepDone
  /\ UNCHANGED <<driver, exitCode, accounts, wasmStore, machine, calls>>

(* The frame of a call: the caller waits with instr, and the call itself     *)
(* fails at once, or its code runs.                                          *)
Moved(accts, from, to, value) ==
  [a \in Address |->
     IF from = to \/ a \notin {from, to} THEN accts[a]
     ELSE [accts[a] EXCEPT !.balance = @ + (IF a = to THEN value ELSE -value)]]

CallFails(accts, from, to, value) ==
  \/ NoAccount \in {accts[from], accts[to]}
  \/ value > accts[from].balance
  \/ accts[to].code = {}

CallContract(accts, from, to, value, instr) ==
  /\ interimStates' = <<accts>> \o interimStates
  /\ callStack' = <<[callState EXCEPT !.instr = instr]>> \o callStack
  /\ vmOutput' = "none"
  /\ IF CallFails(accts, from, to, value)
     THEN /\ accounts' = accts
          /\ callState' = [Idle EXCEPT !.instr = "exception"]
     ELSE /\ accounts' = Moved(accts, from, to, value)
          /\ callState' = [callee |-> to, runner |-> to, instr |-> "code"]

WithDeployed(accts, new, owner, module) ==
  [accts EXCEPT ![new] = [(IF @ = NoAccount THEN NewAccount ELSE @)
                            EXCEPT !.owner = owner, !.code = {module}]]

(* Gas price 0: only the nonce of the sender changes.                        *)
Sent == [accounts EXCEPT ![Root].nonce = @ + 1]

DeployTx ==
  /\ StepIs("deployTx") /\ IsAccount(Root)
  /\ \E e \in newAddresses :
       /\ e.creator = Root /\ e.nonce = accounts[Root].nonce
       /\ CallContract(WithDeployed(Sent, e.new, Root, TestWasm), Root, e.new, 0, "none")
  /\ StepDone
  /\ UNCHANGED <<driver, exitCode, newAddresses, wasmStore, prank, assumed, calls>>

CallTx ==
  /\ StepIs("callTx") /\ IsAccount(Root)
  /\ CallContract(Sent, Root, TestSc, 0, "none")
  /\ StepDone
  /\ UNCHANGED <<driver, exitCode, newAddresses, wasmStore, prank, assumed, calls>>

ChecksNothing ==                                                        \* mutant
  /\ StepIs("checkExpectStatus")
  /\ StepDone
  /\ UNCHANGED <<driver, exitCode, world, machine, calls>>
CheckExpectStatus ==
  /\ StepIs("checkExpectStatus") /\ vmOutput = "OK"
  /\ StepDone
  /\ UNCHANGED <<driver, exitCode, world, machine, calls>>

(* ---------------------------- Ends of a call ----------------------------- *)

Code == Running /\ callState.instr = "code"
Pop == /\ callState' = Head(callStack)
       /\ callStack' = Tail(callStack)
       /\ interimStates' = Tail(interimStates)

EndWasm ==
  /\ Code
  /\ vmOutput' = "OK"
  /\ Pop
  /\ UNCHANGED <<driver, k, exitCode, world, prank, assumed, calls>>

KeepsWorld ==                                                           \* mutant
  /\ Running /\ callState.instr = "exception" /\ vmOutput = "none"
  /\ vmOutput' \in ReturnCode \ {"none", "OK"}
  /\ Pop
  /\ UNCHANGED <<driver, k, exitCode, world, prank, assumed, calls>>
(* exception-revert matches an empty <vmOutput> only.                        *)
Exception ==
  /\ Running /\ callState.instr = "exception" /\ vmOutput = "none"
  /\ vmOutput' \in ReturnCode \ {"none", "OK"}
  /\ accounts' = Head(interimStates)
  /\ Pop
  /\ UNCHANGED <<driver, k, exitCode, newAddresses, wasmStore, prank, assumed, calls>>

LeavesOutput ==                                                         \* mutant
  /\ Running /\ callState.instr = "finishExecuteOnDestContext"
  /\ callState' = [callState EXCEPT !.instr = IF vmOutput = "OK" THEN "code" ELSE "exception"]
  /\ UNCHANGED <<driver, k, exitCode, world, callStack, interimStates, prank, vmOutput,
                 assumed, calls>>
FinishExecuteOnDestContext ==
  /\ Running /\ callState.instr = "finishExecuteOnDestContext"
  /\ callState' = [callState EXCEPT !.instr = IF vmOutput = "OK" THEN "code" ELSE "exception"]
  /\ vmOutput' = "none"
  /\ UNCHANGED <<driver, k, exitCode, world, callStack, interimStates, prank, assumed, calls>>

(* --------------------------- What code can do ---------------------------- *)

(* A function of the test API: the test contract imports all of them.        *)
Calls(f) == /\ Code /\ calls < MaxCalls
            /\ callState.runner = TestSc \/ f \in ContractImports
            /\ calls' = calls + 1
IsRunner == callState.callee = TestSc          \* <callee> #kasmerRunner </callee>

Throws == callState' = [callState EXCEPT !.instr = "exception"]
Succeeds == UNCHANGED callState
HostRest == UNCHANGED <<driver, k, exitCode, wasmStore, callStack, interimStates, assumed>>

(* Any of the functions above with #kasmerRunner in its rule, from another   *)
(* callee: no rule applies.                                                  *)
RunnerOnly == {"createAccount", "registerNewAddress", "deployContract", "setStorage",
               "setExternalBalance", "setESDTExternalBalance", "setBlockTimestamp",
               "startPrank"}
CalledByOther ==
  /\ \E f \in RunnerOnly : Calls(f)
  /\ ~IsRunner
  /\ callState' = [callState EXCEPT !.instr = "stuck"]
  /\ HostRest /\ UNCHANGED <<accounts, newAddresses, prank, vmOutput>>

CreateAccount ==
  /\ Calls("createAccount") /\ IsRunner
  /\ \E r \in NewAccounts :
       accounts' = [accounts EXCEPT ![r.addr] =
                      [Created(r.addr) EXCEPT !.nonce = r.nonce, !.balance = r.balance,
                         !.code = {}, !.owner = NoAddress, !.storage = 0]]
  /\ Succeeds
  /\ HostRest /\ UNCHANGED <<newAddresses, prank, vmOutput>>

RegisterNewAddress ==
  /\ Calls("registerNewAddress") /\ IsRunner
  /\ \E r \in Registrations : SetNewAddress(r.creator, r.nonce, r.new)
  /\ Succeeds
  /\ HostRest /\ UNCHANGED <<accounts, prank, vmOutput>>

(* The nonce of the owner stays; what init returns is not looked at.         *)
DeployContract ==
  /\ Calls("deployContract") /\ IsRunner
  /\ Len(callStack) < MaxDepth
  /\ \E r \in Deployments, e \in newAddresses :
       /\ IsAccount(r.owner) /\ r.path \in wasmStore
       /\ e.creator = r.owner /\ e.nonce = accounts[r.owner].nonce
       /\ CallContract(WithDeployed(accounts, e.new, r.owner, r.path),
                       r.owner, e.new, r.value, "code")
  /\ UNCHANGED <<driver, k, exitCode, newAddresses, wasmStore, prank, assumed>>

CannotDeploy ==
  /\ Calls("deployContract") /\ IsRunner
  /\ \E r \in Deployments :
       \/ ~IsAccount(r.owner) \/ r.path \notin wasmStore
       \/ \A e \in newAddresses : e.creator # r.owner \/ e.nonce # accounts[r.owner].nonce
  /\ Throws
  /\ HostRest /\ UNCHANGED <<accounts, newAddresses, prank, vmOutput>>

(* There is no rule for an account that does not exist.                      *)
SetStorage ==
  /\ Calls("setStorage") /\ IsRunner
  /\ \E a \in Targets, v \in StorageValues :
       IF IsAccount(a)
       THEN accounts' = [accounts EXCEPT ![a].storage = v] /\ Succeeds
       ELSE callState' = [callState EXCEPT !.instr = "stuck"] /\ UNCHANGED accounts
  /\ HostRest /\ UNCHANGED <<newAddresses, prank, vmOutput>>

SetExternalBalance ==
  /\ Calls("setExternalBalance") /\ IsRunner
  /\ \E a \in Targets, v \in Amounts :
       IF v >= 0 /\ IsAccount(a)
       THEN accounts' = [accounts EXCEPT ![a].balance = v] /\ Succeeds
       ELSE Throws /\ UNCHANGED accounts
  /\ HostRest /\ UNCHANGED <<newAddresses, prank, vmOutput>>

SetESDTExternalBalance ==
  /\ Calls("setESDTExternalBalance") /\ IsRunner
  /\ \E a \in Targets, v \in Amounts :
       IF v >= 0 /\ IsAccount(a)
       THEN accounts' = [accounts EXCEPT ![a].esdt = v] /\ Succeeds
       ELSE Throws /\ UNCHANGED accounts
  /\ HostRest /\ UNCHANGED <<newAddresses, prank, vmOutput>>

SetESDTRole ==
  /\ Calls("setESDTRole")
  /\ \E a \in Targets, role \in Role, p \in BOOLEAN :
       IF IsAccount(a)
       THEN /\ accounts' = [accounts EXCEPT ![a].roles = IF p THEN @ \cup {role} ELSE @ \ {role}]
            /\ Succeeds
       ELSE Throws /\ UNCHANGED accounts
  /\ HostRest /\ UNCHANGED <<newAddresses, prank, vmOutput>>

(* setBlockTimestamp, checkESDTRole of an account, a true assertion or       *)
(* assumption: nothing here changes.                                         *)
NoEffect ==
  /\ \E f \in {"setBlockTimestamp", "checkESDTRole", "assertBool", "assumeBool"} :
       Calls(f) /\ (f \in RunnerOnly => IsRunner)
  /\ Succeeds
  /\ HostRest /\ UNCHANGED <<accounts, newAddresses, prank, vmOutput>>

AssertFails ==
  /\ Calls("assertBool")
  /\ Throws
  /\ HostRest /\ UNCHANGED <<accounts, newAddresses, prank, vmOutput>>

(* #endFoundryImmediately: the run is over, with what it did to the accounts. *)
KeepsStacks ==                                                          \* mutant
  /\ Calls("assumeBool")
  /\ callState' = [callState EXCEPT !.instr = "none"]
  /\ k' = <<>> /\ prank' = FALSE /\ exitCode' = 0 /\ assumed' = TRUE
  /\ UNCHANGED <<driver, world, vmOutput, callStack, interimStates>>
AssumeFails ==
  /\ Calls("assumeBool")
  /\ callState' = [callState EXCEPT !.instr = "none"]
  /\ callStack' = <<>> /\ interimStates' = <<>> /\ k' = <<>>
  /\ prank' = FALSE /\ exitCode' = 0 /\ assumed' = TRUE
  /\ UNCHANGED <<driver, world, vmOutput>>

StartPrank ==
  /\ Calls("startPrank") /\ IsRunner
  /\ IF prank THEN Throws /\ UNCHANGED prank
     ELSE \E a \in Pranks : callState' = [callState EXCEPT !.callee = a] /\ prank' = TRUE
  /\ HostRest /\ UNCHANGED <<accounts, newAddresses, vmOutput>>

StaysImpersonated ==                                                    \* mutant
  /\ Calls("stopPrank")
  /\ prank /\ prank' = FALSE /\ Succeeds
  /\ HostRest /\ UNCHANGED <<accounts, newAddresses, vmOutput>>
StopPrank ==
  /\ Calls("stopPrank")
  /\ IF prank THEN callState' = [callState EXCEPT !.callee = TestSc] /\ prank' = FALSE
     ELSE Throws /\ UNCHANGED prank
  /\ HostRest /\ UNCHANGED <<accounts, newAddresses, vmOutput>>

(* A synchronous call of another contract, sent by the callee.               *)
ExecuteOnDestContext ==
  /\ Code /\ calls < MaxCalls /\ calls' = calls + 1
  /\ Len(callStack) < MaxDepth
  /\ \E to \in Callees :
       CallContract(accounts, callState.callee, to, 0, "finishExecuteOnDestContext")
  /\ UNCHANGED <<driver, k, exitCode, newAddresses, wasmStore, prank, assumed>>

(* storageStore, of the callee: signalError ends the code.                   *)
StorageStore ==
  /\ Code /\ calls < MaxCalls /\ calls' = calls + 1
  /\ IsAccount(callState.callee)
  /\ \E v \in StorageValues : accounts' = [accounts EXCEPT ![callState.callee].storage = v]
  /\ Succeeds
  /\ HostRest /\ UNCHANGED <<newAddresses, prank, vmOutput>>

SignalError ==
  /\ Code /\ calls < MaxCalls /\ calls' = calls + 1
  /\ Throws
  /\ HostRest /\ UNCHANGED <<accounts, newAddresses, prank, vmOutput>>

TestApi == \/ CalledByOther \/ CreateAccount \/ RegisterNewAddress \/ DeployContract
           \/ CannotDeploy \/ SetStorage \/ SetExternalBalance \/ SetESDTExternalBalance
           \/ SetESDTRole \/ NoEffect \/ AssertFails \/ AssumeFails \/ StartPrank \/ StopPrank

(* ------------------------------ The program ------------------------------ *)

(* No rule applies: <k> is empty, or something in front of it is stuck.      *)
Stopped ==
  /\ Running
  /\ \/ callState.instr = "none" /\ k = <<>>
     \/ callState.instr = "stuck"
     \/ callState.instr = "exception" /\ vmOutput # "none"
     \/ StepIs("checkExpectStatus") /\ vmOutput # "OK"
     \/ (StepIs("deployTx") \/ StepIs("callTx")) /\ ~IsAccount(Root)
     \/ /\ StepIs("deployTx")
        /\ \A e \in newAddresses : e.creator # Root \/ e.nonce # accounts[Root].nonce

KeepsWasmStore ==                                                       \* mutant
  /\ stage = "deploy" /\ Stopped /\ k = <<>>
  /\ stage' = "next"
  /\ deployed' = [accounts |-> accounts, newAddresses |-> newAddresses, callState |-> callState,
                  prank |-> prank, vmOutput |-> vmOutput, exitCode |-> exitCode]
  /\ UNCHANGED <<todo, examples, k, exitCode, world, machine, calls>>
DeployTest ==
  /\ stage = "deploy" /\ Stopped /\ k = <<>>
  /\ stage' = "next"
  /\ deployed' = [accounts |-> accounts, newAddresses |-> newAddresses, callState |-> callState,
                  prank |-> prank, vmOutput |-> vmOutput, exitCode |-> exitCode]
  /\ wasmStore' = {}
  /\ UNCHANGED <<todo, examples, k, exitCode, accounts, newAddresses, machine, calls>>

KasmerRunError ==
  /\ stage = "deploy" /\ Stopped /\ k # <<>>
  /\ stage' = "failed"
  /\ UNCHANGED <<todo, examples, deployed, k, exitCode, world, machine, calls>>

UnsupportedType ==
  /\ stage = "next" /\ todo # <<>> /\ ~(Head(todo).types \subseteq SupportedTypes)
  /\ stage' = "failed"
  /\ UNCHANGED <<todo, examples, deployed, k, exitCode, world, machine, calls>>

(* A run of the interpreter with an example, from the deployed configuration. *)
TestWithKfuzz ==
  /\ stage = "next" /\ todo # <<>> /\ Head(todo).types \subseteq SupportedTypes
  /\ examples < MaxExamples
  /\ stage' = "run" /\ k' = TestSteps /\ calls' = 0 /\ assumed' = FALSE
  /\ accounts' = deployed.accounts /\ newAddresses' = deployed.newAddresses
  /\ callState' = deployed.callState /\ callStack' = <<>> /\ interimStates' = <<>>
  /\ prank' = deployed.prank /\ vmOutput' = deployed.vmOutput
  /\ exitCode' = deployed.exitCode
  /\ UNCHANGED <<todo, examples, deployed, wasmStore>>

RunPasses ==
  /\ stage = "run" /\ Stopped /\ exitCode = 0
  /\ stage' = "next" /\ examples' = examples + 1
  /\ UNCHANGED <<todo, deployed, k, exitCode, world, machine, calls>>

RetriesFailedRun ==                                                     \* mutant
  /\ stage = "run" /\ Stopped /\ exitCode # 0
  /\ stage' = "next"
  /\ UNCHANGED <<todo, examples, deployed, k, exitCode, world, machine, calls>>
RunFails ==
  /\ stage = "run" /\ Stopped /\ exitCode # 0
  /\ stage' = "failed"
  /\ UNCHANGED <<todo, examples, deployed, k, exitCode, world, machine, calls>>

EndpointPasses ==
  /\ stage = "next" /\ todo # <<>> /\ examples = MaxExamples
  /\ todo' = Tail(todo) /\ examples' = 0
  /\ UNCHANGED <<stage, deployed, k, exitCode, world, machine, calls>>

AllPass ==
  /\ stage = "next" /\ todo = <<>>
  /\ stage' = "passed"
  /\ UNCHANGED <<todo, examples, deployed, k, exitCode, world, machine, calls>>

Interpreter ==
  \/ SetExitCode \/ SetAccount \/ NewAddress \/ DeployTx \/ CallTx \/ CheckExpectStatus
  \/ EndWasm \/ Exception \/ FinishExecuteOnDestContext \/ TestApi
  \/ ExecuteOnDestContext \/ StorageStore \/ SignalError

Program == \/ DeployTest \/ KasmerRunError \/ UnsupportedType \/ TestWithKfuzz
           \/ RunPasses \/ RunFails \/ EndpointPasses \/ AllPass

Next == Interpreter \/ Program

(* One process: it goes on while it can.                                     *)
Spec == Init /\ [][Next]_vars /\ WF_vars(Next)

(* --------------------------------- Claims -------------------------------- *)

(* generate_claim rewrites one configuration to another; cells it leaves to  *)
(* variables, or does not compare, are left out here.  The cells of the call *)
(* state are the deployed ones on both sides.                                *)
Lhs == [deployed EXCEPT !.prank = FALSE, !.exitCode = 0, !.vmOutput = "any"]

MatchesLhs ==
  /\ k = TestSteps /\ callState.instr = "none" /\ callStack = <<>> /\ interimStates = <<>>
  /\ Lhs = [accounts |-> accounts, newAddresses |-> newAddresses, callState |-> callState,
            prank |-> prank, vmOutput |-> "any", exitCode |-> exitCode]

ComparesAccounts ==                                                     \* mutant
  /\ k = <<>> /\ callState.instr = "none" /\ callStack = <<>> /\ interimStates = <<>>
  /\ prank = FALSE /\ exitCode = 0 /\ accounts = Lhs.accounts
  /\ newAddresses = Lhs.newAddresses /\ callState = Lhs.callState /\ wasmStore = {}
MatchesRhs ==
  /\ k = <<>> /\ callState.instr = "none" /\ callStack = <<>> /\ interimStates = <<>>
  /\ prank = FALSE /\ exitCode = 0
  /\ newAddresses = Lhs.newAddresses /\ callState = Lhs.callState /\ wasmStore = {}
===============================================================================
