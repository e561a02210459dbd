# Verification of the MultiversX semantics

This directory models the executable semantics of the MultiversX node (the K
rules under `kmultiversx/src/kmultiversx/kdist/mx-semantics`) and the Python
programs around it (the scenario runner and Kasmer) in TLA+, checks the models
with TLC on small instances and proves part of them with TLAPS. Paths below are
relative to that K directory; `scenario.py`, `kasmer.py`, `utils.py` and
`runtime.py` are in `src/kmultiversx/src/kmultiversx`.

## The system

The node is a rewrite system. `<commands>` is a queue of node commands and
`<instrs>` a queue of Wasm instructions of the running contract; control passes
from one to the other with `#endWasm`, `#waitWasm` and `#waitCommands`. Contract
code calls the node through host functions, which push commands. A call of a
contract snapshots the accounts and the frame of the caller, runs in a frame and
a Wasm instance of its own and ends in `<vmOutput>`. Nothing runs in parallel;
what is hard is the long distance between a command that saves state and the one
that takes it back, the failures that skip the commands in between, and the
global cells (`<vmOutput>`, `<prank>`) that several frames write and read.

Around the node there are two programs. `scenario.py` translates JSON scenario
files to Mandos steps in `<k>`, each of which starts a transaction or sets or
compares a part of the configuration; it learns of a failure because a step stays
in `<k>`. `kasmer.py` deploys a test contract, keeps the configuration, and runs
each test endpoint from a copy of it with arguments it draws; it learns of a
failure from `<exit-code>`.

| Component | Source | State | Operations | Talks to | What makes it correct |
|---|---|---|---|---|---|
| Call machine | `elrond-node.md`, `elrond-config.md` 424-803, `switch.md` | `<commands>`, `<callState>`, `<callStack>`, `<interimStates>`, `<vmOutput>`, `<accounts>` | push/pop of frames and worlds, exceptions, EGLD transfers, `callContract`, instantiation, `mkCall`, `#endWasm` | every component below, by commands | balanced stacks, every exception caught, atomic calls, no stuck state, funds conserved |
| Async calls | `vmhooks/async.md`, `data/async-call.k` | `<asyncCalls>` of a frame | register, execute at the end of the call, choose and run the callback, merge outputs | call machine (`callContract`, `callContractCb`), `<vmOutput>` | callbacks answer their call, one level only, each call once |
| Call hooks | `vmhooks/baseOps.md`, `vmhooks/managedei.md` | none of their own | `transferValue`, execute, transfer-and-execute, `createAsyncCall`, `signalError`, `finish` | push commands, wait for them | outputs consumed, errors passed on |
| ESDT | `esdt.md` | `<esdtData>` of an account | transfers, balance checks, builtin functions, roles, NFTs | call machine | supply changes by a role only, a nonce is given once, no partial list |
| Storage | `elrond-config.md` 164-265 | `<storage>` | store, load, reserved keys | accounts | reserved keys untouched, empty values deleted |
| Memory, arguments, logs | `elrond-config.md` 59-162, 268-415 | Wasm memory, `<logs>` | bounds-checked load and store | hooks | no access out of bounds |
| Managed heaps | `vmhooks/manBufOps.md`, `bigIntOps.md`, `smallIntOps.md`, `managedConversions.md`, `utils.md`, `eei-helpers.md` | `<bufferHeap>`, `<bigIntHeap>` of a frame | allocate, read, write, convert | hooks | fresh handles, faithful conversions, heaps private to a frame |
| Crypto hooks | `vmhooks/cryptoei.md` | none | hashes, signatures | K plugin | library |
| Host module | `auto-allocate.md` | Wasm registry | allocate host functions | KWasm | library |
| Scenario driver | `mandos.md` | `<k>`, `<txCount>`, `<newAddresses>`, `<checkedAccounts>`, `<vmOutput>` | set state, deploy, call, query, transfer, reward, checks | pushes the first command of a transaction, waits until both queues are empty | checks see what was set, expectations are about their own transaction, fees and rewards are the only other changes of the supply |
| Scenario translator | `scenario.py` | files, the steps read so far, the configuration between two interpreter runs | read files with their external files, literals and steps to Mandos steps, run them at a log level | `<k>` of the interpreter | literals encoded as contracts read them, set and check translations agree, the log level does not change the verdict |
| Kasmer test API | `kasmer.md` | `<prank>`, `<wasmStore>`, `<exit-code>` | accounts, deploy, storage, balances, roles, assume/assert, prank | call machine, ESDT | effects rolled back with a failing test, callee restored, failures reported |
| Kasmer program | `kasmer.py` | the deployed configuration, the endpoints left | deploy a test contract, run examples, make claims | interpreter runs, exit codes | exit code 0 means passed, runs are isolated, a claim describes the runs |
| CLI, build, snapshots | `kelrond.py`, `utils.py`, `runtime.py`, `kdist/plugin.py` | files | process calls; the snapshot every scenario starts from | `krun` | the snapshot has the system account and an empty `<k>` |
| Contracts | `src/testapi`, `src/esdt-system-sc`, `tests/contracts` | own storage | clients of the hooks | hooks | out of scope |
| KWasm, K, crypto plugin | external | | | | external |

`PROJECT.json` has the same list with the state of the work on each, and the
hazards at the lines where they bite.

## Modules

* `Ledger` - the `<accounts>` cell as far as EGLD and fungible ESDT go: for each
  address, whether it has an account and code, its balance, the tokens it has an
  `<esdtData>` entry for and their balances. The entry is kept apart from the
  balance because `checkESDTBalance` fails on a missing entry, also for 0.
* `CallMachine` - call machine, call hooks, async calls, fungible transfers and
  the `ESDTTransfer` builtin. One action per rewrite rule (an action has several
  alternatives where rules differ by a side condition only), grouped as
  `StackStep`, `CheckStep`, `TransferStep`, `CallStep`, `AsyncStep`, `CodeStep`.
  `CallTx` is the scenario driver's scCall step.
* `CallProperties` - type invariant, invariants, liveness, and the refinement.
* `AtomicTransactions` - the abstract specification of a transaction: charge the
  fee, then commit a world of the same supply or change nothing.
* `EsdtData` - the entries of `<esdtData>`: keys, balances, metadata, roles, last
  nonces, and what a command does to them. `Esdt` - the builtin functions on them
  in any order; `EsdtProperties` - what they promise. `EsdtBuiltins` - the same
  functions as operators, as one call runs them: with the failed checks, their error
  codes and the call of a contract that a transfer may name.
* `MandosLiterals` - the literals of scenario files as bytes, and the arguments of
  fuzzed calls and claims; `LiteralProperties` - the same, read back by decoders
  that are written independently.
* `MandosSteps` - the translation of a scenario step to Mandos steps.
  `MandosRules` - what each Mandos step does to the configuration, the builtin
  functions (`EsdtBuiltins`) that a call runs included.
  `ScenarioRun` - the program that reads, translates and executes files; it
  composes the two. `AbstractScenario` - what a run means, whatever the steps are:
  its parameters are the steps of a file and the effect of a step.
  `ScenarioProperties` - what the steps of a file are (`Programs`), the refinement,
  and what steps promise.
* `Kasmer` - the Kasmer program, the interpreter it runs, and the test API that
  code calls; `KasmerProperties` - what a passed test means.
* `MCCalls`, `MCEsdt`, `MCLiterals`, `MCScenario`, `MCKasmer` and the `.cfg` files -
  the instances.
* Theorems about `CallMachine`, each module extending the one before:
  `CallMachineProofs` (types, exceptions, the layout of the queue and the three stacks),
  `SupplyProofs` (transfers, supply and the refinement); `AsyncProofs` extends
  `CallMachineProofs` too. Theorems about `Esdt`: `EsdtProofs`; about `Kasmer`:
  `KasmerProofs`; about `ScenarioRun` with what it is composed of: `ScenarioProofs`;
  about `MandosLiterals`: `LiteralProofs`. `Sums` has the lemmas on least elements and on
  sums of balances over a finite set of accounts, for `SupplyProofs`, `EsdtProofs`,
  `ScenarioProofs` and `LiteralProofs`.

Four levels of detail meet: `CallMachine` is the node command by command and
implements `AtomicTransactions`; `MandosRules` and `Kasmer` take a call as the one
step, or the few, that this allows; `ScenarioRun` implements `AbstractScenario`,
in which there are no files being read and no interpreter runs. `Esdt` is the token
data in full, of which `CallMachine` and `Kasmer` have the part they touch;
`MandosRules` has all of it.

### How `CallMachine` reads the code

* `commands` is `<commands>`, head first; a command is a record `[op |-> ...]`.
  K functions that expand to several commands (`transferFunds`, `transferESDTs`)
  are operators that return a sequence. `transferESDTsAux` is expanded one token
  at a time; its commands run in the same order.
* `callState` is one record per frame: `callee`, `function`, `vmInput`, `instrs`,
  `asyncCalls`, `out`, `outputAccounts`. `<out>` is kept as "some data or none",
  which is all the callback rule tests. Logs, gas, nonces, heaps and the bytes
  stack are left out.
* `instrs` is a sequence over four symbols. `code` is what is left of the invoked
  function: at each step it may return, signal an error, or make one of the
  modelled host calls, so a contract is any program over them. The other three are
  module instantiation, `#waitCommands` and `#finishExecuteOnDestContext`.
* Host calls take their arguments from the set `Calls` (destination, function,
  EGLD value, token list, builtin arguments), which is a parameter.
* The transaction hash is the number of the transaction; 0 is the empty hash.
* K matches the command on top together with `<instrs>`; rules with `<instrs> .K`
  have the guard `NoInstrs`.
* The checks of `registerAsyncCall` against `b"init"` compare a `String` with
  `Bytes`, and those on builtin callbacks compare an unquoted name with quoted
  ones; `SameAsBytes` and `IsQuotedBuiltin` say so.
* A builtin function parses its arguments; `CallArgs` is what it parses: the
  token payment, absent if there are fewer than two arguments, and the function
  to call next.

Bounds of `CallMachine`: `MaxHostCalls` host calls in a behaviour and `MaxTx` transactions. They
stand in the guards of `HostCall` and `CallTx` and are the only limits; the
theorems hold for every value of them. The stacks and queues are bounded only as
a consequence.

### How `Esdt` reads the code

* The key of an entry is the identifier, followed by the nonce for an NFT
  (`<<"T">>`, `<<"T", 1>>`), as in the code. A transfer takes an identifier as it
  comes, so one may name an NFT by the bytes of its key (`Identifiers`).
* A builtin is a list of checks and then a list of commands. A check that fails
  raises an exception, and the world of the call is restored (this is what
  `CallMachine` shows), so a builtin is a step only when it succeeds. It can also
  get stuck between two commands: two creators of one nonce, or a creation in the
  account of the system contract, leave `saveNFT` or `saveLatestNonce` without a
  rule. `stuck` records that.
* `SetESDTRole` is the test API function, the one way to grant and revoke roles
  outside of a setState step.
* `dropped` is a history variable: who burned with nonce 0 and so removed the
  entry that has the roles and the nonce count.
* Bounds: `MaxSupply`, `MaxNonce`, `MaxUris`, in the guards.

### How the scenario modules read the code

* A Python function that raises returns `{}`; otherwise it returns the singleton of
  its result. So "one element cannot be translated, so the list cannot" needs no
  case of its own.
* A literal is parsed already: `'|'`-separated segments with prefixes (`nested:`,
  `keccak256:`) and an atom (a number, a name, ...); a numeral is its base, digits
  and sign. What is modelled is what the text stands for: bytes. Hashes are 32
  bytes of no known value.
* Numbers are unbounded, as in Python; `BitLength`, `Decimal` and the bytes of a number
  are recursive functions on them. `Elements` is the set of arguments that may occur,
  with all their parts; `Depth` bounds how deep each is nested, so that the recursion of
  `MandosArgumentToBytes` ends, as it does on JSON.
* A JSON object is a function from the keys it has; `"x" \in DOMAIN d` is `'x' in d`.
* `AddressBytes` maps a literal of an address to the account; two literals of one
  account are possible, as in the files of the test suite.
* A Mandos step maps a configuration to the set of the next ones, `{}` when no rule
  applies, which is the code's only way to fail a scenario.
* A call is one step with the outcome `AtomicTransactions` promises. The fee and
  the account of a deployment are outside of what a failure takes back, as in
  `callTx` and `deployTx`. `CallContractAux` has the four rules of that name: a builtin
  function, `callBack`, no contract, a contract. The code of contracts is fixed: `set`,
  `get`, `init`, `fail`.
* A builtin function (`EsdtBuiltins`) is the chain of its checks, in the order of its
  commands and each with the code it raises, and then its effect. A transfer that
  names a function calls it at a receiver that is a contract
  (`DetermineIsSCCallAfter`), without the check for `callBack`. `{}` is a builtin that
  gets stuck. The bounds on the length of arguments are left out.
* The code of an account is the file it was loaded from. The translator writes the
  path of a check from the scenario, and `checkAccountCode` compares it with the
  path in the module, so `ChecksAreExact` compares files and not presence.
* `tx` in the output of a call is a history variable, the transaction it is of.
* `ScenarioRun` has the loop of `run_tests`: the files on the command line, a stack
  of the files being read, the steps still to run, grouped by file or one by one,
  and the interpreter with its `<k>`.

### How `Kasmer` reads the code

* `stage` is where `kasmer.py` is: deploying, between two runs, running, done. `k`
  holds the Mandos steps of `deploy_test` or `run_concrete`. `deployed` is the
  substitution that `deploy_test` returns.
* Code is any program over the functions of the test API, calls, storage writes and
  errors; the test contract imports all of them, a contract under test the ones in
  `ContractImports`. A frame records the `<callee>` and, as `runner`, whose code
  runs: the two differ during a prank.
* A call is pushed and popped as in `CallMachine`, with three differences that the
  code has: `deployContract` does not consume the output of `init`, a failed
  assumption empties `<k>` and the stacks from any depth, and no rule applies to a
  function that requires the test contract as callee and has another.
* `assumed` is a history variable: an assumption failed in this run.
* Claims are predicates on the configuration (`MatchesLhs`, `MatchesRhs`).
* Bounds: `MaxCalls` functions called in a run, `MaxDepth` nested calls,
  `MaxExamples` examples of an endpoint.

### Fairness

`CallMachine!Spec` has weak fairness of `Step`, all the steps of the node and of
the contract. The K rewriter applies a rule whenever one matches, so the node never
stops while a rule applies. Nothing is assumed about the driver: a scenario may stop
after any transaction. The contract may choose among its steps; that it ends is due
to `MaxHostCalls`, and stands for code that ends (out of gas is not modelled).

`ScenarioRun!Spec` and `Kasmer!Spec` have `WF_vars(Next)`: each is one sequential
process that waits for nobody, so it goes on while it can. That reading a file ends
is not assumed but follows, provided that a file does not include itself through
its `externalSteps`; the file systems of the instance are of that kind, and a file
that includes itself is indeed read for ever.

## What the runs check

### The node

All instances have a user `u`, contracts `a` and `b`, an address `x` without an
account, and one token `t`. Four addresses are enough for a caller, a callee,
a third party of a callback or a payment, and a failing destination; contracts
can call each other and themselves.

| Run | Instance | Shows |
|---|---|---|
| `direct_calls` | direct calls with EGLD, token payments, two-token lists, the builtin, fee 0 or 1, 2 transactions, 2 host calls, 788,638 states, 2 minutes | `TypeOK`, `StacksMatchCommands`, `ExceptionIsCaught`, `SupplyConserved`, `DebitsAreCovered`, `TransactionsAreAtomic`, `TransactionsEnd` |
| `async_calls` | async calls with two callback pairs, direct calls and EGLD transfers, 1 transaction, 3 host calls, 322,646 states | `StacksMatchCommands`, `CallsInProgress`, `CallbackAnswersParentCall`, `NoMultilevelAsync`, `CodeSeesTxHash`, `BalancesNonNegative`, `TransactionsAreAtomic`, `TransactionsEnd` |

Two transactions are needed so that a transaction starts with the `<vmOutput>` of
an earlier one; two nested host calls for a failure of a callee that its caller
has to pass on; three for an async call registered inside a call that is followed
by a callback that calls. The list of two equal tokens, of which the payer has
one, fails half way.

* `TypeOK`: every cell has its sort. It also excludes an error code outside
  `ExceptionCode`, which `resolveErrorFromOutput` computes.
* `StacksMatchCommands`: the number of saved frames (worlds) plus pending pushes
  equals the number of commands that will pop them, on every path.
* `ExceptionIsCaught`: a pending `#exception` has an `#endWasm` below it and
  `<vmOutput>` is empty, as `exception-revert` requires.
* `CallsInProgress`: the reason for it (see Proofs).
* `BalancesNonNegative`: no account is overdrawn, in the current world or in a
  saved one. It needs natural amounts and no fee: a negative amount passes
  `VALUE <=Int ORIGFROM`, and `callTx` takes the fee unchecked.
* `SupplyConserved`: every saved world has the supply of the current one (up to
  the transfer under way), so calls neither create nor destroy EGLD or tokens,
  whether they commit or roll back.
* `DebitsAreCovered`: when a token balance is changed, the account exists and a
  debit is covered by the balance, so the error rules of `addToESDTBalance` never
  apply after `checkESDTBalance`; this is why the model leaves them out.
* `CallbackAnswersParentCall`: while a callback runs, the head of the caller's
  `<asyncCalls>` is the call it answers, as `managedGetCallbackClosure` assumes,
  and a payment is reported to the success callback only.
* `NoMultilevelAsync`, `CodeSeesTxHash`: the calls of this instance, its async calls
  and callbacks hand the hash and the call type down. No builtin function is called in
  it. With one, both are false: the function that `ESDTTransfer` calls is entered from a
  call state that was reset, without the call type (`esdt.md` 415; the run
  `multilevel_async` below) and with the empty hash (`esdt.md` 391). This is why
  their theorems need `NoBuiltins`. Only the name of `managedGetOriginalTxHash` says what
  it returns, so the hash is not listed as a disagreement.
* `TransactionsAreAtomic`: the refinement of `AtomicTransactions`. The ledger is
  the oldest snapshot, or the accounts if there is none; the status is "running"
  while commands are left, else the return code of `<vmOutput>`.
* `TransactionsEnd`: the node becomes idle again after every transaction.

Deadlock is checked in these two: the only state without a successor other than
`Finished` would be a stuck node.

### Tokens

`esdt` (about 320,000 states, two minutes): one token, a contract that may create
its NFTs and burn it, the system account, which needs no role, two roles that a test
grants and revokes. Two accounts are enough for a transfer and for a second creator;
a supply of 2 for a balance that is not emptied by one transfer; nonces up to 2
for an NFT that is created after another one was burned; transfers of 0, to oneself,
in a list that fails half way. Nothing more can happen when every quantity is
at its bound or the machine is stuck, so deadlock is not checked.

* `TypeOK`: an entry is well formed; the metadata of an NFT has the nonce of its
  key, and its entry never has roles.
* `SupplyIsAuthorised`: the supply of a token or NFT changes only in one account, by
  a role it has at that moment; every transfer keeps it. In particular a transfer
  of 0 and the removal of empty entries lose and make nothing.
* `NoncesAreCounted`: a creator has counted every nonce that anybody still holds.
  The one way out is a burn with nonce 0, which takes the key of the token itself
  and so can remove the entry with the count (`esdt.md` 334); `dropped` states it.

Two facts that the model shows and no document contradicts: `ESDTNFTAddURI` changes
the copy of the metadata in one account only, and the second creator of a nonce gets
the node stuck instead of failing the call.

### Scenario files

`literals` (23,105 states): all lists of two arguments out of 170-odd literals around
the boundaries: the powers of two where a byte or a sign bit is added, numerals with
leading zeros and odd lengths, names of 0, 1, 21, 22, 23, 32 and 33 characters,
nesting, `|`, lists and dictionaries. Two elements are enough for one to shift the
other, and for two addresses to meet; deadlock is not checked since a list ends.

* `ListsAreDecodable`: elements of a known end are read back from the concatenation,
  with nothing left over. `scenario.py` joins them without separators.
* `NumbersKeepTheirValue`: value, sign and minimal length; the same text names the
  same number as an argument and as a field.
* `AddressesDoNotCollide`: names that fit, do not end in the padding character and do
  not begin with a zero name different accounts; users and contracts never meet. A name
  that begins with ten zeros is the address of a contract, and is in the run.
* `ClaimsPassTheFuzzedNumbers`: a claim and a fuzzed call pass the same number,
  though a claim puts a zero byte before a set top bit.

`scenario` (106,516 states, a minute): a setState step and any two steps out of 23, or
any two calls out of 17, at the three log levels, followed or not by a second file. The
first pool has each kind of step, and with it steps that cannot be translated, that get
stuck, that fail as expected and against expectation; external files are nested and a
missing one is named. The second has each builtin function, with and without
success, as a call and as a query, with a follow-up call that ends and one that fails. Two
steps are enough: every property relates a step to the one before it, and the setup
gives each a non-trivial configuration. The program stops after its verdict, so
deadlock is not checked; a stuck interpreter is a step of the model (`KrunStuck`).

* `FollowsScenario`: the program implements `AbstractScenario` at every log level.
* `ScenariosEnd`: a verdict is always reached.
* `SetStateChecksBack`: a description that setState takes is accepted by checkState,
  on whatever account was there before, if and only if it is `Restorable`: empty
  values, reserved keys and code from a `.wat` file do not come back. Two cases that
  no file of the test suite has are part of it: an empty value under a reserved key
  does come back, since both sides drop it, and of an NFT that is listed twice the
  second balance is kept, so that the first is not found.
* `ChecksAreExact`: a check passes if and only if the account exists and agrees with
  the description on everything there is a check for: nonce, balance, storage on the
  keys of both sides, the file of the code, balances and roles of the tokens it
  names. `scenario.py` 404-442 makes no check for the owner, the last nonces and the
  metadata of NFTs (TODO at 431), although setState sets them; the property
  says that they decide nothing, so an account of `bob` passes a check that
  describes one of `alice`, and the descriptions of the run have such cases. A
  description that compares nothing (every field is `*`, or absent) is accepted for
  an address without an account, as `checkedAccount` (`mandos.md` 526) does not look.
* `ChecksAreForgotten`: `<checkedAccounts>` never outlives its checkState step.
* `ExpectationsConcernTheirTransaction`: the output that an `expect` section is
  compared with is of its own transaction.
* `EgldIsAccounted`: a step changes the EGLD of all accounts by what it sets, rewards
  or takes as a fee, and nothing else.

  It counts the fee, which a failed call keeps. It does not say that the sender has
  it: `callTx` (`mandos.md` 580) subtracts it unchecked, so a balance may end negative.

The model also shows that a failed `init` leaves the account and its code, and that two
literals of one account in one checkState step get stuck. Nothing in the repository says
otherwise. That a query keeps its changes is a disagreement with `mandos.md` 648, below.

### Property tests

`kasmer` (1.3 million states, a minute and a half): a test contract, one contract under
test, one account to impersonate; four API calls, two nested calls, one example. Four
calls are enough to start a prank, call, fail inside and act afterwards, or to create,
register, deploy and call. The contract under test may assert, assume and grant roles.

* `ExitCodeSound`: exit code 0 means that the endpoint ended with OK, or that an
  assumption failed.
* `ContractsComeFromInit`: no test run deploys anything or changes code, since
  `deploy_test` empties `<wasmStore>`. (So a test endpoint that calls
  `deployContract` always fails.)
* `ImpersonationIsVisible`: code with another callee than itself is the test contract
  during a prank. It holds for contracts under test that do not import the prank
  functions and do not call back: `<prank>` is one cell, `<callee>` one per call.
* `FailuresInTestsAreCaught`: an exception in a test finds `<vmOutput>` empty. In
  `init` it may not, because of `deployContract`, and the deployment gets stuck.
* `ClaimsMatchPassedRuns`: a generated claim begins where runs begin unless init left
  a prank open, and a run that passed satisfies it unless the test registered an
  address, left a prank open, or ended at an assumption inside a call.
* `FailedTestsAreRolledBack`: a failed transaction leaves the accounts of the deployed
  configuration, the nonce of the sender aside.
* `KasmerEnds`: every endpoint gets a verdict.

`kasmer.md` 32 says that only the test contract may call the functions;
`assertBool`, `assumeBool`, `setESDTRole`, `checkESDTRole`, `stopPrank` and
`getStorage` are not guarded, and the model lets every contract that imports them call
them. An assumption that fails in `init` ends the deployment with exit code 0, and the
tests run on what there is.

### Disagreements

Six runs expect a violation. They state what a message, a comment or a name in the
code says, and TLC shows a behaviour that contradicts it:

| Run | Statement | What the code does |
|---|---|---|
| `multilevel_async` | "multi-level async calls are not allowed yet" (`async.md` 38) | an async `ESDTTransfer` runs the called function as a direct call (`esdt.md` 415), which can register async calls |
| `direct_callback` | "calling callBack() directly is forbidden" (`elrond-config.md` 699) | `determineIsSCCallAfter` (`esdt.md` 384) runs any function, `callBack` too |
| `async_from_init` | "async call is not allowed at this location" (`async.md` 36) | the guard compares a `String` with `b"init"` and never fails |
| `lost_transfers` | "outputs and logs in the VM output are merged" (`baseOps.md` 495; "TODO concat common items" 512) | the callee's entry of an account replaces the caller's |
| `additional_accounts` | the step is called `checkNoAdditionalAccounts` (`mandos.md` 537, `scenario.py` 712) | it compares the accounts that the checkState step lists with those it checked, which are the same; accounts that exist besides them pass (`mandos.md` 543) |
| `query_changes_state` | "make sure that none of the state changes are persisted" (a TODO of scQuery, `mandos.md` 648) | `queryTxAux` queues the `callContract` of a transaction (`mandos.md` 660), whose changes stay |

Every property of a passing run has a mutant in `PROJECT.json`: a change of a
mapped definition that a plausible bug would make and that breaks the property.
The mutated definitions stand before the originals, marked `mutant`.

## Proofs

### The node

The theorems hold for every set of addresses, tokens, amounts, calls, callbacks and
initial worlds, and every bound, under three assumptions: `AmountAssumption`,
`AddressAssumption` (finitely many addresses: sums over them are defined by folding a
finite set) and `CallsAssumption` (the constants have their types, 0 is an amount, and
in an initial world what is not an account, or has no entry, holds nothing). Every
property of `CallProperties` but the liveness of `TransactionsEnd` is a theorem.

| theorem | property | invariant behind it | further hypothesis |
|---|---|---|---|
| `CallMachineProofs!TypeCorrect` | `TypeOK` | inductive | |
| `CallMachineProofs!CallsStayInProgress` | | `CallsInProgress` | |
| `CallMachineProofs!ExceptionsAreCaught` | `ExceptionIsCaught` | `CallsInProgress` | |
| `CallMachineProofs!StacksMatch` | `StacksMatchCommands` | inductive | |
| `SupplyProofs!DebitsCovered` | `DebitsAreCovered` | `TransfersInOrder` | |
| `SupplyProofs!SupplyIsConserved` | `SupplyConserved` | `SupplyInv` | |
| `SupplyProofs!NoOverdraft` | `BalancesNonNegative` | `TransfersInOrder` | no negative amounts, no fees |
| `SupplyProofs!Atomicity` | `TransactionsAreAtomic` | `TransactionInv` | |
| `AsyncProofs!CallbacksAnswer` | `CallbackAnswersParentCall` | `CallbacksInOrder` | |
| `AsyncProofs!HashIsHandedDown` | `CodeSeesTxHash` | `HashesInOrder` | `NoBuiltins` |
| `AsyncProofs!AsyncCallsStayOnOneLevel` | `NoMultilevelAsync` | `OneAsyncLevel` | `NoBuiltins` |

*Exceptions.* `ExceptionIsCaught` is not inductive: it says nothing of states without an
exception. `CallsInProgress` adds what the code relies on:

1. `CommandsLaidOut`: the queue is a prefix of entry commands of a call
   (`pushWorldState`, `pushCallState`, `resetCallstate`), then commands of its
   body, then its `#endWasm`; below it there is neither an entry nor a body
   command. So whatever raises an exception, which only body commands and code do,
   has the `#endWasm` of its own call below.
2. `<vmOutput>` is empty while entry or body commands are on top: a call clears it
   and only its end sets it.
3. `RunningFrame` and the instructions of the saved frames: code that runs, or
   waits for its own transfers, has an empty `<vmOutput>`, since
   `#finishExecuteOnDestContext` consumes the output of the call before; a saved
   frame is either at its end or waits for a call.

The lemmas before the theorem say how rewriting the top command, or pushing
commands on it, keeps the layout (`RewriteBody`, `PrependBody`, `EnterCall`, ...);
then there is one step per action. Every later proof uses this layout.

*Stacks.* `StacksMatchCommands` compares lengths of stacks with numbers of commands in
the queue, at every depth. The lemmas on `Count` count the commands of a kind in a
sequence, its head and its tail; `StepShape` says what a step may do to queue and stacks
together.

*Transfers and supply.* `TransfersInOrder` says which commands can be next to each other:
a credit is behind its debit, a debit behind its check, so the check still speaks of the
state in which the debit is executed. `SupplyInv` adds that the current world, every saved
world and the committed one have the supply they began with, up to the one credit that is
due (`SupplyConserved` itself), and that an address without an entry for a token holds
none of it (`NoneHidden`), without which a credit that adds an entry would create tokens.
A sum over accounts is a fold, which is defined by recursion over sets; that it can
be taken one account at a time is proved once for every finite set (`SumOf`, `SumAdd`,
... in `Sums`) by a smallest counterexample, which needs only that the natural numbers are
well founded (`WFMin`, a theorem without operator parameter).

`NoOverdraft` needs its hypotheses: a negative amount passes `VALUE <= balance` and takes
from the receiver (a hazard without a property, above), and a fee is charged without a
check that it is covered. A scenario that has neither never overdraws an account.

*The refinement.* `Atomicity` is that `CallMachine`, a transaction of many commands,
implements `AtomicTransactions`: what is committed, together with the status, changes only
by charging a fee, by committing a world of the same supply, or by dropping the
transaction. `TransactionInv` is `CallsEnd` and `Started`: a world is dropped only with
the status OK and restored only with an exception code, and a transaction consists of its
call until that has begun, after which its last command is the one that takes back or
drops the world that was saved first. So the end of the outermost call is where one of
the two happens to that world, and no other command touches it.

*Async calls.* `WorkInOrder` says which commands of an async call follow each other, and
`CallbacksInOrder` that a callback is only entered from the frame that registered its
call, with the result of that very call. `HashesInOrder` and `OneAsyncLevel` go through
frames saved and frames yet to be entered. `NoBuiltins` (no contract calls the
`ESDTTransfer` builtin) is needed for the last two: `determineIsSCCallAfter` makes a
direct call from a call state that was reset, without the hash and the call type of
the call it belongs to, which the run `multilevel_async` shows.

### Tokens

The theorems of `EsdtProofs` hold for every finite set of accounts, every set of tokens,
identifiers, grants, quantities, nonces, URIs and lists, and every bound, under
`EsdtAssumption` and `DataAssumption`: a token is one name, an identifier is at least one
byte (it may be the key of an NFT), nonces and values of lists are natural numbers, and
the token data of the setState step satisfy the three properties.

* `TypeCorrect`: `Spec => []TypeOK`.
* `NoncesStayCounted`: `Spec => []NoncesAreCounted`.
* `SuppliesNeedRoles`: `Spec => SupplyIsAuthorised`.

The invariant behind the three is `DataInv`. `Shaped` is what every command keeps, also
between two of one builtin: the entries have their types, the metadata of an NFT are of
the token and nonce in its key, and the balance is any integer. `Covered` is what holds
when the builtin is done: no balance is negative, and no supply exceeds `MaxSupply`.
`TypeOK` alone is not inductive: a transfer adds to the balance of the receiver without
looking at the bound, which is kept because the supply of all accounts bounds each of
them (`SumBound`).

Each builtin either moves tokens (`Moves`: the supplies are the same) or changes one
balance of one account that is authorised to (`Changes`), and takes no nonce back
(`Keeps`); `Works` says so of a step, with one lemma per builtin. `TransferESDTs` is a
recursive function on prefixes of the list. That this function is defined for every list,
and that every set of data in it is reached by moves, is again a smallest counterexample,
the shortest list for which it is not so.

### Kasmer

`KasmerProofs` is about every set of accounts, contracts, ABIs and API arguments and
every bound, under `KasmerAssumption` (the constants have their types; the test
contract is not the root account) and `NoAccountAssumption` (the value for "no
account" is not an account). The code of the contracts is arbitrary.

* `TypeCorrect`: `Spec => []TypeOK`, which includes that calls are nested: a frame
  and a world are saved for each call, the bottom one outside of all calls.
* `ExitCodesAreSound`: `Spec => []ExitCodeSound`.
* `TestFailuresAreCaught`: `Spec => []FailuresInTestsAreCaught`.
* `CodeComesFromInit`: `Spec => []ContractsComeFromInit`.
* `FailedRunsAreRolledBack`: `Spec => []FailedTestsAreRolledBack`.
* `PranksAreVisible`: `Spec => []ImpersonationIsVisible`, given `NoForeignPranks`.
* `ClaimsAreAboutTheRuns`: `Spec => []ClaimsMatchPassedRuns`, given `NoForeignPranks` and
  `PranksAreNoContracts`.

These are all properties of `KasmerProperties` but its liveness.

`ExitCodeSound` looks at states where the run has stopped. The invariant `IInv` follows
it back: a call is in progress only while the steps behind it are left
(`CallsComeBeforeChecks`), after the expectation was checked the output is still OK
(`OutputIsOK`), an exit code of 0 in a run means that it is over, with
`setExitCode(0)` or an assumption (`ZeroMeansOver`), and the step lists are those of
the stage (`RunsAreCounted`). One lemma covers all that code does, one the Mandos
steps, one the program.

`TestInv` adds what holds only after the deployment: `<wasmStore>` is empty
(`NothingToDeploy`); so no caller on the stack waits without consuming the output, and
code runs with an empty `<vmOutput>` (`OutputsAreConsumed`); and the current world
and all saved ones have the code of the deployed one (`WorldsKeepCode`). The saved
worlds are needed because a rollback makes one of them current. Both invariants were
confirmed with TLC before they were proved.

### Scenario files

`ScenarioProofs` is about all files and lists of files, all steps in them, any accounts and
descriptions and every log level, under `InputAssumption` (files hold JSON: arrays are
lists, objects have finitely many keys, what is used as a number is one; the files
to run exist), `InclusionAssumption` (no file includes itself: otherwise reading does not
end, and the file means nothing) and `DescriptionsAssumption` (the descriptions that are
compared are JSON as well). TLC evaluates the three on the instance.

| theorem | property | invariant behind it |
|---|---|---|
| `ScenarioTypes` | `TypeOK` | `Inv` |
| `ChecksForgotten` | `ChecksAreForgotten` | `Inv` |
| `ExpectationsFollow` | `ExpectationsConcernTheirTransaction` | `Inv` |
| `EgldAccounted` | `EgldIsAccounted` | `Inv`, with one sum per step |
| `ChecksDecide` | `ChecksAreExact` | `Inv` |
| `SetStateRestores` | `SetStateChecksBack` | `EntriesInv` |
| `ScenarioRefinement` | `FollowsScenario` | `MeaningInv` |

*The invariant.* None of the three invariants is inductive, since each is about the first
step in `<k>` and what is behind it comes first some time later. `Inv` therefore says of
every list of steps, the ones found so far in the files being read, the groups still to be
run, and `<k>` itself, that it is `Good`: each step is legal (its numbers are numbers), an
expectation is preceded by expectations and, before them, a call, and behind every recorded
check there is the step that clears it before any other. What is `Good` is kept by
concatenation, which is all the translator does with lists (`Joined`); the lemmas go up
from the lists it starts from to `GetSteps`. Of the configuration `Inv` says that its
accounts are records with numbers in them, that accounts are recorded only while a
clearing step is ahead, and that the output is the one of the last transaction while
an expectation is first.

*Balances.* `EgldAccounted` takes one step at a time: a sum over the accounts after the
step is the sum before with one account, or two, replaced (`SumTake`, `SumExtend` in
`Sums`). A transfer to oneself and a deployment on an address that exists are cases of
their own.

*Checks.* `ChecksDecide` goes through the translation of a description, in both
directions. A list that is joined from parts passes exactly if each part does: checks
change nothing but the set of checked accounts, so each part speaks of the same
account. `ChecksCompare` says what a passed list has compared, `AgreedPasses` that each
check made from a description that agrees passes, and `ChecksRun` that they then pass one
after the other. That a token, and an instance of it, is not skipped is again a property
of what is joined.

*The refinement.* `MeaningInv` is that, in the phase in which files are read, the steps
found so far, continued by the meaning of what is left of the innermost file, then of what
is left of the file that includes it, and so on (`ReadMeans`), are the steps
`Programs` gives for the file on the command line. Reading a step moves it from the right
part to the left one; an external file is opened where its steps stand; a step that cannot
be translated makes the whole meaning `{}`. `Programs` is a recursive function on files,
and that it is defined for files that do not include themselves is proved from
`InclusionAssumption` by a smallest counterexample. With that, every action maps to an
action of `AbstractScenario` or to a stutter: splitting the steps of a file into
interpreter runs concatenates back to them (`StepsFlatten`).

*Set and checked.* `SetStateRestores` needs one thing more of a configuration, that every
entry of an account's token data has all its fields (`EntriesInv`, kept by every step:
a set step and a transfer put entries in, and only change fields they have). From there
the steps of a setState are followed one by one (`TokensSet`): after any number of them,
each key that was set has the balance, and the roles, of some step that set it (`Told`).
Keys of different tokens or nonces differ (`KeysDiffer`), so that step belongs to the same
token and nonce, and the description decides the entry up to the order of instances listed
twice (`Kept`). One direction is then that a check which passes compares exactly what was
set; the other, that each check the translation makes from the description holds,
leaves the configuration as it is, and that there is such a list of checks whenever
there was one of set steps (`JoinedSome`).

The attempt to prove `SetStateChecksBack` showed that its first form, which took
an empty value and a reserved key for reasons of their own, was false for
`ELRONDreward` set to 0 and for an NFT listed twice. Both are now part of `Restorable` and
of the descriptions of the run.

### Literals

`LiteralProofs` is about numerals of any size, names of any characters and length, any
prefixes, and lists and dictionaries of any length and depth, under `LiteralsAssumption`:
an argument is a string, a list or a dictionary of such arguments, and is nested finitely
deep.

* `LiteralTypes`: `Spec => []TypeOK`.
* `ListsDecode`: `Spec => []ListsAreDecodable`.
* `NumbersKept`: `Spec => []NumbersKeepTheirValue`.
* `AddressesDiffer`: `Spec => []AddressesDoNotCollide`.
* `ClaimsAgree`: `Spec => []ClaimsPassTheFuzzedNumbers`.

These are all properties of `LiteralProperties`. The invariant behind them, `IInv`, is
that the bytes are laid out in pieces, one for each argument, the i-th an interpretation of
the i-th argument (`Laid`). `ListsAreDecodable` itself is not inductive: it says nothing of
a list with an argument that has no end of its own, and does not say which bytes belong to
whom. With the pieces, each argument is read by itself (`ArgumentReads`), and the ends a
reader finds are those of the pieces, because `Ends` has one solution (`EndsChosen`).

The rest is arithmetic and recursion. `BitLength[n \div 256]` is 8 less than
`BitLength[n]` (`BitLengthBytes`), so the bytes of a number of at most 8k bits are digits
of it to the base 256, with nothing left after k of them (`ToBytesUnsigned`). A signed
number fits k bytes if and only if the bits of its magnitude are less than 8k
(`FitsByBits`); both directions are needed, the second for "in as few bytes as possible"
(`ToBytesTooShort`). Of each recursive function it is proved that it exists on all
arguments and satisfies its equation: for functions of numbers once (`RecursExists`),
for `MandosArgumentToBytes` by the depth of an argument (`ArgumentsAre`), for the folds by
the finite sets of indices the community module defines them on (`FoldExists`). All
of this is by a smallest counterexample, with no induction theorem.

The attempt to prove `AddressesDoNotCollide` showed that its first form, without the
condition on leading zeros, was false: `address:` followed by ten zero characters and a
name is the address `sc:` gives the name. The condition, and such a name, are now in the
property and in the run.

### What is only model-checked

`TransactionsEnd`, `ScenariosEnd` and `KasmerEnds` are liveness under fairness, out of
the prover's reach. Every other property of a passing run is a theorem.

## Not modelled

* Storage hooks (`elrond-config.md` 164-265), memory access, managed buffers, integer
  heaps and conversions: sequential data structures private to a frame or an account,
  with no part in the interactions above. The rollback of storage is that of
  `<accounts>`; `MandosRules` and `Kasmer` have one key, and the reserved ones.
* Crypto hooks, host allocation, byte-list sorts: library calls and declarations.
* `kelrond.py`, `plugin.py`, `rule_coverage.py`, the JSON and K term formats, reading of
  the ABI and writing of claim files: process calls and I/O.
* Module declarations and `register` as scenario steps, and `checkExpectLogs`: the
  translator does not produce them.
* In the modelled part: gas, logs, account nonces inside calls, callback arguments
  and closures, royalties, hashes, attributes and names of NFTs, and traps of Wasm
  code, for which the semantics has no rule.
* The Rust bindings, the system contract and the example contracts: clients.

`PROJECT.json` lists the hazards that no property covers, with the reason: negative
amounts, a fee that the sender does not have and what a failed deployment leaves behind
(all modelled, with nothing in the repository to compare them with), the payment
reported to a callback, and traps.

## Plan

Done: the call machine, the token builtins, the test API and the Kasmer program,
scenario files and their runner, and literals, with proofs of all
their safety properties.

Left, in this order:

1. `AsyncPromises`: the abstract specification of the async calls of one frame (each
   registered call is executed once, in order, and followed by at most one callback),
   implemented by `CallMachine`.
2. `Storage` and `ManagedHeaps`: reserved keys and deletion; handles, slices and
   conversions against reference definitions.
