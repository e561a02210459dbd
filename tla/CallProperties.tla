--------------------------- MODULE CallProperties ---------------------------
(***************************************************************************)
(* Correctness of CallMachine: its invariants, its termination, and the    *)
(* atomic transactions it implements.                                      *)
(***************************************************************************)
EXTENDS CallMachine

(* Every cell holds a value of its sort, whatever is called.                *)
TypeOK ==
  /\ accounts \in World
  /\ commands \in Seq(Command)
  /\ callState \in CallState
  /\ callStack \in Seq(CallState)
  /\ interimStates \in Seq(World)
  /\ vmOutput \in VMOutput
  /\ txCount \in Nat
  /\ hostCalls \in Nat

CommandsOf(ops) == {i \in DOMAIN commands : commands[i].op \in ops}
Pending(ops) == Cardinality(CommandsOf(ops))

(* Every saved call state and every saved world has exactly one command left *)
(* that will take it back: pushes and pops of callContract, callContractCb,  *)
(* #endWasm and #exception match on every path, the failing ones included.   *)
StacksMatchCommands ==
  /\ Len(callStack) + Pending({"pushCallState"}) = Pending({"popCallState", "endWasm"})
  /\ Len(interimStates) + Pending({"pushWorldState"})
       = Pending({"popWorldState", "dropWorldState", "endWasm"})

(* A pending #exception can always be caught: an #endWasm is below it, and   *)
(* <vmOutput> is empty as exception-revert requires, so no failure of a call *)
(* or a host call leaves the node stuck.                                     *)
ExceptionIsCaught ==
  TopIs("exception") => CommandsOf({"endWasm"}) # {} /\ vmOutput = NoVMOutput

(* How the commands are laid out while calls are in progress: first what is  *)
(* left of the entry of a call (its pushes), then what is left of its body,  *)
(* then the #endWasm of that call, and below it no entry or body command.    *)
EntryOps == {"pushWorldState", "pushCallState", "resetCallstate"}
BodyOps == {"checkAccountExists", "checkBool", "exception", "transferFundsH",
            "transferESDTs", "checkESDTBalance", "addToESDTBalance",
            "appendToOutAccount", "callContractAux", "processBuiltinFunction",
            "determineIsSCCallAfter", "newWasmInstance", "waitWasm", "mkCall",
            "registerAsyncCall", "addAsyncCall"}
LastOps == {"callContractAux", "processBuiltinFunction", "determineIsSCCallAfter",
            "mkCall"}

(* The first m commands are the entry, those up to n the body.               *)
LaidOut(s, m, n) ==
  /\ m <= n
  /\ \A i \in 1..Len(s) :
       /\ s[i].op \in EntryOps <=> i <= m
       /\ s[i].op \in BodyOps <=> m < i /\ i <= n
       /\ s[i].op \in LastOps => i = n
  /\ n > 0 => n < Len(s) /\ s[n + 1].op = "endWasm"
CommandsLaidOut(s) == \E m, n \in 0..Len(s) : LaidOut(s, m, n)

(* The instructions of a frame while commands run: none, the instantiation   *)
(* of the module, or code that waits for a transfer, a registration or a     *)
(* call to complete.                                                         *)
WaitsForCall == <<"waitCommands", "finishExecuteOnDestContext", "code">>
SavedInstrs == {<<>>, WaitsForCall}
RunningInstrs == {<<"code">>, <<"finishExecuteOnDestContext", "code">>}
OwnWorkInstrs == {<<"code">>, <<"waitCommands">>, <<"waitCommands", "code">>}

RunningFrame ==
  /\ callState.instrs \in SavedInstrs \cup RunningInstrs \cup OwnWorkInstrs
                           \cup {<<"initModule">>}
  /\ callState.instrs = <<"initModule">> => TopIs("waitWasm")
  /\ callState.instrs \in RunningInstrs => TopIs("endWasm")
  /\ callState.instrs \in OwnWorkInstrs =>
       \/ TopIs("popCallState")
       \/ commands # <<>> /\ Top.op \in BodyOps \cup {"endWasm"} /\ vmOutput = NoVMOutput

(* A call that is entered or executes its body has no output yet, and code   *)
(* that runs, or waits for its own transfers, has consumed the output of the *)
(* calls it made; every saved frame waits for a call or has ended.  This is  *)
(* what makes ExceptionIsCaught inductive.                                   *)
CallsInProgress ==
  /\ CommandsLaidOut(commands)
  /\ commands # <<>> /\ Top.op \in EntryOps \cup BodyOps => vmOutput = NoVMOutput
  /\ RunningFrame
  /\ \A i \in 1..Len(callStack) : callStack[i].instrs \in SavedInstrs

(* While a callback runs, the first async call of the frame below is the one *)
(* it answers, so managedGetCallbackClosure returns its closure; the name is *)
(* one of that call's callbacks, and value is only ever reported to the      *)
(* callback of a call that succeeded.                                        *)
CallbackAnswersParentCall ==
  InstrIs("code") /\ callState.vmInput.callType = "AsynchronousCallBack" =>
    /\ callStack # <<>> /\ Head(callStack).asyncCalls # <<>>
    /\ LET parent == Head(callStack)
           call   == Head(parent.asyncCalls)
           in     == callState.vmInput
       IN  /\ parent.callee = callState.callee
           /\ in.caller = call.dest
           /\ callState.function \in {call.success, call.error}
           /\ in.callValue # 0 \/ in.esdtTransfers # <<>> =>
                callState.function = call.success

(* Contract code sees the hash of the transaction it runs for, whatever calls *)
(* brought it there: it is what managedGetOriginalTxHash returns              *)
(* (managedei.md:36).  Frames hand it on (baseOps.md:469, async.md:132, 162). *)
(* A builtin function does not: determineIsSCCallAfter reads it (esdt.md:391) *)
(* from a call state that resetCallstate has emptied (elrond-node.md:370), so *)
(* this is a property of calls and callbacks that use no builtin.             *)
CodeSeesTxHash == InstrIs("code") => callState.vmInput.txHash = txCount

(* What is debited and not yet credited by the transfer being executed.      *)
InTransit(t) ==
  IF TopIs("addToESDTBalance") /\ Top.token = t /\ Top.allowNew THEN Top.delta ELSE 0

(* A debit finds the token entry and the balance that checkESDTBalance saw,  *)
(* so its error rules (a debit that would create an entry) never apply, and  *)
(* the credit that follows finds the receiving account.                      *)
DebitsAreCovered ==
  TopIs("addToESDTBalance") =>
    /\ IsAccount(accounts, Top.addr)
    /\ ~Top.allowNew => HoldsESDT(accounts, Top.addr, Top.token, 0 - Top.delta)

(* No call creates or destroys EGLD or tokens: every world saved on the way  *)
(* has the supply of the current one, so neither a commit nor a rollback,    *)
(* at any depth, changes the supply.                                         *)
SupplyConserved ==
  \A i \in 1..Len(interimStates) :
    /\ EGLDSupply(interimStates[i]) = EGLDSupply(accounts)
    /\ \A t \in Token :
         ESDTSupply(interimStates[i], t) = ESDTSupply(accounts, t) + InTransit(t)

(* No account is overdrawn, in the current world or in a saved one.          *)
BalancesNonNegative ==
  Solvent(accounts) /\ \A i \in 1..Len(interimStates) : Solvent(interimStates[i])

(* The ledger a transaction leaves behind, and its outcome.                  *)
CommittedWorld ==
  IF interimStates = <<>> THEN accounts ELSE interimStates[Len(interimStates)]
Status == IF commands # <<>> THEN "running" ELSE vmOutput.returnCode

Atomic == INSTANCE AtomicTransactions WITH ledger <- CommittedWorld, status <- Status

(* A transaction commits as a whole or has no effect, and its <vmOutput>     *)
(* says which: a failure at any depth that ends the transaction undoes its   *)
(* transfers and those of the calls and callbacks it made.                   *)
TransactionsAreAtomic == Atomic!Spec

(* Every transaction ends, with the node idle again, if the contract code    *)
(* ends: no sequence of calls, failures and callbacks makes the commands and *)
(* the instructions wait for each other.                                     *)
TransactionsEnd == ~Idle ~> Idle

(* Statements of the code's own messages and comments.  The last three do not *)
(* hold, and NoMultilevelAsync holds only without the ESDTTransfer builtin.   *)

AllFrames == <<callState>> \o callStack

(* async.md: "multi-level async calls are not allowed yet".  Code that runs  *)
(* on behalf of a caller whose own code has ended, and whose async calls are *)
(* being executed, registers no async call.                                  *)
ExecutesAsyncCalls(frame) == frame.instrs = <<>> /\ frame.asyncCalls # <<>>
NoMultilevelAsync ==
  InstrIs("code") /\ callState.asyncCalls # <<>> =>
    \A i \in 1..Len(callStack) : ~ExecutesAsyncCalls(callStack[i])

(* elrond-config.md: "calling callBack() directly is forbidden".  A frame    *)
(* runs callBack only as the callback of an async call.                      *)
CallBackOnlyAsCallback ==
  \A i \in 1..Len(AllFrames) :
    AllFrames[i].function = "callBack" =>
      AllFrames[i].vmInput.callType = "AsynchronousCallBack"

(* async.md: "async call is not allowed at this location".  An init function *)
(* makes no async call.                                                      *)
NoAsyncFromInit ==
  \A i \in 1..Len(AllFrames) :
    AllFrames[i].function = "init" => AllFrames[i].asyncCalls = <<>>

(* async.md and baseOps.md: "TODO concat common items".  The EGLD transfers  *)
(* in the output of a committing transaction add up to the balance changes.  *)
SentTo(oas, a) == LET ts == oas[a] IN SumFunction([i \in DOMAIN ts |-> ts[i].value])
SentBy(oas, a) ==
  SumFunction([b \in Address |->
    SumFunction([i \in DOMAIN oas[b] |-> IF oas[b][i].sender = a THEN oas[b][i].value
                                                                 ELSE 0])])
OutputExplainsBalances ==
  Len(interimStates) = 1 /\ TopIs("dropWorldState") =>
    \A a \in Address :
      accounts[a].balance - interimStates[1][a].balance
        = SentTo(vmOutput.outputAccounts, a) - SentBy(vmOutput.outputAccounts, a)

=============================================================================
