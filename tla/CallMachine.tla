----------------------------- MODULE CallMachine -----------------------------
(***************************************************************************)
(* The node of the MultiversX semantics executing contract calls: one      *)
(* action per rewrite rule over <commands>, <callState>, <callStack>,      *)
(* <interimStates>, <vmOutput> and <accounts>.  A contract is any program: *)
(* its code makes an arbitrary choice among the host calls below, at most  *)
(* MaxHostCalls of them in a behaviour.  The transactions that start the   *)
(* calls are scenario callTx steps, at most MaxTx of them.                 *)
(*                                                                         *)
(* A definition marked "mutant" is the next definition with a bug put in,  *)
(* and no part of the model: the properties must refute it.                *)
(***************************************************************************)
EXTENDS Ledger, Sequences

CONSTANTS NoAddress,     \* .Bytes: callee and caller of a reset call state
          FunctionName,  \* names a call can carry, the special ones included
          Exports,       \* functions the contract module exports
          Senders,       \* accounts that send transactions
          Calls,         \* the calls a transaction or a contract can make
          Callbacks,     \* the callback pairs of an async call
          Fees,          \* gasLimit * gasPrice of a transaction
          InitialWorlds, \* states of <accounts> the scenario starts from
          MaxHostCalls, MaxTx

(* ------------------------------- Data ---------------------------------- *)

AnyAddress == Address \cup {NoAddress}
NoName == ""                       \* b"": no function to call after a builtin
Name == FunctionName \cup {NoName}

CallType == {"DirectCall", "AsynchronousCall", "AsynchronousCallBack"}
ExceptionCode == {"FunctionNotFound", "ContractNotFound", "UserError",
                  "OutOfFunds", "ExecutionFailed"}
NoReturnCode == "none"

ESDTTransfer == [token : Token, value : Amount]
OutputTransfer == [sender : AnyAddress, value : Amount, esdt : Seq(ESDTTransfer)]
OutputAccounts == [Address -> Seq(OutputTransfer)]

(* What the ESDTTransfer builtin parses from <callArgs>: one transfer (none *)
(* when fewer than two arguments were given) and the function to call next. *)
CallArgs == [esdt : Seq(ESDTTransfer), func : Name]
NoArgs == [esdt |-> <<>>, func |-> NoName]

VmInput == [caller : AnyAddress, callValue : Amount, callType : CallType,
            esdtTransfers : Seq(ESDTTransfer), callArgs : CallArgs, txHash : Nat]

CallRequest == [dest : Address, func : Name, value : Amount,
                esdt : Seq(ESDTTransfer), args : CallArgs]
CallbackPair == [success : Name, error : Name]
AsyncCall == [dest : Address, func : Name, args : CallArgs, value : Amount,
              success : Name, error : Name]

ASSUME CallsAssumption ==
  /\ NoAddress \notin Address
  /\ {"callBack", "init", "ESDTTransfer"} \cup Exports \subseteq FunctionName
  /\ NoName \notin FunctionName
  /\ Senders \subseteq Address
  /\ Calls \subseteq CallRequest
  /\ Callbacks \subseteq CallbackPair
  /\ Fees \subseteq Nat
  /\ InitialWorlds \subseteq World /\ \A w \in InitialWorlds : NoEntryIsZero(w)
  /\ MaxHostCalls \in Nat /\ MaxTx \in Nat

(* "initModule" stands for the instructions of newWasmInstance, "code" for  *)
(* what is left of the invoked function.                                    *)
Instr == {"initModule", "code", "waitCommands", "finishExecuteOnDestContext"}

CallState == [callee : AnyAddress, function : Name, vmInput : VmInput,
              instrs : Seq(Instr), asyncCalls : Seq(AsyncCall),
              out : BOOLEAN, outputAccounts : OutputAccounts]

VMOutput == [returnCode : {"OK", NoReturnCode} \cup ExceptionCode,
             out : BOOLEAN, outputAccounts : OutputAccounts]

NoOutputAccounts == [a \in Address |-> <<>>]
NoVMOutput == [returnCode |-> NoReturnCode, out |-> FALSE,
               outputAccounts |-> NoOutputAccounts]

DefaultVmInput == [caller |-> NoAddress, callValue |-> 0, callType |-> "DirectCall",
                   esdtTransfers |-> <<>>, callArgs |-> NoArgs, txHash |-> 0]
DefaultCallState == [callee |-> NoAddress, function |-> NoName,
                     vmInput |-> DefaultVmInput, instrs |-> <<>>,
                     asyncCalls |-> <<>>, out |-> FALSE,
                     outputAccounts |-> NoOutputAccounts]

(* ------------------------------ Commands -------------------------------- *)

PlainOp == {"pushWorldState", "popWorldState", "dropWorldState", "pushCallState",
            "popCallState", "resetCallstate", "newWasmInstance", "waitWasm",
            "endWasm", "asyncExecute", "setVMOutput", "executeAsyncLocalCalls",
            "executeAsyncLocalCall", "executeAsyncLocalCallback",
            "dropAsyncLocalCall", "mergeOutputs"}

Command ==
  [op : PlainOp]
  \cup [op : {"checkAccountExists"}, addr : AnyAddress]
  \cup [op : {"checkBool"}, ok : BOOLEAN]
  \cup [op : {"exception"}, code : ExceptionCode]
  \cup [op : {"transferFundsH"}, from : AnyAddress, to : AnyAddress, value : Amount]
  \cup [op : {"transferESDTs"}, from : AnyAddress, to : AnyAddress,
        esdt : Seq(ESDTTransfer)]
  \cup [op : {"checkESDTBalance"}, addr : AnyAddress, token : Token, value : Amount]
  \cup [op : {"addToESDTBalance"}, addr : AnyAddress, token : Token, delta : Int,
        allowNew : BOOLEAN]
  \cup [op : {"appendToOutAccount"}, addr : AnyAddress, transfer : OutputTransfer]
  \cup [op : {"callContract", "callContractCb", "mkCall"}, to : AnyAddress,
        func : Name, input : VmInput]
  \cup [op : {"callContractAux", "processBuiltinFunction", "determineIsSCCallAfter"},
        from : AnyAddress, to : AnyAddress, func : Name, input : VmInput]
  \cup [op : {"registerAsyncCall", "addAsyncCall"}, call : AsyncCall]

Plain(op) == [op |-> op]
CheckAccountExists(a) == [op |-> "checkAccountExists", addr |-> a]
CheckBool(b) == [op |-> "checkBool", ok |-> b]
Exception(ec) == [op |-> "exception", code |-> ec]
TransferFundsH(a, b, v) == [op |-> "transferFundsH", from |-> a, to |-> b, value |-> v]
TransferESDTsAux(a, b, l) == [op |-> "transferESDTs", from |-> a, to |-> b, esdt |-> l]
CheckESDTBalance(a, t, v) ==
  [op |-> "checkESDTBalance", addr |-> a, token |-> t, value |-> v]
AddToESDTBalance(a, t, d, new) ==
  [op |-> "addToESDTBalance", addr |-> a, token |-> t, delta |-> d, allowNew |-> new]
AppendToOutAccount(a, from, v, l) ==
  [op |-> "appendToOutAccount", addr |-> a,
   transfer |-> [sender |-> from, value |-> v, esdt |-> l]]
Call(op, to, f, in) == [op |-> op, to |-> to, func |-> f, input |-> in]
CallFrom(op, from, to, f, in) ==
  [op |-> op, from |-> from, to |-> to, func |-> f, input |-> in]
Async(op, c) == [op |-> op, call |-> c]

(* The K functions that expand to several commands.                         *)
TransferFunds(a, b, v) ==
  <<CheckAccountExists(a), CheckAccountExists(b), TransferFundsH(a, b, v)>>

TransferESDTs(a, b, l) == <<TransferESDTsAux(a, b, l), AppendToOutAccount(b, a, 0, l)>>

TransferESDTNoDebit(a, b, t) ==                                         \* mutant
  <<CheckAccountExists(a), CheckAccountExists(b),
    CheckESDTBalance(a, t.token, t.value), AddToESDTBalance(b, t.token, t.value, TRUE)>>
TransferESDTToAnyone(a, b, t) ==                                        \* mutant
  <<CheckAccountExists(a), CheckESDTBalance(a, t.token, t.value),
    AddToESDTBalance(a, t.token, 0 - t.value, FALSE),
    AddToESDTBalance(b, t.token, t.value, TRUE)>>
TransferESDT(a, b, t) ==
  <<CheckAccountExists(a), CheckAccountExists(b),
    CheckESDTBalance(a, t.token, t.value),
    AddToESDTBalance(a, t.token, 0 - t.value, FALSE),
    AddToESDTBalance(b, t.token, t.value, TRUE)>>

IsBuiltin(f) == f = "ESDTTransfer"

(* ------------------------------- State ---------------------------------- *)

VARIABLES accounts,      \* <accounts>
          commands,      \* <commands>, the next command first
          callState,     \* <callState> of the running call
          callStack,     \* <callStack>, the direct caller first
          interimStates, \* <interimStates>, the most recent snapshot first
          vmOutput,      \* <vmOutput>
          txCount,       \* <txCount>, transactions sent
          hostCalls      \* host calls made, to bound the contracts

driver == <<txCount, hostCalls>>
vars == <<accounts, commands, callState, callStack, interimStates, vmOutput, driver>>

Top == Head(commands)
TopIs(op) == commands # <<>> /\ Head(commands).op = op
Replace(new) == commands' = new \o Tail(commands)    \* rewrite the top command
InstrIs(i) == callState.instrs # <<>> /\ Head(callState.instrs) = i
NoInstrs == callState.instrs = <<>>
CommandsHaveControl == NoInstrs \/ InstrIs("waitCommands")
Idle == commands = <<>> /\ NoInstrs

Init == /\ accounts \in InitialWorlds
        /\ commands = <<>>
        /\ callState = DefaultCallState
        /\ callStack = <<>>
        /\ interimStates = <<>>
        /\ vmOutput = NoVMOutput
        /\ txCount = 0
        /\ hostCalls = 0

(* The input of a call made by the running frame: its transaction hash is    *)
(* passed on.                                                                *)
CallInputLosesHash(caller, value, type, esdt, args) ==                  \* mutant
  [caller |-> caller, callValue |-> value, callType |-> type,
   esdtTransfers |-> esdt, callArgs |-> args, txHash |-> DefaultVmInput.txHash]
CallInput(caller, value, type, esdt, args) ==
  [caller |-> caller, callValue |-> value, callType |-> type,
   esdtTransfers |-> esdt, callArgs |-> args, txHash |-> callState.vmInput.txHash]

(* ------------------- Call state and world state stacks ------------------- *)

PushWorldState ==
  /\ TopIs("pushWorldState") /\ Replace(<<>>)
  /\ interimStates' = <<accounts>> \o interimStates
  /\ UNCHANGED <<accounts, callState, callStack, vmOutput, driver>>

PopWorldState ==
  /\ TopIs("popWorldState") /\ Replace(<<>>)
  /\ interimStates # <<>>
  /\ accounts' = Head(interimStates)
  /\ interimStates' = Tail(interimStates)
  /\ UNCHANGED <<callState, callStack, vmOutput, driver>>

DropWorldState ==
  /\ TopIs("dropWorldState") /\ Replace(<<>>)
  /\ interimStates # <<>>
  /\ interimStates' = Tail(interimStates)
  /\ UNCHANGED <<accounts, callState, callStack, vmOutput, driver>>

PushCallState ==
  /\ TopIs("pushCallState") /\ Replace(<<>>)
  /\ callStack' = <<callState>> \o callStack
  /\ UNCHANGED <<accounts, callState, interimStates, vmOutput, driver>>

PopCallState ==
  /\ TopIs("popCallState") /\ Replace(<<>>)
  /\ callStack # <<>>
  /\ callState' = Head(callStack)
  /\ callStack' = Tail(callStack)
  /\ UNCHANGED <<accounts, interimStates, vmOutput, driver>>

ResetCallstate ==
  /\ TopIs("resetCallstate") /\ Replace(<<>>)
  /\ callState' = DefaultCallState
  /\ UNCHANGED <<accounts, callStack, interimStates, vmOutput, driver>>

(* ------------------------------ Exceptions ------------------------------- *)

DoCheckAccountExists ==
  /\ TopIs("checkAccountExists")
  /\ Replace(IF IsAccount(accounts, Top.addr) THEN <<>>
                                               ELSE <<Exception("ExecutionFailed")>>)
  /\ UNCHANGED <<accounts, callState, callStack, interimStates, vmOutput, driver>>

DoCheckBool ==
  /\ TopIs("checkBool")
  /\ Replace(IF Top.ok THEN <<>> ELSE <<Exception("ExecutionFailed")>>)
  /\ UNCHANGED <<accounts, callState, callStack, interimStates, vmOutput, driver>>

Failure(ec) == [returnCode |-> ec, out |-> FALSE, outputAccounts |-> NoOutputAccounts]

(* An exception drops the commands up to the #endWasm of the failing call,  *)
(* then unwinds that call and restores the world saved at its entry.        *)
ExceptionSkip ==
  /\ TopIs("exception") /\ Len(commands) > 1
  /\ commands[2].op # "endWasm"
  /\ commands' = <<Top>> \o Tail(Tail(commands))
  /\ UNCHANGED <<accounts, callState, callStack, interimStates, vmOutput, driver>>

ExceptionRevert ==
  /\ TopIs("exception") /\ Len(commands) > 1
  /\ commands[2].op = "endWasm"
  /\ vmOutput = NoVMOutput
  /\ commands' = <<Plain("popCallState"), Plain("popWorldState")>> \o Tail(Tail(commands))
  /\ vmOutput' = Failure(Top.code)
  /\ UNCHANGED <<accounts, callState, callStack, interimStates, driver>>

(* #throwException in the instructions: the code that follows is dropped.   *)
ThrowException(ec) ==
  /\ callState' = [callState EXCEPT !.instrs = <<>>]
  /\ commands' = <<Exception(ec)>> \o commands

(* ------------------------------- Transfers ------------------------------- *)

TransferFundsSelf ==
  /\ TopIs("transferFundsH") /\ Top.from = Top.to
  /\ IsAccount(accounts, Top.from) /\ Top.value <= accounts[Top.from].balance
  /\ Replace(<<AppendToOutAccount(Top.to, Top.from, Top.value, <<>>)>>)
  /\ UNCHANGED <<accounts, callState, callStack, interimStates, vmOutput, driver>>

TransferFundsUnchecked ==                                               \* mutant
  /\ TopIs("transferFundsH") /\ Top.from # Top.to
  /\ IsAccount(accounts, Top.from) /\ IsAccount(accounts, Top.to)
  /\ accounts' = Credit(Credit(accounts, Top.from, 0 - Top.value), Top.to, Top.value)
  /\ Replace(<<AppendToOutAccount(Top.to, Top.from, Top.value, <<>>)>>)
  /\ UNCHANGED <<callState, callStack, interimStates, vmOutput, driver>>
TransferFundsMove ==
  /\ TopIs("transferFundsH") /\ Top.from # Top.to
  /\ IsAccount(accounts, Top.from) /\ IsAccount(accounts, Top.to)
  /\ Top.value <= accounts[Top.from].balance
  /\ accounts' = Credit(Credit(accounts, Top.from, 0 - Top.value), Top.to, Top.value)
  /\ Replace(<<AppendToOutAccount(Top.to, Top.from, Top.value, <<>>)>>)
  /\ UNCHANGED <<callState, callStack, interimStates, vmOutput, driver>>

TransferFundsOutOfFunds ==
  /\ TopIs("transferFundsH")
  /\ IsAccount(accounts, Top.from) /\ Top.value > accounts[Top.from].balance
  /\ Replace(<<Exception("OutOfFunds")>>)
  /\ UNCHANGED <<accounts, callState, callStack, interimStates, vmOutput, driver>>

(* The list is expanded one token at a time; K expands it at once.          *)
DoTransferESDTs ==
  /\ TopIs("transferESDTs")
  /\ Replace(IF Top.esdt = <<>> THEN <<>>
             ELSE TransferESDT(Top.from, Top.to, Head(Top.esdt))
                  \o <<TransferESDTsAux(Top.from, Top.to, Tail(Top.esdt))>>)
  /\ UNCHANGED <<accounts, callState, callStack, interimStates, vmOutput, driver>>

HoldsESDT(w, a, t, v) == IsAccount(w, a) /\ t \in w[a].held /\ v <= w[a].esdt[t]

DoCheckESDTBalance ==
  /\ TopIs("checkESDTBalance") /\ CommandsHaveControl
  /\ Replace(IF HoldsESDT(accounts, Top.addr, Top.token, Top.value)
             THEN <<>> ELSE <<Exception("OutOfFunds")>>)
  /\ UNCHANGED <<accounts, callState, callStack, interimStates, vmOutput, driver>>

(* The rules for a debit of a token the sender does not hold are left out:  *)
(* checkESDTBalance runs first (see DebitsAreCovered in CallProperties).    *)
DoAddToESDTBalance ==
  /\ TopIs("addToESDTBalance")
  /\ IsAccount(accounts, Top.addr)
  /\ Top.allowNew \/ Top.token \in accounts[Top.addr].held
  /\ accounts' = [accounts EXCEPT
                    ![Top.addr].held = @ \cup {Top.token},
                    ![Top.addr].esdt[Top.token] =
                       IF Top.token \in accounts[Top.addr].held THEN @ + Top.delta
                                                                ELSE Top.delta]
  /\ Replace(<<>>)
  /\ UNCHANGED <<callState, callStack, interimStates, vmOutput, driver>>

NonZeroOutputTransfer(t) == t.value # 0 \/ t.esdt # <<>>

DoAppendToOutAccount ==
  /\ TopIs("appendToOutAccount") /\ Replace(<<>>)
  /\ callState' = IF NonZeroOutputTransfer(Top.transfer)
                  THEN [callState EXCEPT !.outputAccounts[Top.addr] =
                          Append(@, Top.transfer)]
                  ELSE callState
  /\ UNCHANGED <<accounts, callStack, interimStates, vmOutput, driver>>

(* ---------------------------- Contract calls ----------------------------- *)

PaysBeforeSnapshot ==                                                   \* mutant
  /\ TopIs("callContract")
  /\ LET in == Top.input
     IN  Replace(TransferFunds(in.caller, Top.to, in.callValue)
                 \o TransferESDTs(in.caller, Top.to, in.esdtTransfers)
                 \o <<Plain("pushWorldState"), Plain("pushCallState"),
                      Plain("resetCallstate"),
                      CallFrom("callContractAux", in.caller, Top.to, Top.func, in),
                      Plain("endWasm")>>)
  /\ vmOutput' = NoVMOutput
  /\ UNCHANGED <<accounts, callState, callStack, interimStates, driver>>
DoCallContract ==
  /\ TopIs("callContract")
  /\ LET in == Top.input
     IN  Replace(<<Plain("pushWorldState"), Plain("pushCallState"),
                   Plain("resetCallstate")>>
                 \o TransferFunds(in.caller, Top.to, in.callValue)
                 \o TransferESDTs(in.caller, Top.to, in.esdtTransfers)
                 \o <<CallFrom("callContractAux", in.caller, Top.to, Top.func, in),
                      Plain("endWasm")>>)
  /\ vmOutput' = NoVMOutput
  /\ UNCHANGED <<accounts, callState, callStack, interimStates, driver>>

NewInstanceAndCall(to, f, in) == <<Plain("newWasmInstance"), Call("mkCall", to, f, in)>>

CallContractAux ==
  /\ TopIs("callContractAux") /\ NoInstrs
  /\ ~IsBuiltin(Top.func) /\ Top.func # "callBack" /\ IsContract(accounts, Top.to)
  /\ Replace(NewInstanceAndCall(Top.to, Top.func, Top.input))
  /\ UNCHANGED <<accounts, callState, callStack, interimStates, vmOutput, driver>>

CallContractAuxBuiltin ==
  /\ TopIs("callContractAux") /\ NoInstrs /\ IsBuiltin(Top.func)
  /\ Replace(<<CallFrom("processBuiltinFunction", Top.from, Top.to, Top.func, Top.input)>>)
  /\ UNCHANGED <<accounts, callState, callStack, interimStates, vmOutput, driver>>

CallContractAuxErrCallback ==
  /\ TopIs("callContractAux") /\ NoInstrs /\ Top.func = "callBack"
  /\ Replace(<<Exception("ExecutionFailed")>>)
  /\ UNCHANGED <<accounts, callState, callStack, interimStates, vmOutput, driver>>

CallContractAuxNotContract ==
  /\ TopIs("callContractAux") /\ NoInstrs
  /\ ~IsBuiltin(Top.func) /\ Top.func # "callBack"
  /\ IsAccount(accounts, Top.to) /\ ~accounts[Top.to].code
  /\ Replace(<<Exception("ContractNotFound")>>)
  /\ UNCHANGED <<accounts, callState, callStack, interimStates, vmOutput, driver>>

(* A callback runs in the account that made the call; nothing is paid.      *)
CallbackKeepsVMOutput ==                                                \* mutant
  /\ TopIs("callContractCb") /\ IsContract(accounts, Top.to)
  /\ Replace(<<Plain("pushWorldState"), Plain("pushCallState"),
               Plain("resetCallstate")>>
             \o NewInstanceAndCall(Top.to, Top.func, Top.input)
             \o <<Plain("endWasm")>>)
  /\ UNCHANGED <<accounts, callState, callStack, interimStates, vmOutput, driver>>
CallbackWithoutSnapshot ==                                              \* mutant
  /\ TopIs("callContractCb") /\ IsContract(accounts, Top.to)
  /\ Replace(<<Plain("pushCallState"), Plain("resetCallstate")>>
             \o NewInstanceAndCall(Top.to, Top.func, Top.input)
             \o <<Plain("endWasm")>>)
  /\ vmOutput' = NoVMOutput
  /\ UNCHANGED <<accounts, callState, callStack, interimStates, driver>>
DoCallContractCb ==
  /\ TopIs("callContractCb") /\ IsContract(accounts, Top.to)
  /\ Replace(<<Plain("pushWorldState"), Plain("pushCallState"),
               Plain("resetCallstate")>>
             \o NewInstanceAndCall(Top.to, Top.func, Top.input)
             \o <<Plain("endWasm")>>)
  /\ vmOutput' = NoVMOutput
  /\ UNCHANGED <<accounts, callState, callStack, interimStates, driver>>

NewWasmInstance ==
  /\ TopIs("newWasmInstance") /\ NoInstrs
  /\ Replace(<<Plain("waitWasm")>>)
  /\ callState' = [callState EXCEPT !.instrs = <<"initModule">>]
  /\ UNCHANGED <<accounts, callStack, interimStates, vmOutput, driver>>

WaitWasm ==
  /\ TopIs("waitWasm") /\ NoInstrs /\ Replace(<<>>)
  /\ UNCHANGED <<accounts, callState, callStack, interimStates, vmOutput, driver>>

MkCall ==
  /\ TopIs("mkCall") /\ NoInstrs /\ Top.func \in Exports /\ Replace(<<>>)
  /\ callState' = [callState EXCEPT !.callee = Top.to, !.function = Top.func,
                                    !.vmInput = Top.input, !.instrs = <<"code">>,
                                    !.asyncCalls = <<>>, !.out = FALSE]
  /\ UNCHANGED <<accounts, callStack, interimStates, vmOutput, driver>>

MkCallFuncNotFound ==
  /\ TopIs("mkCall") /\ NoInstrs /\ Top.func \notin Exports
  /\ Replace(<<Exception("FunctionNotFound")>>)
  /\ UNCHANGED <<accounts, callState, callStack, interimStates, vmOutput, driver>>

EndWasmKeepsSnapshot ==                                                 \* mutant
  /\ TopIs("endWasm") /\ NoInstrs
  /\ Replace(<<Plain("asyncExecute"), Plain("setVMOutput"), Plain("popCallState")>>)
  /\ UNCHANGED <<accounts, callState, callStack, interimStates, vmOutput, driver>>
EndWasm ==
  /\ TopIs("endWasm") /\ NoInstrs
  /\ Replace(<<Plain("asyncExecute"), Plain("setVMOutput"), Plain("popCallState"),
               Plain("dropWorldState")>>)
  /\ UNCHANGED <<accounts, callState, callStack, interimStates, vmOutput, driver>>

SetVMOutputKeepsFailure ==                                              \* mutant
  /\ TopIs("setVMOutput") /\ Replace(<<>>)
  /\ vmOutput' = IF vmOutput.returnCode \in ExceptionCode THEN vmOutput
                 ELSE [returnCode |-> "OK", out |-> callState.out,
                       outputAccounts |-> callState.outputAccounts]
  /\ UNCHANGED <<accounts, callState, callStack, interimStates, driver>>
SetVMOutput ==
  /\ TopIs("setVMOutput") /\ Replace(<<>>)
  /\ vmOutput' = [returnCode |-> "OK", out |-> callState.out,
                  outputAccounts |-> callState.outputAccounts]
  /\ UNCHANGED <<accounts, callState, callStack, interimStates, driver>>

(* ------------------- The ESDTTransfer builtin function ------------------- *)

DoProcessBuiltinFunction ==
  /\ TopIs("processBuiltinFunction") /\ NoInstrs
  /\ LET esdt == Top.input.callArgs.esdt
     IN  Replace(<<CheckBool(Top.input.callValue = 0), CheckBool(esdt # <<>>),
                   CheckBool(esdt # <<>> /\ Head(esdt).value > 0)>>
                 \o TransferESDTs(Top.from, Top.to, esdt)
                 \o <<CallFrom("determineIsSCCallAfter", Top.from, Top.to, Top.func,
                               Top.input)>>)
  /\ UNCHANGED <<accounts, callState, callStack, interimStates, vmOutput, driver>>

MkVmInputEsdtExec(from, args) == CallInput(from, 0, "DirectCall", args.esdt, NoArgs)

DetermineIsSCCallAfter ==
  /\ TopIs("determineIsSCCallAfter") /\ NoInstrs
  /\ LET args == Top.input.callArgs
     IN  Replace(IF args.func # NoName /\ IsContract(accounts, Top.to)
                 THEN NewInstanceAndCall(Top.to, args.func,
                                         MkVmInputEsdtExec(Top.from, args))
                 ELSE <<>>)
  /\ UNCHANGED <<accounts, callState, callStack, interimStates, vmOutput, driver>>

(* ------------------------------ Async calls ------------------------------ *)

IsCallAsync(type) == type \in {"AsynchronousCall", "AsynchronousCallBack"}

IsAsyncItself == IsCallAsync(callState.vmInput.callType)                \* mutant
IsMultilevelAsync ==
  \/ IsCallAsync(callState.vmInput.callType)
  \/ \E i \in 1..Len(callStack) : IsCallAsync(callStack[i].vmInput.callType)

(* The guards on "init" and "upgradeContract" compare a String with a Bytes  *)
(* literal, never the same term; the guards on builtin callbacks compare an  *)
(* unquoted name with the quoted builtin names, which it never is.           *)
SameAsBytes(string) == FALSE
IsQuotedBuiltin(unquoted) == FALSE

RegisterAsyncCall ==
  /\ TopIs("registerAsyncCall")
  /\ LET c == Top.call
     IN  Replace(<<CheckBool(~SameAsBytes(c.success)),
                   CheckBool(~IsQuotedBuiltin(c.success)),
                   CheckBool(~SameAsBytes(c.error)),
                   CheckBool(~IsQuotedBuiltin(c.error)),
                   CheckBool(~SameAsBytes(callState.function)),
                   CheckBool(~IsMultilevelAsync),
                   Async("addAsyncCall", c)>>)
  /\ UNCHANGED <<accounts, callState, callStack, interimStates, vmOutput, driver>>

AddAsyncCall ==
  /\ TopIs("addAsyncCall")
  /\ callState' = [callState EXCEPT !.asyncCalls = Append(@, Top.call)]
  /\ Replace(<<>>)
  /\ UNCHANGED <<accounts, callStack, interimStates, vmOutput, driver>>

AsyncExecute ==
  /\ TopIs("asyncExecute") /\ Replace(<<Plain("executeAsyncLocalCalls")>>)
  /\ UNCHANGED <<accounts, callState, callStack, interimStates, vmOutput, driver>>

ExecuteAsyncLocalCalls ==
  /\ TopIs("executeAsyncLocalCalls") /\ NoInstrs
  /\ Replace(IF callState.asyncCalls = <<>> THEN <<>>
             ELSE <<Plain("executeAsyncLocalCall"), Plain("executeAsyncLocalCallback"),
                    Plain("dropAsyncLocalCall"), Plain("executeAsyncLocalCalls")>>)
  /\ UNCHANGED <<accounts, callState, callStack, interimStates, vmOutput, driver>>

KeepsAsyncLocalCall ==                                                  \* mutant
  /\ TopIs("dropAsyncLocalCall") /\ Replace(<<>>)
  /\ UNCHANGED <<accounts, callState, callStack, interimStates, vmOutput, driver>>
DropAsyncLocalCall ==
  /\ TopIs("dropAsyncLocalCall") /\ Replace(<<>>)
  /\ callState.asyncCalls # <<>>
  /\ callState' = [callState EXCEPT !.asyncCalls = Tail(@)]
  /\ UNCHANGED <<accounts, callStack, interimStates, vmOutput, driver>>

ExecuteAsyncLocalCall ==
  /\ TopIs("executeAsyncLocalCall")
  /\ callState.asyncCalls # <<>>
  /\ LET c == Head(callState.asyncCalls)
         in == CallInput(callState.callee, c.value, "AsynchronousCall", <<>>, c.args)
     IN  Replace(<<Call("callContract", c.dest, c.func, in), Plain("mergeOutputs")>>)
  /\ UNCHANGED <<accounts, callState, callStack, interimStates, vmOutput, driver>>

ChooseErrorOnAny(rc, c) == IF c.error # NoName THEN c.error ELSE c.success  \* mutant
ChooseCallback(rc, c) == IF rc = "OK" THEN c.success ELSE c.error

(* What the child sent to the parent last, if it returned no data.          *)
NoTransfer == [sender |-> NoAddress, value |-> 0, esdt |-> <<>>]
LastTransfer(a) == LET ts == vmOutput.outputAccounts[a]
                   IN  IF ts = <<>> THEN NoTransfer ELSE ts[Len(ts)]
ExtractLastTransfer(a) ==
  IF vmOutput.out \/ a = NoAddress THEN NoTransfer ELSE LastTransfer(a)

ExecuteAsyncLocalCallback ==
  /\ TopIs("executeAsyncLocalCallback")
  /\ callState.asyncCalls # <<>> /\ vmOutput # NoVMOutput
  /\ LET c    == Head(callState.asyncCalls)
         cb   == ChooseCallback(vmOutput.returnCode, c)
         last == ExtractLastTransfer(callState.callee)
         in   == CallInput(c.dest, last.value, "AsynchronousCallBack", last.esdt, NoArgs)
     IN  Replace(IF cb = NoName THEN <<>>
                 ELSE <<Call("callContractCb", callState.callee, cb, in),
                        Plain("mergeOutputs")>>)
  /\ UNCHANGED <<accounts, callState, callStack, interimStates, vmOutput, driver>>

UpdateMap(oas, new) == [a \in Address |-> IF new[a] # <<>> THEN new[a] ELSE oas[a]]

MergedWithOutput(cs) ==
  [cs EXCEPT !.out = @ \/ vmOutput.out,
             !.outputAccounts = UpdateMap(@, vmOutput.outputAccounts)]

MergeOutputs ==
  /\ TopIs("mergeOutputs") /\ vmOutput # NoVMOutput /\ Replace(<<>>)
  /\ callState' = IF vmOutput.returnCode = "OK" THEN MergedWithOutput(callState)
                                                ELSE callState
  /\ UNCHANGED <<accounts, callStack, interimStates, vmOutput, driver>>

(* ------------------------- Contract code and host calls ------------------ *)

InitModule ==
  /\ InstrIs("initModule")
  /\ callState' = [callState EXCEPT !.instrs = Tail(@)]
  /\ UNCHANGED <<accounts, commands, callStack, interimStates, vmOutput, driver>>

WaitCommands ==
  /\ InstrIs("waitCommands") /\ TopIs("endWasm")
  /\ callState' = [callState EXCEPT !.instrs = Tail(@)]
  /\ UNCHANGED <<accounts, commands, callStack, interimStates, vmOutput, driver>>

ResolveErrorNoDefault(ec) ==                                            \* mutant
  IF ec \in {"FunctionNotFound", "UserError", "OutOfFunds"} THEN "ExecutionFailed"
                                                            ELSE NoReturnCode
ResolveError(ec) ==
  IF ec \in {"FunctionNotFound", "UserError", "OutOfFunds"} THEN "ExecutionFailed" ELSE ec

FinishKeepsVMOutput ==                                                  \* mutant
  /\ InstrIs("finishExecuteOnDestContext") /\ vmOutput.returnCode = "OK"
  /\ callState' = [MergedWithOutput(callState) EXCEPT !.instrs = Tail(@)]
  /\ UNCHANGED <<accounts, commands, callStack, interimStates, vmOutput, driver>>
FinishExecuteOnDestOk ==
  /\ InstrIs("finishExecuteOnDestContext") /\ vmOutput.returnCode = "OK"
  /\ callState' = [MergedWithOutput(callState) EXCEPT !.instrs = Tail(@)]
  /\ vmOutput' = NoVMOutput
  /\ UNCHANGED <<accounts, commands, callStack, interimStates, driver>>

FinishRethrowsOverOutput ==                                             \* mutant
  /\ InstrIs("finishExecuteOnDestContext") /\ vmOutput.returnCode \in ExceptionCode
  /\ ThrowException(ResolveError(vmOutput.returnCode))
  /\ UNCHANGED <<accounts, callStack, interimStates, vmOutput, driver>>
FinishExecuteOnDestException ==
  /\ InstrIs("finishExecuteOnDestContext") /\ vmOutput.returnCode \in ExceptionCode
  /\ ThrowException(ResolveError(vmOutput.returnCode))
  /\ vmOutput' = NoVMOutput
  /\ UNCHANGED <<accounts, callStack, interimStates, driver>>

Return ==
  /\ InstrIs("code")
  /\ callState' = [callState EXCEPT !.instrs = Tail(@)]
  /\ UNCHANGED <<accounts, commands, callStack, interimStates, vmOutput, driver>>

(* signalError, or a host call given bad arguments.                          *)
Throw ==
  /\ InstrIs("code")
  /\ \E ec \in {"UserError", "ExecutionFailed"} : ThrowException(ec)
  /\ UNCHANGED <<accounts, callStack, interimStates, vmOutput, driver>>

HostCall == /\ InstrIs("code") /\ hostCalls < MaxHostCalls
            /\ hostCalls' = hostCalls + 1

(* A host call that leaves work in <commands> and resumes with instrs.       *)
HostCommands(cmds, instrs) ==
  /\ commands' = cmds \o commands
  /\ callState' = [callState EXCEPT !.instrs = <<"waitCommands">> \o instrs]
  /\ UNCHANGED <<accounts, callStack, interimStates, vmOutput, txCount>>

Finish ==
  /\ HostCall
  /\ callState' = [callState EXCEPT !.out = TRUE]
  /\ UNCHANGED <<accounts, commands, callStack, interimStates, vmOutput, txCount>>

CleanReturnData ==
  /\ HostCall
  /\ callState' = [callState EXCEPT !.out = FALSE]
  /\ UNCHANGED <<accounts, commands, callStack, interimStates, vmOutput, txCount>>

(* transferValue, and the execute hooks when no function is named.           *)
TransferValue ==
  /\ HostCall
  /\ \E r \in Calls :
       /\ r.func = NoName
       /\ HostCommands(IF r.esdt = <<>>
                       THEN TransferFunds(callState.callee, r.dest, r.value)
                       ELSE TransferESDTs(callState.callee, r.dest, r.esdt),
                       callState.instrs)

(* A call carries EGLD or tokens, not both.                                  *)
ExecuteOnDestContext ==
  /\ HostCall
  /\ \E r \in Calls :
       /\ r.func # NoName
       /\ r.value = 0 \/ r.esdt = <<>>
       /\ LET in == CallInput(callState.callee, r.value, "DirectCall", r.esdt, r.args)
          IN  HostCommands(<<Call("callContract", r.dest, r.func, in)>>,
                           <<"finishExecuteOnDestContext">> \o callState.instrs)

(* The value is encoded as an unsigned number, which a negative one is not.  *)
CreateAsyncCallWith(cb, instrs) ==
  \E r \in Calls :
    /\ r.func # NoName /\ r.esdt = <<>> /\ r.value >= 0
    /\ HostCommands(<<Async("registerAsyncCall",
                            [dest |-> r.dest, func |-> r.func, args |-> r.args,
                             value |-> r.value, success |-> cb.success,
                             error |-> cb.error])>>, instrs)

CreateAsyncCall ==
  HostCall /\ \E cb \in Callbacks : CreateAsyncCallWith(cb, callState.instrs)

(* The rest of the code is dropped; both callbacks are callBack.             *)
ManagedAsyncCall ==
  HostCall /\ CreateAsyncCallWith([success |-> "callBack", error |-> "callBack"], <<>>)

(* ---------------------- Transactions and the next state ------------------ *)

CallTx ==
  /\ Idle /\ txCount < MaxTx
  /\ \E from \in Senders, r \in Calls, fee \in Fees :
       /\ IsAccount(accounts, from) /\ r.func # NoName
       /\ accounts' = Credit(accounts, from, 0 - fee)
       /\ commands' = <<Call("callContract", r.dest, r.func,
                             [caller |-> from, callValue |-> r.value,
                              callType |-> "DirectCall", esdtTransfers |-> r.esdt,
                              callArgs |-> r.args, txHash |-> txCount + 1])>>
  /\ txCount' = txCount + 1
  /\ UNCHANGED <<callState, callStack, interimStates, vmOutput, hostCalls>>

StackStep == \/ PushWorldState \/ PopWorldState \/ DropWorldState
             \/ PushCallState \/ PopCallState \/ ResetCallstate

CheckStep == \/ DoCheckAccountExists \/ DoCheckBool
             \/ ExceptionSkip \/ ExceptionRevert

TransferStep == \/ TransferFundsSelf \/ TransferFundsMove \/ TransferFundsOutOfFunds
                \/ DoTransferESDTs \/ DoCheckESDTBalance
                \/ DoAddToESDTBalance \/ DoAppendToOutAccount

CallStep == \/ DoCallContract \/ CallContractAux \/ CallContractAuxBuiltin
            \/ CallContractAuxErrCallback \/ CallContractAuxNotContract
            \/ DoCallContractCb \/ NewWasmInstance \/ WaitWasm
            \/ MkCall \/ MkCallFuncNotFound \/ EndWasm \/ SetVMOutput
            \/ DoProcessBuiltinFunction \/ DetermineIsSCCallAfter

AsyncStep == \/ RegisterAsyncCall \/ AddAsyncCall \/ AsyncExecute
             \/ ExecuteAsyncLocalCalls \/ DropAsyncLocalCall
             \/ ExecuteAsyncLocalCall \/ ExecuteAsyncLocalCallback \/ MergeOutputs

CodeStep == \/ InitModule \/ WaitCommands
            \/ FinishExecuteOnDestOk \/ FinishExecuteOnDestException
            \/ Return \/ Throw \/ Finish \/ CleanReturnData \/ TransferValue
            \/ ExecuteOnDestContext \/ CreateAsyncCall \/ ManagedAsyncCall

Step == StackStep \/ CheckStep \/ TransferStep \/ CallStep \/ AsyncStep \/ CodeStep

(* The scenario is over: nothing is left to do.                              *)
Finished == Idle /\ txCount = MaxTx /\ UNCHANGED vars

Next == Step \/ CallTx \/ Finished

Spec == Init /\ [][Next]_vars /\ WF_vars(Step)

=============================================================================
