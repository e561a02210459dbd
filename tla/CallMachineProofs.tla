-------------------------- MODULE CallMachineProofs --------------------------
(***************************************************************************)
(* Proofs about CallMachine, for every set of addresses, tokens, amounts,  *)
(* calls and callbacks and every bound.                                    *)
(***************************************************************************)
EXTENDS CallProperties, SequenceTheorems, FiniteSetTheorems, TLAPS

LEMMA TailTailType ==
  ASSUME NEW S, NEW s \in Seq(S), Len(s) > 1
  PROVE  Tail(Tail(s)) \in Seq(S)
<1>1. Tail(s) \in Seq(S) /\ Len(Tail(s)) # 0
  BY HeadTailProperties
<1>2. Tail(s) # <<>>
  <2> SUFFICES ASSUME Tail(s) = <<>> PROVE FALSE
    OBVIOUS
  <2>1. Len(<<>>) = 0
    OBVIOUS
  <2> QED BY <1>1, <2>1
<1> QED BY <1>1, <1>2, HeadTailProperties

LEMMA FiveType ==
  ASSUME NEW S
  PROVE  \A a, b, c, d, e \in S : <<a, b, c, d, e>> \in Seq(S)
OBVIOUS

LEMMA ReplaceType ==
  ASSUME NEW new \in Seq(Command), commands \in Seq(Command), commands # <<>>
  PROVE  new \o Tail(commands) \in Seq(Command)
OBVIOUS

LEMMA TopType == ASSUME TypeOK, commands # <<>> PROVE Top \in Command
BY DEF Top, TypeOK

LEMMA PlainType == ASSUME NEW op \in PlainOp PROVE Plain(op) \in Command
BY DEF Plain, Command

LEMMA FieldTypes ==
  ASSUME NEW c \in Command
  PROVE  /\ c.op = "checkAccountExists" => c.addr \in AnyAddress
         /\ c.op = "checkBool" => c.ok \in BOOLEAN
         /\ c.op = "exception" => c.code \in ExceptionCode
         /\ c.op = "transferFundsH" =>
              c.from \in AnyAddress /\ c.to \in AnyAddress /\ c.value \in Amount
         /\ c.op = "transferESDTs" =>
              c.from \in AnyAddress /\ c.to \in AnyAddress /\ c.esdt \in Seq(ESDTTransfer)
         /\ c.op = "checkESDTBalance" =>
              c.addr \in AnyAddress /\ c.token \in Token /\ c.value \in Amount
         /\ c.op = "addToESDTBalance" =>
              c.addr \in AnyAddress /\ c.token \in Token /\ c.delta \in Int
         /\ c.op = "appendToOutAccount" =>
              c.addr \in AnyAddress /\ c.transfer \in OutputTransfer
         /\ c.op \in {"callContract", "callContractCb", "mkCall"} =>
              c.to \in AnyAddress /\ c.func \in Name /\ c.input \in VmInput
         /\ c.op \in {"callContractAux", "processBuiltinFunction",
                      "determineIsSCCallAfter"} =>
              c.from \in AnyAddress /\ c.to \in AnyAddress /\ c.func \in Name
              /\ c.input \in VmInput
         /\ c.op \in {"registerAsyncCall", "addAsyncCall"} => c.call \in AsyncCall
BY DEF Command, PlainOp

LEMMA CreditType == ASSUME NEW w \in World, NEW a, NEW v \in Int
                    PROVE  Credit(w, a, v) \in World
<1> DEFINE r == [w[a] EXCEPT !.balance = @ + v]
<1>1. Credit(w, a, v) = [w EXCEPT ![a] = r]
  BY DEF Credit
<1>2. a \in Address => r \in Account
  BY DEF World, Account
<1> HIDE DEF r
<1> QED BY <1>1, <1>2 DEF World

LEMMA ExceptionType == ASSUME NEW ec \in ExceptionCode PROVE Exception(ec) \in Command
BY DEF Exception, Command

LEMMA CheckBoolType == \A b \in BOOLEAN : CheckBool(b) \in Command
BY DEF CheckBool, Command

LEMMA TransferFundsType ==
  ASSUME NEW a \in AnyAddress, NEW b \in AnyAddress, NEW v \in Amount
  PROVE  TransferFunds(a, b, v) \in Seq(Command)
<1>1. CheckAccountExists(a) \in Command /\ CheckAccountExists(b) \in Command
  BY DEF CheckAccountExists, Command
<1>2. TransferFundsH(a, b, v) \in Command
  BY DEF TransferFundsH, Command
<1> QED BY <1>1, <1>2 DEF TransferFunds

LEMMA TransferESDTsType ==
  ASSUME NEW a \in AnyAddress, NEW b \in AnyAddress, NEW l \in Seq(ESDTTransfer)
  PROVE  TransferESDTs(a, b, l) \in Seq(Command)
<1>1. TransferESDTsAux(a, b, l) \in Command
  BY DEF TransferESDTsAux, Command
<1>2. [sender |-> a, value |-> 0, esdt |-> l] \in OutputTransfer
  BY AmountAssumption DEF OutputTransfer
<1>3. AppendToOutAccount(b, a, 0, l) \in Command
  BY <1>2 DEF AppendToOutAccount, Command
<1> QED BY <1>1, <1>3 DEF TransferESDTs

LEMMA TransferESDTType ==
  ASSUME NEW a \in AnyAddress, NEW b \in AnyAddress, NEW t \in ESDTTransfer
  PROVE  TransferESDT(a, b, t) \in Seq(Command)
<1>1. t.token \in Token /\ t.value \in Amount /\ t.value \in Int
  BY AmountAssumption DEF ESDTTransfer
<1>2. CheckAccountExists(a) \in Command /\ CheckAccountExists(b) \in Command
  BY DEF CheckAccountExists, Command
<1>3. CheckESDTBalance(a, t.token, t.value) \in Command
  BY <1>1 DEF CheckESDTBalance, Command
<1>4. AddToESDTBalance(a, t.token, 0 - t.value, FALSE) \in Command
  BY <1>1 DEF AddToESDTBalance, Command
<1>5. AddToESDTBalance(b, t.token, t.value, TRUE) \in Command
  BY <1>1 DEF AddToESDTBalance, Command
<1> QED BY <1>2, <1>3, <1>4, <1>5, FiveType DEF TransferESDT

LEMMA CallTypes ==
  ASSUME NEW from \in AnyAddress, NEW to \in AnyAddress, NEW f \in Name,
         NEW in \in VmInput
  PROVE  /\ \A op \in {"callContract", "callContractCb", "mkCall"} :
              Call(op, to, f, in) \in Command
         /\ \A op \in {"callContractAux", "processBuiltinFunction",
                       "determineIsSCCallAfter"} :
              CallFrom(op, from, to, f, in) \in Command
BY DEF Call, CallFrom, Command

LEMMA NewInstanceAndCallType ==
  ASSUME NEW to \in AnyAddress, NEW f \in Name, NEW in \in VmInput
  PROVE  NewInstanceAndCall(to, f, in) \in Seq(Command)
<1>1. Plain("newWasmInstance") \in Command
  BY PlainType DEF PlainOp
<1>2. Call("mkCall", to, f, in) \in Command
  BY CallTypes
<1> QED BY <1>1, <1>2 DEF NewInstanceAndCall

LEMMA EmptyTypes == /\ NoArgs \in CallArgs
                    /\ NoOutputAccounts \in OutputAccounts
                    /\ DefaultVmInput \in VmInput
                    /\ DefaultCallState \in CallState
                    /\ NoVMOutput \in VMOutput
                    /\ NoTransfer \in OutputTransfer
<1>1. NoArgs \in CallArgs
  BY DEF NoArgs, CallArgs, Name
<1>2. NoOutputAccounts \in OutputAccounts
  BY DEF NoOutputAccounts, OutputAccounts
<1>3. DefaultVmInput \in VmInput
  BY <1>1, AmountAssumption DEF DefaultVmInput, VmInput, AnyAddress, CallType
<1>4. DefaultCallState \in CallState
  BY <1>2, <1>3 DEF DefaultCallState, CallState, AnyAddress, Name
<1>5. NoVMOutput \in VMOutput
  BY <1>2 DEF NoVMOutput, VMOutput
<1>6. NoTransfer \in OutputTransfer
  BY AmountAssumption DEF NoTransfer, OutputTransfer, AnyAddress
<1> QED BY <1>1, <1>2, <1>3, <1>4, <1>5, <1>6

LEMMA CallInputType ==
  ASSUME TypeOK, NEW caller \in AnyAddress, NEW value \in Amount,
         NEW type \in CallType, NEW esdt \in Seq(ESDTTransfer), NEW args \in CallArgs
  PROVE  CallInput(caller, value, type, esdt, args) \in VmInput
<1>1. callState.vmInput \in VmInput
  BY DEF TypeOK, CallState
<1>2. callState.vmInput.txHash \in Nat
  BY <1>1 DEF VmInput
<1> QED BY <1>2 DEF CallInput, VmInput

(* A step that changes the commands only.                                    *)
LEMMA RewriteType ==
  ASSUME TypeOK, commands' \in Seq(Command),
         UNCHANGED <<accounts, callState, callStack, interimStates, vmOutput, driver>>
  PROVE  TypeOK'
BY DEF TypeOK, driver

LEMMA StackStepType == ASSUME TypeOK, StackStep PROVE TypeOK'
<1> USE DEF TypeOK, TopIs, Replace, driver
<1>1. CASE PushWorldState
  BY <1>1 DEF PushWorldState
<1>2. CASE PopWorldState
  BY <1>2 DEF PopWorldState
<1>3. CASE DropWorldState
  BY <1>3 DEF DropWorldState
<1>4. CASE PushCallState
  BY <1>4 DEF PushCallState
<1>5. CASE PopCallState
  BY <1>5 DEF PopCallState
<1>6. CASE ResetCallstate
  BY <1>6, EmptyTypes DEF ResetCallstate
<1> QED BY <1>1, <1>2, <1>3, <1>4, <1>5, <1>6 DEF StackStep

LEMMA CheckStepType == ASSUME TypeOK, CheckStep PROVE TypeOK'
<1>0. Exception("ExecutionFailed") \in Command
  BY ExceptionType DEF ExceptionCode
<1>1. CASE DoCheckAccountExists
  <2>1. commands' \in Seq(Command)
    BY <1>0, <1>1 DEF DoCheckAccountExists, TopIs, Replace, TypeOK
  <2> QED BY <1>1, <2>1, RewriteType DEF DoCheckAccountExists
<1>2. CASE DoCheckBool
  <2>1. commands' \in Seq(Command)
    BY <1>0, <1>2 DEF DoCheckBool, TopIs, Replace, TypeOK
  <2> QED BY <1>2, <2>1, RewriteType DEF DoCheckBool
<1>3. CASE ExceptionSkip
  <2>1. commands' \in Seq(Command)
    BY <1>3, TailTailType DEF ExceptionSkip, TypeOK, TopIs, Top
  <2> QED BY <1>3, <2>1, RewriteType DEF ExceptionSkip
<1>4. CASE ExceptionRevert
  <2>1. Plain("popCallState") \in Command /\ Plain("popWorldState") \in Command
    BY PlainType DEF PlainOp
  <2>2. commands' \in Seq(Command)
    BY <1>4, <2>1, TailTailType DEF ExceptionRevert, TypeOK
  <2>3. Top.code \in ExceptionCode
    BY <1>4, TopType, FieldTypes DEF ExceptionRevert, TopIs, Top
  <2>4. vmOutput' \in VMOutput
    BY <1>4, <2>3, EmptyTypes DEF ExceptionRevert, Failure, VMOutput
  <2> QED BY <1>4, <2>2, <2>4 DEF ExceptionRevert, TypeOK, driver
<1> QED BY <1>1, <1>2, <1>3, <1>4 DEF CheckStep

LEMMA CreditESDTType ==
  ASSUME NEW w \in World, NEW a, NEW t, NEW n \in Int, t \in Token
  PROVE  [w EXCEPT ![a].held = @ \cup {t}, ![a].esdt[t] = n] \in World
<1> DEFINE r == [w[a] EXCEPT !.held = @ \cup {t}, !.esdt[t] = n]
<1>1. [w EXCEPT ![a].held = @ \cup {t}, ![a].esdt[t] = n] = [w EXCEPT ![a] = r]
  BY DEF World
<1>2. a \in Address => r \in Account
  BY DEF World, Account
<1> HIDE DEF r
<1> QED BY <1>1, <1>2 DEF World

LEMMA AppendOutputType ==
  ASSUME NEW cs \in CallState, NEW a, NEW t \in OutputTransfer
  PROVE  [cs EXCEPT !.outputAccounts[a] = Append(@, t)] \in CallState
<1> DEFINE oas == [cs.outputAccounts EXCEPT ![a] = Append(@, t)]
<1>1. oas \in OutputAccounts
  <2>1. cs.outputAccounts \in OutputAccounts
    BY DEF CallState
  <2>2. a \in Address => Append(cs.outputAccounts[a], t) \in Seq(OutputTransfer)
    BY <2>1, AppendProperties DEF OutputAccounts
  <2> QED BY <2>1, <2>2 DEF OutputAccounts
<1>2. [cs EXCEPT !.outputAccounts[a] = Append(@, t)] = [cs EXCEPT !.outputAccounts = oas]
  OBVIOUS
<1> HIDE DEF oas
<1> QED BY <1>1, <1>2 DEF CallState

LEMMA TransferStepType == ASSUME TypeOK, TransferStep PROVE TypeOK'
<1>1. ASSUME NEW a \in AnyAddress, NEW b \in AnyAddress, NEW v \in Amount
      PROVE  <<AppendToOutAccount(a, b, v, <<>>)>> \in Seq(Command)
  BY DEF AppendToOutAccount, Command, OutputTransfer
<1>2. CASE TransferFundsSelf
  <2>1. Top.from \in AnyAddress /\ Top.to \in AnyAddress /\ Top.value \in Amount
    BY <1>2, TopType, FieldTypes DEF TransferFundsSelf, TopIs, Top
  <2>2. commands' \in Seq(Command)
    BY <1>1, <1>2, <2>1 DEF TransferFundsSelf, TypeOK, TopIs, Replace
  <2> QED BY <1>2, <2>2, RewriteType DEF TransferFundsSelf
<1>3. CASE TransferFundsMove
  <2>1. Top.from \in AnyAddress /\ Top.to \in AnyAddress /\ Top.value \in Amount
    BY <1>3, TopType, FieldTypes DEF TransferFundsMove, TopIs, Top
  <2>2. commands' \in Seq(Command)
    BY <1>1, <1>3, <2>1 DEF TransferFundsMove, TypeOK, TopIs, Replace
  <2>3. Top.value \in Int /\ 0 - Top.value \in Int
    <3> DEFINE v == Top.value
    <3>1. v \in Int
      BY <2>1, AmountAssumption
    <3> HIDE DEF v
    <3>2. 0 - v \in Int
      BY <3>1
    <3> QED BY <3>1, <3>2 DEF v
  <2>4. accounts' \in World
    BY <1>3, <2>3, CreditType DEF TransferFundsMove, TypeOK
  <2> QED BY <1>3, <2>2, <2>4 DEF TransferFundsMove, TypeOK, driver
<1>4. CASE TransferFundsOutOfFunds
  <2>1. Exception("OutOfFunds") \in Command
    BY ExceptionType DEF ExceptionCode
  <2>2. commands' \in Seq(Command)
    BY <1>4, <2>1 DEF TransferFundsOutOfFunds, TypeOK, TopIs, Replace
  <2> QED BY <1>4, <2>2, RewriteType DEF TransferFundsOutOfFunds
<1>5. CASE DoTransferESDTs
  <2>1. /\ Top.from \in AnyAddress /\ Top.to \in AnyAddress
        /\ Top.esdt \in Seq(ESDTTransfer)
    BY <1>5, TopType, FieldTypes DEF DoTransferESDTs, TopIs, Top
  <2>2. ASSUME Top.esdt # <<>>
        PROVE  /\ TransferESDT(Top.from, Top.to, Head(Top.esdt)) \in Seq(Command)
               /\ TransferESDTsAux(Top.from, Top.to, Tail(Top.esdt)) \in Command
    <3>1. Head(Top.esdt) \in ESDTTransfer /\ Tail(Top.esdt) \in Seq(ESDTTransfer)
      BY <2>1, <2>2, HeadTailProperties
    <3>2. TransferESDT(Top.from, Top.to, Head(Top.esdt)) \in Seq(Command)
      BY <2>1, <3>1, TransferESDTType
    <3>3. TransferESDTsAux(Top.from, Top.to, Tail(Top.esdt)) \in Command
      BY <2>1, <3>1 DEF TransferESDTsAux, Command
    <3> QED BY <3>2, <3>3
  <2>3. commands' \in Seq(Command)
    BY <1>5, <2>2 DEF DoTransferESDTs, TypeOK, TopIs, Replace
  <2> QED BY <1>5, <2>3, RewriteType DEF DoTransferESDTs
<1>6. CASE DoCheckESDTBalance
  <2>1. Exception("OutOfFunds") \in Command
    BY ExceptionType DEF ExceptionCode
  <2>2. commands' \in Seq(Command)
    BY <1>6, <2>1 DEF DoCheckESDTBalance, TypeOK, TopIs, Replace
  <2> QED BY <1>6, <2>2, RewriteType DEF DoCheckESDTBalance
<1>7. CASE DoAddToESDTBalance
  <2>1. Top.token \in Token /\ Top.delta \in Int /\ Top.addr \in Address
    BY <1>7, TopType, FieldTypes DEF DoAddToESDTBalance, TopIs, Top, IsAccount
  <2>2. commands' \in Seq(Command)
    BY <1>7 DEF DoAddToESDTBalance, TypeOK, TopIs, Replace
  <2> DEFINE a == Top.addr
             t == Top.token
             n == IF t \in accounts[a].held THEN accounts[a].esdt[t] + Top.delta
                                            ELSE Top.delta
  <2>3. n \in Int
    BY <2>1 DEF TypeOK, World, Account
  <2>4. accounts' = [accounts EXCEPT ![a].held = @ \cup {t}, ![a].esdt[t] = n]
    BY <1>7, <2>1 DEF DoAddToESDTBalance, TypeOK, World, Account
  <2> HIDE DEF n
  <2>5. accounts' \in World
    BY <2>1, <2>3, <2>4, CreditESDTType DEF TypeOK
  <2> QED BY <1>7, <2>2, <2>5 DEF DoAddToESDTBalance, TypeOK, driver
<1>8. CASE DoAppendToOutAccount
  <2>1. Top.transfer \in OutputTransfer
    BY <1>8, TopType, FieldTypes DEF DoAppendToOutAccount, TopIs, Top
  <2>2. commands' \in Seq(Command)
    BY <1>8 DEF DoAppendToOutAccount, TypeOK, TopIs, Replace
  <2>3. callState' \in CallState
    BY <1>8, <2>1, AppendOutputType DEF DoAppendToOutAccount, TypeOK
  <2> QED BY <1>8, <2>2, <2>3 DEF DoAppendToOutAccount, TypeOK, driver
<1> QED BY <1>2, <1>3, <1>4, <1>5, <1>6, <1>7, <1>8 DEF TransferStep

LEMMA InstrsType ==
  ASSUME NEW cs \in CallState
  PROVE  \A is \in Seq(Instr) : [cs EXCEPT !.instrs = is] \in CallState
BY DEF CallState

LEMMA CallStepType == ASSUME TypeOK, CallStep PROVE TypeOK'
<1>1. \A op \in PlainOp : Plain(op) \in Command
  BY PlainType
<1>2. CASE DoCallContract
  <2> DEFINE in == Top.input
  <2>1. Top.to \in AnyAddress /\ Top.func \in Name /\ in \in VmInput
    BY <1>2, TopType, FieldTypes DEF DoCallContract, TopIs, Top
  <2>2. /\ in.caller \in AnyAddress /\ in.callValue \in Amount
        /\ in.esdtTransfers \in Seq(ESDTTransfer)
    BY <2>1 DEF VmInput
  <2> HIDE DEF in
  <2>3. <<Plain("pushWorldState"), Plain("pushCallState"), Plain("resetCallstate")>>
           \in Seq(Command)
    BY <1>1 DEF PlainOp
  <2>4. TransferFunds(in.caller, Top.to, in.callValue) \in Seq(Command)
    BY <2>1, <2>2, TransferFundsType
  <2>5. TransferESDTs(in.caller, Top.to, in.esdtTransfers) \in Seq(Command)
    BY <2>1, <2>2, TransferESDTsType
  <2>6. <<CallFrom("callContractAux", in.caller, Top.to, Top.func, in), Plain("endWasm")>>
           \in Seq(Command)
    BY <1>1, <2>1, <2>2, CallTypes DEF PlainOp
  <2>7. commands' \in Seq(Command)
    BY <1>2, <2>3, <2>4, <2>5, <2>6 DEF DoCallContract, TypeOK, TopIs, Replace, in
  <2> QED BY <1>2, <2>7, EmptyTypes DEF DoCallContract, TypeOK, driver
<1>3. CASE CallContractAux
  <2>1. Top.to \in AnyAddress /\ Top.func \in Name /\ Top.input \in VmInput
    BY <1>3, TopType, FieldTypes DEF CallContractAux, TopIs, Top
  <2>2. NewInstanceAndCall(Top.to, Top.func, Top.input) \in Seq(Command)
    BY <2>1, NewInstanceAndCallType
  <2>3. commands' \in Seq(Command)
    BY <1>3, <2>2 DEF CallContractAux, TypeOK, TopIs, Replace
  <2> QED BY <1>3, <2>3, RewriteType DEF CallContractAux
<1>4. CASE CallContractAuxBuiltin
  <2>1. /\ Top.from \in AnyAddress /\ Top.to \in AnyAddress
        /\ Top.func \in Name /\ Top.input \in VmInput
    BY <1>4, TopType, FieldTypes DEF CallContractAuxBuiltin, TopIs, Top
  <2>2. CallFrom("processBuiltinFunction", Top.from, Top.to, Top.func, Top.input)
           \in Command
    BY <2>1, CallTypes
  <2>3. commands' \in Seq(Command)
    BY <1>4, <2>2 DEF CallContractAuxBuiltin, TypeOK, TopIs, Replace
  <2> QED BY <1>4, <2>3, RewriteType DEF CallContractAuxBuiltin
<1>5. CASE CallContractAuxErrCallback
  <2>1. Exception("ExecutionFailed") \in Command
    BY ExceptionType DEF ExceptionCode
  <2>2. commands' \in Seq(Command)
    BY <1>5, <2>1 DEF CallContractAuxErrCallback, TypeOK, TopIs, Replace
  <2> QED BY <1>5, <2>2, RewriteType DEF CallContractAuxErrCallback
<1>6. CASE CallContractAuxNotContract
  <2>1. Exception("ContractNotFound") \in Command
    BY ExceptionType DEF ExceptionCode
  <2>2. commands' \in Seq(Command)
    BY <1>6, <2>1 DEF CallContractAuxNotContract, TypeOK, TopIs, Replace
  <2> QED BY <1>6, <2>2, RewriteType DEF CallContractAuxNotContract
<1>7. CASE DoCallContractCb
  <2>1. Top.to \in AnyAddress /\ Top.func \in Name /\ Top.input \in VmInput
    BY <1>7, TopType, FieldTypes DEF DoCallContractCb, TopIs, Top
  <2>2. NewInstanceAndCall(Top.to, Top.func, Top.input) \in Seq(Command)
    BY <2>1, NewInstanceAndCallType
  <2>3. /\ <<Plain("pushWorldState"), Plain("pushCallState"), Plain("resetCallstate")>>
             \in Seq(Command)
        /\ <<Plain("endWasm")>> \in Seq(Command)
    BY <1>1 DEF PlainOp
  <2>4. commands' \in Seq(Command)
    BY <1>7, <2>2, <2>3 DEF DoCallContractCb, TypeOK, TopIs, Replace
  <2> QED BY <1>7, <2>4, EmptyTypes DEF DoCallContractCb, TypeOK, driver
<1>8. CASE NewWasmInstance
  <2>1. commands' \in Seq(Command)
    BY <1>1, <1>8 DEF NewWasmInstance, TypeOK, TopIs, Replace, PlainOp
  <2>2. callState' \in CallState
    <3>1. <<"initModule">> \in Seq(Instr)
      BY DEF Instr
    <3> QED BY <1>8, <3>1, InstrsType DEF NewWasmInstance, TypeOK
  <2> QED BY <1>8, <2>1, <2>2 DEF NewWasmInstance, TypeOK, driver
<1>9. CASE WaitWasm
  <2>1. commands' \in Seq(Command)
    BY <1>9 DEF WaitWasm, TypeOK, TopIs, Replace
  <2> QED BY <1>9, <2>1, RewriteType DEF WaitWasm
<1>10. CASE MkCall
  <2>1. Top.to \in AnyAddress /\ Top.input \in VmInput
    BY <1>10, TopType, FieldTypes DEF MkCall, TopIs, Top
  <2>2. Top.func \in Name
    BY <1>10, CallsAssumption DEF MkCall, Name
  <2>3. commands' \in Seq(Command)
    BY <1>10 DEF MkCall, TypeOK, TopIs, Replace
  <2>4. <<"code">> \in Seq(Instr)
    BY DEF Instr
  <2>5. callState' \in CallState
    <3>1. callState \in CallState /\ <<>> \in Seq(AsyncCall)
      BY DEF TypeOK
    <3> QED BY <1>10, <2>1, <2>2, <2>4, <3>1 DEF MkCall, CallState
  <2> QED BY <1>10, <2>3, <2>5 DEF MkCall, TypeOK, driver
<1>11. CASE MkCallFuncNotFound
  <2>1. Exception("FunctionNotFound") \in Command
    BY ExceptionType DEF ExceptionCode
  <2>2. commands' \in Seq(Command)
    BY <1>11, <2>1 DEF MkCallFuncNotFound, TypeOK, TopIs, Replace
  <2> QED BY <1>11, <2>2, RewriteType DEF MkCallFuncNotFound
<1>12. CASE EndWasm
  <2>1. <<Plain("asyncExecute"), Plain("setVMOutput"), Plain("popCallState"),
          Plain("dropWorldState")>> \in Seq(Command)
    BY <1>1 DEF PlainOp
  <2>2. commands' \in Seq(Command)
    BY <1>12, <2>1 DEF EndWasm, TypeOK, TopIs, Replace
  <2> QED BY <1>12, <2>2, RewriteType DEF EndWasm
<1>13. CASE SetVMOutput
  <2>1. commands' \in Seq(Command)
    BY <1>13 DEF SetVMOutput, TypeOK, TopIs, Replace
  <2>2. vmOutput' \in VMOutput
    BY <1>13 DEF SetVMOutput, TypeOK, CallState, VMOutput
  <2> QED BY <1>13, <2>1, <2>2 DEF SetVMOutput, TypeOK, driver
<1>14. CASE DoProcessBuiltinFunction
  <2> DEFINE esdt == Top.input.callArgs.esdt
  <2>1. /\ Top.from \in AnyAddress /\ Top.to \in AnyAddress
        /\ Top.func \in Name /\ Top.input \in VmInput
    BY <1>14, TopType, FieldTypes DEF DoProcessBuiltinFunction, TopIs, Top
  <2>2. esdt \in Seq(ESDTTransfer)
    BY <2>1 DEF VmInput, CallArgs
  <2> HIDE DEF esdt
  <2>3. TransferESDTs(Top.from, Top.to, esdt) \in Seq(Command)
    BY <2>1, <2>2, TransferESDTsType
  <2>4. CallFrom("determineIsSCCallAfter", Top.from, Top.to, Top.func, Top.input)
          \in Command
    BY <2>1, CallTypes
  <2>5. <<CheckBool(Top.input.callValue = 0), CheckBool(esdt # <<>>),
          CheckBool(esdt # <<>> /\ Head(esdt).value > 0)>> \in Seq(Command)
    <3>1. CheckBool(Top.input.callValue = 0) \in Command
      BY CheckBoolType
    <3>2. CheckBool(esdt # <<>>) \in Command
      BY CheckBoolType
    <3>3. CheckBool(esdt # <<>> /\ Head(esdt).value > 0) \in Command
      BY CheckBoolType
    <3> QED BY <3>1, <3>2, <3>3
  <2>6. commands' \in Seq(Command)
    BY <1>14, <2>3, <2>4, <2>5 DEF DoProcessBuiltinFunction, TypeOK, TopIs, Replace, esdt
  <2> QED BY <1>14, <2>6, RewriteType DEF DoProcessBuiltinFunction
<1>15. CASE DetermineIsSCCallAfter
  <2> DEFINE args == Top.input.callArgs
             in   == MkVmInputEsdtExec(Top.from, args)
  <2>1. /\ Top.from \in AnyAddress /\ Top.to \in AnyAddress /\ Top.input \in VmInput
    BY <1>15, TopType, FieldTypes DEF DetermineIsSCCallAfter, TopIs, Top
  <2>2. args.func \in Name /\ args.esdt \in Seq(ESDTTransfer)
    BY <2>1 DEF VmInput, CallArgs
  <2>3. 0 \in Amount /\ "DirectCall" \in CallType
    BY AmountAssumption DEF CallType
  <2>4. in \in VmInput
    BY <2>1, <2>2, <2>3, EmptyTypes, CallInputType DEF MkVmInputEsdtExec
  <2> HIDE DEF args, in
  <2>5. NewInstanceAndCall(Top.to, args.func, in) \in Seq(Command)
    BY <2>1, <2>2, <2>4, NewInstanceAndCallType
  <2>6. commands' \in Seq(Command)
    BY <1>15, <2>5 DEF DetermineIsSCCallAfter, TypeOK, TopIs, Replace, args, in
  <2> QED BY <1>15, <2>6, RewriteType DEF DetermineIsSCCallAfter
<1> QED BY <1>2, <1>3, <1>4, <1>5, <1>6, <1>7, <1>8, <1>9, <1>10, <1>11, <1>12,
           <1>13, <1>14, <1>15 DEF CallStep

LEMMA MergedType == ASSUME TypeOK PROVE MergedWithOutput(callState) \in CallState
<1> DEFINE oas == UpdateMap(callState.outputAccounts, vmOutput.outputAccounts)
           b   == callState.out \/ vmOutput.out
<1>1. callState \in CallState
  BY DEF TypeOK
<1>2. callState.outputAccounts \in OutputAccounts /\ vmOutput.outputAccounts \in OutputAccounts
  BY DEF TypeOK, CallState, VMOutput
<1>3. oas \in OutputAccounts
  BY <1>2 DEF UpdateMap, OutputAccounts
<1>4. b \in BOOLEAN
  OBVIOUS
<1>5. MergedWithOutput(callState) = [callState EXCEPT !.out = b, !.outputAccounts = oas]
  BY <1>1 DEF MergedWithOutput, CallState
<1> HIDE DEF oas, b
<1> QED BY <1>1, <1>3, <1>4, <1>5 DEF CallState

LEMMA LastTransferType ==
  ASSUME TypeOK, NEW a \in AnyAddress
  PROVE  ExtractLastTransfer(a) \in OutputTransfer
<1>1. CASE vmOutput.out \/ a = NoAddress
  BY <1>1, EmptyTypes DEF ExtractLastTransfer
<1>2. CASE ~(vmOutput.out \/ a = NoAddress)
  <2>1. a \in Address
    BY <1>2 DEF AnyAddress
  <2> DEFINE ts == vmOutput.outputAccounts[a]
  <2>2. ts \in Seq(OutputTransfer)
    BY <2>1 DEF TypeOK, VMOutput, OutputAccounts
  <2> HIDE DEF ts
  <2>3. ts # <<>> => ts[Len(ts)] \in OutputTransfer
    BY <2>2, LenProperties, EmptySeq, ElementOfSeq
  <2>4. LastTransfer(a) = IF ts = <<>> THEN NoTransfer ELSE ts[Len(ts)]
    BY DEF LastTransfer, ts
  <2> QED BY <1>2, <2>3, <2>4, EmptyTypes DEF ExtractLastTransfer
<1> QED BY <1>1, <1>2

LEMMA AsyncStepType == ASSUME TypeOK, AsyncStep PROVE TypeOK'
<1>1. \A op \in PlainOp : Plain(op) \in Command
  BY PlainType
<1>2. CASE RegisterAsyncCall
  <2> DEFINE c == Top.call
             checks == <<CheckBool(~SameAsBytes(c.success)),
                         CheckBool(~IsQuotedBuiltin(c.success)),
                         CheckBool(~SameAsBytes(c.error)),
                         CheckBool(~IsQuotedBuiltin(c.error)),
                         CheckBool(~SameAsBytes(callState.function)),
                         CheckBool(~IsMultilevelAsync),
                         Async("addAsyncCall", c)>>
  <2>1. c \in AsyncCall
    BY <1>2, TopType, FieldTypes DEF RegisterAsyncCall, TopIs, Top
  <2>2. Async("addAsyncCall", c) \in Command
    BY <2>1 DEF Async, Command
  <2>3. CheckBool(~IsMultilevelAsync) \in Command
    BY CheckBoolType
  <2>4. /\ CheckBool(~SameAsBytes(c.success)) \in Command
        /\ CheckBool(~IsQuotedBuiltin(c.success)) \in Command
        /\ CheckBool(~SameAsBytes(c.error)) \in Command
        /\ CheckBool(~IsQuotedBuiltin(c.error)) \in Command
        /\ CheckBool(~SameAsBytes(callState.function)) \in Command
    BY CheckBoolType DEF SameAsBytes, IsQuotedBuiltin
  <2>5. checks \in Seq(Command)
    BY <2>2, <2>3, <2>4
  <2>6. commands # <<>> /\ commands' = checks \o Tail(commands)
    BY <1>2 DEF RegisterAsyncCall, TopIs, Replace
  <2> HIDE DEF checks
  <2>7. commands' \in Seq(Command)
    BY <2>5, <2>6 DEF TypeOK
  <2> QED BY <1>2, <2>7, RewriteType DEF RegisterAsyncCall
<1>3. CASE AddAsyncCall
  <2>1. Top.call \in AsyncCall
    BY <1>3, TopType, FieldTypes DEF AddAsyncCall, TopIs, Top
  <2>2. commands' \in Seq(Command)
    BY <1>3 DEF AddAsyncCall, TypeOK, TopIs, Replace
  <2>3. callState \in CallState /\ callState.asyncCalls \in Seq(AsyncCall)
    BY DEF TypeOK, CallState
  <2>4. Append(callState.asyncCalls, Top.call) \in Seq(AsyncCall)
    BY <2>1, <2>3
  <2>5. callState' \in CallState
    BY <1>3, <2>3, <2>4 DEF AddAsyncCall, CallState
  <2> QED BY <1>3, <2>2, <2>5 DEF AddAsyncCall, TypeOK, driver
<1>4. CASE AsyncExecute
  <2>1. commands' \in Seq(Command)
    BY <1>1, <1>4 DEF AsyncExecute, TypeOK, TopIs, Replace, PlainOp
  <2> QED BY <1>4, <2>1, RewriteType DEF AsyncExecute
<1>5. CASE ExecuteAsyncLocalCalls
  <2>1. <<Plain("executeAsyncLocalCall"), Plain("executeAsyncLocalCallback"),
          Plain("dropAsyncLocalCall"), Plain("executeAsyncLocalCalls")>> \in Seq(Command)
    BY <1>1 DEF PlainOp
  <2>2. commands' \in Seq(Command)
    BY <1>5, <2>1 DEF ExecuteAsyncLocalCalls, TypeOK, TopIs, Replace
  <2> QED BY <1>5, <2>2, RewriteType DEF ExecuteAsyncLocalCalls
<1>6. CASE DropAsyncLocalCall
  <2>1. commands' \in Seq(Command)
    BY <1>6 DEF DropAsyncLocalCall, TypeOK, TopIs, Replace
  <2>2. callState \in CallState /\ callState.asyncCalls \in Seq(AsyncCall)
    BY DEF TypeOK, CallState
  <2>3. Tail(callState.asyncCalls) \in Seq(AsyncCall)
    BY <1>6, <2>2, HeadTailProperties DEF DropAsyncLocalCall
  <2>4. callState' \in CallState
    BY <1>6, <2>2, <2>3 DEF DropAsyncLocalCall, CallState
  <2> QED BY <1>6, <2>1, <2>4 DEF DropAsyncLocalCall, TypeOK, driver
<1>7. CASE ExecuteAsyncLocalCall
  <2> DEFINE c  == Head(callState.asyncCalls)
             in == CallInput(callState.callee, c.value, "AsynchronousCall", <<>>, c.args)
  <2>1. callState.callee \in AnyAddress /\ callState.asyncCalls \in Seq(AsyncCall)
    BY DEF TypeOK, CallState
  <2>2. c \in AsyncCall
    BY <1>7, <2>1, HeadTailProperties DEF ExecuteAsyncLocalCall
  <2>3. /\ c.value \in Amount /\ c.args \in CallArgs /\ c.dest \in AnyAddress
        /\ c.func \in Name /\ "AsynchronousCall" \in CallType
    BY <2>2 DEF AsyncCall, AnyAddress, CallType
  <2> HIDE DEF c
  <2>4. in \in VmInput
    <3>1. <<>> \in Seq(ESDTTransfer)
      OBVIOUS
    <3> QED BY <2>1, <2>3, <3>1, CallInputType
  <2> HIDE DEF in
  <2>5. <<Call("callContract", c.dest, c.func, in), Plain("mergeOutputs")>>
          \in Seq(Command)
    BY <1>1, <2>3, <2>4, CallTypes DEF PlainOp
  <2>6. commands' \in Seq(Command)
    BY <1>7, <2>5 DEF ExecuteAsyncLocalCall, TypeOK, TopIs, Replace, c, in
  <2> QED BY <1>7, <2>6, RewriteType DEF ExecuteAsyncLocalCall
<1>8. CASE ExecuteAsyncLocalCallback
  <2> DEFINE c    == Head(callState.asyncCalls)
             cb   == ChooseCallback(vmOutput.returnCode, c)
             last == ExtractLastTransfer(callState.callee)
             in   == CallInput(c.dest, last.value, "AsynchronousCallBack", last.esdt,
                               NoArgs)
  <2>1. callState.callee \in AnyAddress /\ callState.asyncCalls \in Seq(AsyncCall)
    BY DEF TypeOK, CallState
  <2>2. c \in AsyncCall
    BY <1>8, <2>1, HeadTailProperties DEF ExecuteAsyncLocalCallback
  <2>3. c.dest \in AnyAddress /\ cb \in Name /\ "AsynchronousCallBack" \in CallType
    BY <2>2 DEF AsyncCall, AnyAddress, CallType, ChooseCallback
  <2>4. last \in OutputTransfer
    BY <2>1, LastTransferType
  <2>5. last.value \in Amount /\ last.esdt \in Seq(ESDTTransfer)
    BY <2>4 DEF OutputTransfer
  <2> HIDE DEF c, last, cb
  <2>6. in \in VmInput
    BY <2>3, <2>5, EmptyTypes, CallInputType
  <2> HIDE DEF in
  <2>7. <<Call("callContractCb", callState.callee, cb, in), Plain("mergeOutputs")>>
          \in Seq(Command)
    BY <1>1, <2>1, <2>3, <2>6, CallTypes DEF PlainOp
  <2>8. commands' \in Seq(Command)
    BY <1>8, <2>7 DEF ExecuteAsyncLocalCallback, TypeOK, TopIs, Replace, c, cb, last, in
  <2> QED BY <1>8, <2>8, RewriteType DEF ExecuteAsyncLocalCallback
<1>9. CASE MergeOutputs
  <2>1. commands' \in Seq(Command)
    BY <1>9 DEF MergeOutputs, TypeOK, TopIs, Replace
  <2>2. callState' \in CallState
    BY <1>9, MergedType DEF MergeOutputs, TypeOK
  <2> QED BY <1>9, <2>1, <2>2 DEF MergeOutputs, TypeOK, driver
<1> QED BY <1>2, <1>3, <1>4, <1>5, <1>6, <1>7, <1>8, <1>9 DEF AsyncStep

(* A step of the contract code: it may change the commands and its frame.    *)
LEMMA CodeType ==
  ASSUME TypeOK, commands' \in Seq(Command), callState' \in CallState, hostCalls' \in Nat,
         UNCHANGED <<accounts, callStack, interimStates, vmOutput, txCount>>
  PROVE  TypeOK'
BY DEF TypeOK

LEMMA ThrowType ==
  ASSUME TypeOK, NEW ec \in ExceptionCode, ThrowException(ec)
  PROVE  commands' \in Seq(Command) /\ callState' \in CallState
<1>1. Exception(ec) \in Command
  BY ExceptionType
<1>2. commands' \in Seq(Command)
  BY <1>1 DEF ThrowException, TypeOK
<1>3. <<>> \in Seq(Instr)
  OBVIOUS
<1>4. callState' \in CallState
  BY <1>3, InstrsType DEF ThrowException, TypeOK
<1> QED BY <1>2, <1>4

LEMMA CreateAsyncCallType ==
  ASSUME TypeOK, HostCall, NEW cb \in CallbackPair, NEW is \in Seq(Instr),
         CreateAsyncCallWith(cb, is)
  PROVE  TypeOK'
<1>1. PICK r \in Calls : /\ r.func # NoName /\ r.esdt = <<>> /\ r.value >= 0
                         /\ HostCommands(<<Async("registerAsyncCall",
                              [dest |-> r.dest, func |-> r.func, args |-> r.args,
                               value |-> r.value, success |-> cb.success,
                               error |-> cb.error])>>, is)
  BY DEF CreateAsyncCallWith
<1> DEFINE c == [dest |-> r.dest, func |-> r.func, args |-> r.args, value |-> r.value,
                 success |-> cb.success, error |-> cb.error]
<1>2. c \in AsyncCall
  <2>1. r \in CallRequest
    BY CallsAssumption
  <2> QED BY <2>1 DEF CallRequest, CallbackPair, AsyncCall
<1> HIDE DEF c
<1>3. Async("registerAsyncCall", c) \in Command
  BY <1>2 DEF Async, Command
<1>4. commands' \in Seq(Command)
  BY <1>1, <1>3 DEF HostCommands, TypeOK, c
<1>5. <<"waitCommands">> \o is \in Seq(Instr)
  BY DEF Instr
<1>6. callState' \in CallState
  BY <1>1, <1>5, InstrsType DEF HostCommands, TypeOK
<1>7. hostCalls' \in Nat
  BY DEF HostCall, TypeOK
<1> QED BY <1>1, <1>4, <1>6, <1>7, CodeType DEF HostCommands

LEMMA CodeStepType == ASSUME TypeOK, CodeStep PROVE TypeOK'
<1>1. callState \in CallState /\ callState.instrs \in Seq(Instr) /\ hostCalls \in Nat
  BY DEF TypeOK, CallState
<1>2. ASSUME callState.instrs # <<>>, callState' = [callState EXCEPT !.instrs = Tail(@)]
      PROVE  callState' \in CallState
  <2>1. Tail(callState.instrs) \in Seq(Instr)
    BY <1>1, <1>2, HeadTailProperties
  <2> QED BY <1>1, <1>2, <2>1, InstrsType
<1>3. CASE InitModule
  <2>1. callState' \in CallState
    BY <1>2, <1>3 DEF InitModule, InstrIs
  <2> QED BY <1>3, <2>1 DEF InitModule, TypeOK, driver
<1>4. CASE WaitCommands
  <2>1. callState' \in CallState
    BY <1>2, <1>4 DEF WaitCommands, InstrIs
  <2> QED BY <1>4, <2>1 DEF WaitCommands, TypeOK, driver
<1>5. CASE FinishExecuteOnDestOk
  <2> DEFINE m == MergedWithOutput(callState)
  <2>1. Tail(callState.instrs) \in Seq(Instr)
    BY <1>1, <1>5, HeadTailProperties DEF FinishExecuteOnDestOk, InstrIs
  <2>2. m \in CallState /\ m.instrs = callState.instrs
    BY <1>1, MergedType DEF MergedWithOutput, CallState
  <2>3. callState' = [m EXCEPT !.instrs = Tail(@)]
    BY <1>5 DEF FinishExecuteOnDestOk
  <2> HIDE DEF m
  <2>4. callState' = [m EXCEPT !.instrs = Tail(callState.instrs)]
    BY <2>2, <2>3 DEF CallState
  <2>5. callState' \in CallState
    BY <2>1, <2>2, <2>4, InstrsType
  <2> QED BY <1>5, <2>5, EmptyTypes DEF FinishExecuteOnDestOk, TypeOK, driver
<1>6. CASE FinishExecuteOnDestException
  <2>1. ResolveError(vmOutput.returnCode) \in ExceptionCode
    BY <1>6 DEF FinishExecuteOnDestException, ResolveError, ExceptionCode
  <2>2. commands' \in Seq(Command) /\ callState' \in CallState
    BY <1>6, <2>1, ThrowType DEF FinishExecuteOnDestException
  <2> QED BY <1>6, <2>2, EmptyTypes DEF FinishExecuteOnDestException, TypeOK, driver
<1>7. CASE Return
  <2>1. callState' \in CallState
    BY <1>2, <1>7 DEF Return, InstrIs
  <2> QED BY <1>7, <2>1 DEF Return, TypeOK, driver
<1>8. CASE Throw
  <2>1. PICK ec \in {"UserError", "ExecutionFailed"} : ThrowException(ec)
    BY <1>8 DEF Throw
  <2>2. ec \in ExceptionCode
    BY DEF ExceptionCode
  <2>3. commands' \in Seq(Command) /\ callState' \in CallState
    BY <2>1, <2>2, ThrowType
  <2> QED BY <1>8, <2>3 DEF Throw, TypeOK, driver
<1>9. HostCall => hostCalls' \in Nat
  BY <1>1 DEF HostCall
<1>10. CASE Finish \/ CleanReturnData
  <2>1. callState' \in CallState
    BY <1>1, <1>10 DEF Finish, CleanReturnData, CallState
  <2> QED BY <1>9, <1>10, <2>1 DEF Finish, CleanReturnData, TypeOK
<1>11. <<"waitCommands">> \o callState.instrs \in Seq(Instr)
  BY <1>1 DEF Instr
<1>12. CASE TransferValue
  <2>1. PICK r \in Calls :
          HostCommands(IF r.esdt = <<>>
                       THEN TransferFunds(callState.callee, r.dest, r.value)
                       ELSE TransferESDTs(callState.callee, r.dest, r.esdt),
                       callState.instrs)
    BY <1>12 DEF TransferValue
  <2>2. /\ callState.callee \in AnyAddress /\ r.dest \in AnyAddress
        /\ r.value \in Amount /\ r.esdt \in Seq(ESDTTransfer)
    BY <1>1, CallsAssumption DEF CallState, CallRequest, AnyAddress
  <2>3. /\ TransferFunds(callState.callee, r.dest, r.value) \in Seq(Command)
        /\ TransferESDTs(callState.callee, r.dest, r.esdt) \in Seq(Command)
    BY <2>2, TransferFundsType, TransferESDTsType
  <2>4. commands' \in Seq(Command)
    BY <2>1, <2>3 DEF HostCommands, TypeOK
  <2>5. callState' \in CallState
    BY <1>1, <1>11, <2>1, InstrsType DEF HostCommands
  <2> QED BY <1>9, <1>12, <2>1, <2>4, <2>5, CodeType DEF TransferValue, HostCommands
<1>13. CASE ExecuteOnDestContext
  <2>1. PICK r \in Calls :
          LET in == CallInput(callState.callee, r.value, "DirectCall", r.esdt, r.args)
          IN  HostCommands(<<Call("callContract", r.dest, r.func, in)>>,
                           <<"finishExecuteOnDestContext">> \o callState.instrs)
    BY <1>13 DEF ExecuteOnDestContext
  <2> DEFINE in == CallInput(callState.callee, r.value, "DirectCall", r.esdt, r.args)
             is == <<"finishExecuteOnDestContext">> \o callState.instrs
  <2>2. /\ callState.callee \in AnyAddress /\ r.dest \in AnyAddress /\ r.func \in Name
        /\ r.value \in Amount /\ r.esdt \in Seq(ESDTTransfer) /\ r.args \in CallArgs
        /\ "DirectCall" \in CallType
    BY <1>1, CallsAssumption DEF CallState, CallRequest, AnyAddress, CallType
  <2>3. in \in VmInput
    BY <2>2, CallInputType
  <2>4. HostCommands(<<Call("callContract", r.dest, r.func, in)>>, is)
    BY <2>1
  <2> HIDE DEF in
  <2>5. Call("callContract", r.dest, r.func, in) \in Command
    BY <2>2, <2>3, CallTypes
  <2>6. commands' \in Seq(Command)
    BY <2>4, <2>5 DEF HostCommands, TypeOK
  <2>7. <<"waitCommands">> \o is \in Seq(Instr)
    BY <1>1 DEF Instr
  <2> HIDE DEF is
  <2>8. callState' \in CallState
    BY <1>1, <2>4, <2>7, InstrsType DEF HostCommands
  <2> QED BY <1>9, <1>13, <2>4, <2>6, <2>8, CodeType DEF ExecuteOnDestContext, HostCommands
<1>14. CASE CreateAsyncCall
  <2>1. PICK cb \in Callbacks : CreateAsyncCallWith(cb, callState.instrs)
    BY <1>14 DEF CreateAsyncCall
  <2>2. cb \in CallbackPair
    BY CallsAssumption
  <2> QED BY <1>1, <1>14, <2>1, <2>2, CreateAsyncCallType DEF CreateAsyncCall
<1>15. CASE ManagedAsyncCall
  <2> DEFINE cb == [success |-> "callBack", error |-> "callBack"]
  <2>1. cb \in CallbackPair
    BY CallsAssumption DEF CallbackPair, Name
  <2>2. <<>> \in Seq(Instr)
    OBVIOUS
  <2>3. HostCall /\ CreateAsyncCallWith(cb, <<>>)
    BY <1>15 DEF ManagedAsyncCall
  <2> HIDE DEF cb
  <2> QED BY <2>1, <2>2, <2>3, CreateAsyncCallType
<1> QED BY <1>3, <1>4, <1>5, <1>6, <1>7, <1>8, <1>10, <1>12, <1>13, <1>14, <1>15
        DEF CodeStep

LEMMA CallTxType == ASSUME TypeOK, CallTx PROVE TypeOK'
<1>1. PICK from \in Senders, r \in Calls, fee \in Fees :
        /\ r.func # NoName
        /\ accounts' = Credit(accounts, from, 0 - fee)
        /\ commands' = <<Call("callContract", r.dest, r.func,
                              [caller |-> from, callValue |-> r.value,
                               callType |-> "DirectCall", esdtTransfers |-> r.esdt,
                               callArgs |-> r.args, txHash |-> txCount + 1])>>
  BY DEF CallTx
<1> DEFINE in == [caller |-> from, callValue |-> r.value, callType |-> "DirectCall",
                  esdtTransfers |-> r.esdt, callArgs |-> r.args, txHash |-> txCount + 1]
<1>2. r \in CallRequest /\ from \in AnyAddress /\ fee \in Nat
  BY CallsAssumption DEF AnyAddress
<1>3. txCount + 1 \in Nat
  BY DEF TypeOK
<1>4. in \in VmInput
  BY <1>2, <1>3 DEF VmInput, CallRequest, CallType
<1>5. r.dest \in AnyAddress /\ r.func \in Name
  BY <1>2 DEF CallRequest, AnyAddress
<1>6. commands' = <<Call("callContract", r.dest, r.func, in)>>
  BY <1>1
<1> HIDE DEF in
<1>7. commands' \in Seq(Command)
  BY <1>4, <1>5, <1>6, CallTypes
<1>8. accounts' \in World
  <2>1. 0 - fee \in Int
    BY <1>2
  <2> QED BY <1>1, <2>1, CreditType DEF TypeOK
<1> QED BY <1>3, <1>7, <1>8 DEF CallTx, TypeOK

(* Every cell of the node keeps a value of its sort, through every call,     *)
(* transfer, exception, async call and callback, for any contracts.          *)
THEOREM TypeCorrect == Spec => []TypeOK
<1>1. Init => TypeOK
  BY EmptyTypes, CallsAssumption DEF Init, TypeOK
<1>2. TypeOK /\ [Next]_vars => TypeOK'
  <2> SUFFICES ASSUME TypeOK, [Next]_vars PROVE TypeOK'
    OBVIOUS
  <2>1. CASE UNCHANGED vars
    BY <2>1 DEF vars, driver, TypeOK
  <2>2. CASE Finished
    BY <2>2 DEF Finished, vars, driver, TypeOK
  <2>3. CASE CallTx
    BY <2>3, CallTxType
  <2>4. CASE Step
    BY <2>4, StackStepType, CheckStepType, TransferStepType, CallStepType, AsyncStepType,
       CodeStepType DEF Step
  <2> QED BY <2>1, <2>2, <2>3, <2>4 DEF Next
<1> QED BY <1>1, <1>2, PTL DEF Spec

(***************************************************************************)
(* Every exception can be caught, for every set of calls and contracts:    *)
(* CallsInProgress is an inductive invariant of CallMachine and implies    *)
(* ExceptionIsCaught.                                                      *)
(***************************************************************************)

(* ----------------- The layout of sequences of commands ------------------- *)

All(s, ops) == \A i \in 1..Len(s) : s[i].op \in ops
OtherOps(s) == \A i \in 1..Len(s) : s[i].op \notin EntryOps \cup BodyOps

LEMMA OpsApart ==
  /\ LastOps \subseteq BodyOps
  /\ EntryOps \cap BodyOps = {}
  /\ "endWasm" \notin EntryOps \cup BodyOps
BY DEF LastOps, BodyOps, EntryOps

LEMMA AllConcat ==
  ASSUME NEW s \in Seq(Command), NEW t \in Seq(Command)
  PROVE  /\ \A ops : All(s, ops) /\ All(t, ops) => All(s \o t, ops)
         /\ OtherOps(s) /\ OtherOps(t) => OtherOps(s \o t)
<1>1. Len(s) \in Nat /\ Len(t) \in Nat
  BY LenProperties
<1>2. \A i \in 1..Len(s \o t) :
        \/ i \in 1..Len(s) /\ (s \o t)[i] = s[i]
        \/ i - Len(s) \in 1..Len(t) /\ (s \o t)[i] = t[i - Len(s)]
  BY <1>1, ConcatProperties
<1> QED BY <1>2 DEF All, OtherOps

LEMMA AllOne ==
  ASSUME NEW c \in Command
  PROVE  /\ <<c>> \in Seq(Command)
         /\ \A ops : c.op \in ops => All(<<c>>, ops)
         /\ c.op \notin EntryOps \cup BodyOps => OtherOps(<<c>>)
BY DEF All, OtherOps

(* The elements of a rewritten sequence.                                     *)
LEMMA RewriteIndex ==
  ASSUME NEW s \in Seq(Command), s # <<>>, NEW new \in Seq(Command)
  PROVE  /\ new \o Tail(s) \in Seq(Command)
         /\ Len(new \o Tail(s)) = Len(new) + Len(s) - 1
         /\ Len(s) \in Nat \ {0} /\ Len(new) \in Nat
         /\ Head(s) = s[1]
         /\ \A i \in 1..Len(new \o Tail(s)) :
              (new \o Tail(s))[i] = IF i <= Len(new) THEN new[i] ELSE s[i - Len(new) + 1]
<1>1. /\ Tail(s) \in Seq(Command) /\ Len(Tail(s)) = Len(s) - 1
      /\ \A i \in 1..Len(Tail(s)) : Tail(s)[i] = s[i + 1]
  BY HeadTailProperties
<1>2. Len(s) \in Nat \ {0} /\ Len(new) \in Nat
  BY EmptySeq, LenProperties
<1>3. /\ new \o Tail(s) \in Seq(Command)
      /\ Len(new \o Tail(s)) = Len(new) + Len(Tail(s))
      /\ \A i \in 1..Len(new) + Len(Tail(s)) :
           (new \o Tail(s))[i] = IF i <= Len(new) THEN new[i] ELSE Tail(s)[i - Len(new)]
  BY <1>1, ConcatProperties
<1>4. ASSUME NEW i \in 1..Len(new \o Tail(s)), i > Len(new)
      PROVE  Tail(s)[i - Len(new)] = s[i - Len(new) + 1]
  <2>1. i - Len(new) \in 1..Len(Tail(s))
    BY <1>1, <1>2, <1>3, <1>4
  <2> QED BY <1>1, <2>1
<1> QED BY <1>1, <1>2, <1>3, <1>4

LEMMA RewriteBody ==
  ASSUME NEW s \in Seq(Command), s # <<>>, CommandsLaidOut(s), Head(s).op \in BodyOps,
         NEW new \in Seq(Command), All(new, BodyOps),
         \A i \in 1..Len(new) :
           new[i].op \in LastOps => i = Len(new) /\ Head(s).op \in LastOps
  PROVE  /\ CommandsLaidOut(new \o Tail(s))
         /\ new \o Tail(s) # <<>>
         /\ Head(new \o Tail(s)).op \in BodyOps \cup {"endWasm"}
<1> DEFINE t == new \o Tail(s)
<1>1. PICK m \in 0..Len(s), n \in 0..Len(s) : LaidOut(s, m, n)
  BY DEF CommandsLaidOut
<1>2. /\ t \in Seq(Command) /\ Len(t) = Len(new) + Len(s) - 1
      /\ Len(s) \in Nat \ {0} /\ Len(new) \in Nat /\ Head(s) = s[1]
      /\ \A i \in 1..Len(t) : t[i] = IF i <= Len(new) THEN new[i] ELSE s[i - Len(new) + 1]
  BY RewriteIndex
<1> HIDE DEF t
<1>3. m = 0 /\ 1 <= n /\ n < Len(s) /\ s[n + 1].op = "endWasm"
  BY <1>1, <1>2, OpsApart DEF LaidOut
<1> DEFINE k == Len(new) + n - 1
<1>4. k \in 0..Len(t) /\ k < Len(t)
  BY <1>2, <1>3
<1>5. t[k + 1].op = "endWasm"
  <2> DEFINE i == k + 1
  <2>1. i \in 1..Len(t) /\ ~(i <= Len(new)) /\ i - Len(new) + 1 = n + 1
    BY <1>2, <1>3, <1>4
  <2> HIDE DEF i
  <2>2. t[i] = s[i - Len(new) + 1]
    BY <1>2, <2>1
  <2>3. t[i].op = "endWasm"
    BY <1>3, <2>1, <2>2
  <2> QED BY <2>3 DEF i
<1>6. ASSUME NEW i \in 1..Len(t)
      PROVE  /\ t[i].op \in EntryOps <=> i <= 0
             /\ t[i].op \in BodyOps <=> 0 < i /\ i <= k
             /\ t[i].op \in LastOps => i = k
  <2>1. CASE i <= Len(new)
    <3>1. t[i] = new[i] /\ i \in 1..Len(new) /\ i <= k
      BY <1>2, <1>3, <2>1
    <3>2. t[i].op \in BodyOps
      BY <3>1 DEF All
    <3>3. t[i].op \in LastOps => i = k
      <4> SUFFICES ASSUME t[i].op \in LastOps PROVE i = k
        OBVIOUS
      <4>1. i = Len(new) /\ s[1].op \in LastOps
        BY <1>2, <3>1
      <4>2. n = 1
        BY <1>1, <1>2, <4>1 DEF LaidOut
      <4> QED BY <1>2, <4>1, <4>2
    <3> QED BY <3>1, <3>2, <3>3, OpsApart
  <2>2. CASE i > Len(new)
    <3> DEFINE j == i - Len(new) + 1
    <3>1. t[i] = s[j] /\ j \in 1..Len(s) /\ j > 1
      BY <1>2, <2>2
    <3>2. /\ s[j].op \in EntryOps <=> j <= m
          /\ s[j].op \in BodyOps <=> m < j /\ j <= n
          /\ s[j].op \in LastOps => j = n
      BY <1>1, <3>1 DEF LaidOut
    <3> QED BY <1>2, <1>3, <2>2, <3>1, <3>2
  <2> QED BY <1>2, <2>1, <2>2
<1>7. LaidOut(t, 0, k)
  BY <1>3, <1>4, <1>5, <1>6, <1>2 DEF LaidOut
<1>8. 0 \in 0..Len(t)
  BY <1>2, <1>3
<1>9. t # <<>> /\ Head(t) = t[1] /\ 1 \in 1..Len(t)
  BY <1>2, <1>4
<1>10. t[1].op \in BodyOps \cup {"endWasm"}
  <2>1. CASE k = 0
    BY <1>5, <2>1
  <2>2. CASE k > 0
    BY <1>6, <1>9, <2>2
  <2> QED BY <1>4, <2>1, <2>2
<1> QED BY <1>4, <1>7, <1>8, <1>9, <1>10 DEF CommandsLaidOut, t

LEMMA RewriteOther ==
  ASSUME NEW s \in Seq(Command), s # <<>>, CommandsLaidOut(s),
         Head(s).op \notin EntryOps \cup BodyOps,
         NEW new \in Seq(Command), CommandsLaidOut(new)
  PROVE  CommandsLaidOut(new \o Tail(s))
<1> DEFINE t == new \o Tail(s)
<1>1. PICK m \in 0..Len(s), n \in 0..Len(s) : LaidOut(s, m, n)
  BY DEF CommandsLaidOut
<1>2. /\ t \in Seq(Command) /\ Len(t) = Len(new) + Len(s) - 1
      /\ Len(s) \in Nat \ {0} /\ Len(new) \in Nat /\ Head(s) = s[1]
      /\ \A i \in 1..Len(t) : t[i] = IF i <= Len(new) THEN new[i] ELSE s[i - Len(new) + 1]
  BY RewriteIndex
<1> HIDE DEF t
<1>3. m = 0 /\ n = 0
  BY <1>1, <1>2 DEF LaidOut
<1>4. PICK p \in 0..Len(new), q \in 0..Len(new) : LaidOut(new, p, q)
  BY DEF CommandsLaidOut
<1>5. p <= q
  BY <1>4 DEF LaidOut
<1>6. ASSUME NEW i \in 1..Len(t)
      PROVE  /\ t[i].op \in EntryOps <=> i <= p
             /\ t[i].op \in BodyOps <=> p < i /\ i <= q
             /\ t[i].op \in LastOps => i = q
  <2>1. CASE i <= Len(new)
    <3>1. t[i] = new[i] /\ i \in 1..Len(new)
      BY <1>2, <2>1
    <3> QED BY <1>4, <3>1 DEF LaidOut
  <2>2. CASE i > Len(new)
    <3> DEFINE j == i - Len(new) + 1
    <3>1. t[i] = s[j] /\ j \in 1..Len(s)
      BY <1>2, <2>2
    <3>2. s[j].op \notin EntryOps /\ s[j].op \notin BodyOps /\ s[j].op \notin LastOps
      BY <1>1, <1>3, <3>1, OpsApart DEF LaidOut
    <3> QED BY <1>2, <1>5, <2>2, <3>1, <3>2
  <2> QED BY <1>2, <2>1, <2>2
<1>7. q > 0 => q < Len(t) /\ t[q + 1].op = "endWasm"
  <2> SUFFICES ASSUME q > 0 PROVE q < Len(t) /\ t[q + 1].op = "endWasm"
    OBVIOUS
  <2>1. q < Len(new) /\ new[q + 1].op = "endWasm"
    BY <1>4 DEF LaidOut
  <2> DEFINE i == q + 1
  <2>2. q < Len(t) /\ i \in 1..Len(t) /\ i <= Len(new)
    BY <1>2, <2>1
  <2>3. new[i].op = "endWasm"
    BY <2>1
  <2> HIDE DEF i
  <2>4. t[i].op = "endWasm"
    BY <1>2, <2>2, <2>3
  <2> QED BY <2>2, <2>4 DEF i
<1>8. LaidOut(t, p, q)
  BY <1>5, <1>6, <1>7 DEF LaidOut
<1>9. p \in 0..Len(t) /\ q \in 0..Len(t)
  BY <1>2
<1> QED BY <1>8, <1>9 DEF CommandsLaidOut, t

LEMMA OtherLaidOut ==
  ASSUME NEW s \in Seq(Command), OtherOps(s)
  PROVE  CommandsLaidOut(s)
<1>1. Len(s) \in Nat
  BY LenProperties
<1>2. LaidOut(s, 0, 0)
  BY <1>1, OpsApart DEF LaidOut, OtherOps
<1> QED BY <1>1, <1>2 DEF CommandsLaidOut

LEMMA EntryTail ==
  ASSUME NEW s \in Seq(Command), s # <<>>, CommandsLaidOut(s), Head(s).op \in EntryOps
  PROVE  CommandsLaidOut(Tail(s))
<1> DEFINE t == Tail(s)
<1>1. PICK m \in 0..Len(s), n \in 0..Len(s) : LaidOut(s, m, n)
  BY DEF CommandsLaidOut
<1>2. /\ t \in Seq(Command) /\ Len(t) = Len(s) - 1 /\ Len(s) \in Nat \ {0} /\ Head(s) = s[1]
      /\ \A i \in 1..Len(t) : t[i] = s[i + 1]
  BY HeadTailProperties, EmptySeq
<1> HIDE DEF t
<1>3. 1 <= m /\ m <= n /\ n < Len(s) /\ s[n + 1].op = "endWasm"
  BY <1>1, <1>2 DEF LaidOut
<1>4. ASSUME NEW i \in 1..Len(t)
      PROVE  /\ t[i].op \in EntryOps <=> i <= m - 1
             /\ t[i].op \in BodyOps <=> m - 1 < i /\ i <= n - 1
             /\ t[i].op \in LastOps => i = n - 1
  <2> DEFINE j == i + 1
  <2>1. t[i] = s[j] /\ j \in 1..Len(s)
    BY <1>2
  <2>2. /\ s[j].op \in EntryOps <=> j <= m
        /\ s[j].op \in BodyOps <=> m < j /\ j <= n
        /\ s[j].op \in LastOps => j = n
    BY <1>1, <2>1 DEF LaidOut
  <2> QED BY <1>2, <1>3, <2>1, <2>2
<1>5. n - 1 < Len(t) /\ t[n].op = "endWasm"
  BY <1>2, <1>3
<1>6. LaidOut(t, m - 1, n - 1)
  BY <1>3, <1>4, <1>5 DEF LaidOut
<1>7. m - 1 \in 0..Len(t) /\ n - 1 \in 0..Len(t)
  BY <1>2, <1>3
<1> QED BY <1>6, <1>7 DEF CommandsLaidOut, t

LEMMA CallLaidOut ==
  ASSUME NEW e \in Seq(Command), All(e, EntryOps),
         NEW b \in Seq(Command), All(b, BodyOps),
         \A i \in 1..Len(b) : b[i].op \in LastOps => i = Len(b),
         NEW c \in Command, c.op = "endWasm"
  PROVE  CommandsLaidOut((e \o b) \o <<c>>)
<1> DEFINE t == (e \o b) \o <<c>>
           m == Len(e)
           n == Len(e) + Len(b)
<1>1. m \in Nat /\ n \in Nat /\ m <= n /\ Len(b) \in Nat
  BY LenProperties
<1>2. /\ e \o b \in Seq(Command) /\ Len(e \o b) = n
      /\ \A i \in 1..n : (e \o b)[i] = IF i <= m THEN e[i] ELSE b[i - m]
  BY ConcatProperties
<1>3. <<c>> \in Seq(Command) /\ Len(<<c>>) = 1 /\ <<c>>[1] = c
  OBVIOUS
<1>4. /\ Len(t) = n + 1
      /\ \A i \in 1..n + 1 : t[i] = IF i <= n THEN (e \o b)[i] ELSE <<c>>[i - n]
  BY <1>2, <1>3, ConcatProperties
<1>5. t[n + 1] = c
  BY <1>1, <1>3, <1>4
<1>6. \A i \in 1..n : t[i] = IF i <= m THEN e[i] ELSE b[i - m]
  BY <1>1, <1>2, <1>4
<1> HIDE DEF t, m, n
<1>7. ASSUME NEW i \in 1..Len(t)
      PROVE  /\ t[i].op \in EntryOps <=> i <= m
             /\ t[i].op \in BodyOps <=> m < i /\ i <= n
             /\ t[i].op \in LastOps => i = n
  <2>1. CASE i <= m
    <3>1. t[i] = e[i] /\ i \in 1..Len(e)
      BY <1>1, <1>4, <1>6, <2>1 DEF m
    <3>2. t[i].op \in EntryOps
      BY <3>1 DEF All
    <3> QED BY <1>1, <1>4, <2>1, <3>2, OpsApart
  <2>2. CASE m < i /\ i <= n
    <3> DEFINE j == i - m
    <3>1. t[i] = b[j] /\ j \in 1..Len(b)
      BY <1>1, <1>4, <1>6, <2>2 DEF m, n
    <3>2. t[i].op \in BodyOps
      BY <3>1 DEF All
    <3>3. t[i].op \in LastOps => j = Len(b)
      BY <3>1
    <3>4. j = Len(b) => i = n
      BY <1>1, <1>4 DEF m, n
    <3> QED BY <1>1, <1>4, <2>2, <3>2, <3>3, <3>4, OpsApart
  <2>3. CASE i > n
    <3>1. t[i] = c /\ i = n + 1
      BY <1>1, <1>4, <1>5, <2>3
    <3> QED BY <1>1, <3>1, OpsApart
  <2> QED BY <1>1, <1>4, <2>1, <2>2, <2>3
<1>8. LaidOut(t, m, n)
  BY <1>1, <1>4, <1>5, <1>7 DEF LaidOut
<1>9. m \in 0..Len(t) /\ n \in 0..Len(t)
  BY <1>1, <1>4
<1> QED BY <1>8, <1>9 DEF CommandsLaidOut, t

(* What a host call leaves in front of the #endWasm of the running call.     *)
LEMMA PrependRewrites ==
  ASSUME NEW s \in Seq(Command), s # <<>>, NEW new \in Seq(Command)
  PROVE  /\ Head(s) \in Command /\ Tail(s) \in Seq(Command)
         /\ new \o <<Head(s)>> \in Seq(Command)
         /\ new \o s = (new \o <<Head(s)>>) \o Tail(s)
<1>1. Head(s) \in Command /\ Tail(s) \in Seq(Command)
  BY HeadTailProperties
<1>2. <<Head(s)>> \in Seq(Command)
  BY <1>1
<1>3. s = <<Head(s)>> \o Tail(s)
  BY <1>1
<1>4. new \o (<<Head(s)>> \o Tail(s)) = (new \o <<Head(s)>>) \o Tail(s)
  BY <1>1, <1>2, ConcatAssociative
<1> QED BY <1>1, <1>2, <1>3, <1>4, ConcatProperties

LEMMA PrependBody ==
  ASSUME NEW s \in Seq(Command), s # <<>>, CommandsLaidOut(s), Head(s).op = "endWasm",
         NEW new \in Seq(Command), new # <<>>, All(new, BodyOps \ LastOps)
  PROVE  /\ CommandsLaidOut(new \o s)
         /\ new \o s # <<>> /\ Head(new \o s).op \in BodyOps
<1> DEFINE call == (<<>> \o new) \o <<Head(s)>>
<1>1. /\ Head(s) \in Command /\ new \o <<Head(s)>> \in Seq(Command)
      /\ new \o s = (new \o <<Head(s)>>) \o Tail(s)
  BY PrependRewrites
<1>2. call = new \o <<Head(s)>>
  BY ConcatEmptySeq
<1>3. <<>> \in Seq(Command) /\ All(<<>>, EntryOps)
  BY DEF All
<1>4. All(new, BodyOps) /\ \A i \in 1..Len(new) : new[i].op \in LastOps => i = Len(new)
  BY DEF All
<1>5. CommandsLaidOut(call)
  BY <1>1, <1>3, <1>4, CallLaidOut
<1> HIDE DEF call
<1>6. CommandsLaidOut(call \o Tail(s))
  BY <1>1, <1>2, <1>5, OpsApart, RewriteOther
<1>7. new \o s # <<>> /\ Head(new \o s) = new[1] /\ 1 \in 1..Len(new)
  BY ConcatProperties, EmptySeq, LenProperties
<1>8. new[1].op \in BodyOps
  BY <1>4, <1>7 DEF All
<1> QED BY <1>1, <1>2, <1>6, <1>7, <1>8

LEMMA PrependOther ==
  ASSUME NEW s \in Seq(Command), s # <<>>, CommandsLaidOut(s), Head(s).op = "endWasm",
         NEW c \in Command, c.op \notin EntryOps \cup BodyOps
  PROVE  /\ CommandsLaidOut(<<c>> \o s)
         /\ <<c>> \o s # <<>> /\ Head(<<c>> \o s) = c
<1> DEFINE new == <<c>>
           two == new \o <<Head(s)>>
<1>1. new \in Seq(Command)
  OBVIOUS
<1>2. Head(s) \in Command /\ two \in Seq(Command) /\ new \o s = two \o Tail(s)
  BY <1>1, PrependRewrites
<1>3. OtherOps(new) /\ OtherOps(<<Head(s)>>) /\ <<Head(s)>> \in Seq(Command)
  BY <1>2, AllOne, OpsApart
<1>4. OtherOps(two)
  BY <1>1, <1>3, AllConcat
<1>5. CommandsLaidOut(two)
  BY <1>2, <1>4, OtherLaidOut
<1>6. CommandsLaidOut(two \o Tail(s))
  BY <1>2, <1>5, OpsApart, RewriteOther
<1>7. new # <<>> /\ new[1] = c
  OBVIOUS
<1> HIDE DEF new
<1>8. new \o s # <<>> /\ Head(new \o s) = new[1]
  BY <1>1, <1>7, ConcatProperties, EmptySeq, LenProperties
<1> QED BY <1>2, <1>6, <1>7, <1>8 DEF new

LEMMA RewriteToOther ==
  ASSUME NEW s \in Seq(Command), s # <<>>, CommandsLaidOut(s),
         Head(s).op \notin EntryOps \cup BodyOps,
         NEW new \in Seq(Command), OtherOps(new)
  PROVE  /\ CommandsLaidOut(new \o Tail(s))
         /\ new \o Tail(s) # <<>> => Head(new \o Tail(s)).op \notin EntryOps \cup BodyOps
<1> DEFINE t == new \o Tail(s)
<1>1. PICK m \in 0..Len(s), n \in 0..Len(s) : LaidOut(s, m, n)
  BY DEF CommandsLaidOut
<1>2. /\ Tail(s) \in Seq(Command) /\ Len(Tail(s)) = Len(s) - 1 /\ Len(s) \in Nat \ {0}
      /\ Head(s) = s[1] /\ \A i \in 1..Len(Tail(s)) : Tail(s)[i] = s[i + 1]
  BY HeadTailProperties, EmptySeq
<1>3. m = 0 /\ n = 0
  BY <1>1, <1>2 DEF LaidOut
<1>4. \A i \in 1..Len(s) : s[i].op \notin EntryOps \cup BodyOps
  BY <1>1, <1>3 DEF LaidOut
<1>5. OtherOps(Tail(s))
  BY <1>2, <1>4 DEF OtherOps
<1>6. t \in Seq(Command) /\ OtherOps(t)
  BY <1>2, <1>5, AllConcat, ConcatProperties
<1> HIDE DEF t
<1>7. t # <<>> => Head(t) = t[1] /\ 1 \in 1..Len(t)
  BY <1>6, EmptySeq
<1> QED BY <1>6, <1>7, OtherLaidOut DEF OtherOps, t

LEMMA LastTail ==
  ASSUME NEW s \in Seq(Command), s # <<>>, CommandsLaidOut(s), Head(s).op \in LastOps
  PROVE  CommandsLaidOut(Tail(s)) /\ Tail(s) # <<>> /\ Head(Tail(s)).op = "endWasm"
<1>1. PICK m \in 0..Len(s), n \in 0..Len(s) : LaidOut(s, m, n)
  BY DEF CommandsLaidOut
<1>2. /\ Tail(s) \in Seq(Command) /\ Len(Tail(s)) = Len(s) - 1 /\ Len(s) \in Nat \ {0}
      /\ Head(s) = s[1] /\ \A i \in 1..Len(Tail(s)) : Tail(s)[i] = s[i + 1]
  BY HeadTailProperties, EmptySeq
<1>3. n = 1
  BY <1>1, <1>2 DEF LaidOut
<1>4. 1 < Len(s) /\ s[2].op = "endWasm"
  BY <1>1, <1>3 DEF LaidOut
<1>5. Tail(s)[1].op = "endWasm" /\ Len(Tail(s)) # 0
  BY <1>2, <1>4
<1>6. Tail(s) # <<>>
  BY <1>5, EmptySeq
<1>7. Head(Tail(s)) = Tail(s)[1]
  BY <1>2, <1>6
<1>8. <<>> \in Seq(Command) /\ All(<<>>, BodyOps) /\ <<>> \o Tail(s) = Tail(s)
      /\ \A i \in 1..Len(<<>>) : <<>>[i].op \in LastOps => i = Len(<<>>) /\ Head(s).op \in LastOps
  BY <1>2, ConcatEmptySeq DEF All
<1>9. CommandsLaidOut(Tail(s))
  BY <1>8, RewriteBody, OpsApart
<1> QED BY <1>5, <1>6, <1>7, <1>9

(* ------------------------- The steps of the node ------------------------- *)

LEMMA InstrsApart ==
  /\ SavedInstrs \cap (RunningInstrs \cup OwnWorkInstrs \cup {<<"initModule">>}) = {}
  /\ <<"initModule">> \notin RunningInstrs \cup OwnWorkInstrs
BY DEF SavedInstrs, RunningInstrs, OwnWorkInstrs, WaitsForCall

(* A frame that executes no command of its own waits for a call or has ended. *)
LEMMA QuietFrame ==
  ASSUME CallsInProgress, commands # <<>>,
         Top.op \notin BodyOps \cup {"endWasm", "popCallState"}
  PROVE  callState.instrs \in SavedInstrs
BY DEF CallsInProgress, RunningFrame, TopIs, Top, BodyOps

LEMMA QuietStep ==
  ASSUME CommandsLaidOut(commands'),
         commands' # <<>> /\ Head(commands').op \in EntryOps \cup BodyOps =>
           vmOutput' = NoVMOutput,
         callState'.instrs \in SavedInstrs,
         \A i \in 1..Len(callStack') : callStack'[i].instrs \in SavedInstrs
  PROVE  CallsInProgress'
BY InstrsApart DEF CallsInProgress, RunningFrame, Top

(* A command of the body is executed, or replaced by others of the body.     *)
LEMMA BodyStep ==
  ASSUME CallsInProgress, commands # <<>>, Top.op \in BodyOps,
         callState.instrs # <<"initModule">>,
         CommandsLaidOut(commands'), commands' # <<>>,
         Head(commands').op \in BodyOps \cup {"endWasm"},
         callState'.instrs = callState.instrs, UNCHANGED <<callStack, vmOutput>>
  PROVE  CallsInProgress'
<1>1. vmOutput' = NoVMOutput
  BY DEF CallsInProgress
<1>2. callState.instrs \notin RunningInstrs
  BY OpsApart DEF CallsInProgress, RunningFrame, TopIs, Top
<1> QED BY <1>1, <1>2 DEF CallsInProgress, RunningFrame, Top

LEMMA StackStepInProgress ==
  ASSUME TypeOK, CallsInProgress, StackStep
  PROVE  CallsInProgress'
<1>1. commands \in Seq(Command) /\ callStack \in Seq(CallState)
  BY DEF TypeOK
<1>2. <<>> \o Tail(commands) = Tail(commands) \/ commands = <<>>
  BY <1>1, ConcatEmptySeq, HeadTailProperties
<1>3. ASSUME commands # <<>>, Top.op \in EntryOps, commands' = <<>> \o Tail(commands)
      PROVE  CommandsLaidOut(commands') /\ vmOutput = NoVMOutput
  BY <1>1, <1>2, <1>3, EntryTail DEF CallsInProgress, Top
<1>4. ASSUME commands # <<>>, Top.op \notin EntryOps \cup BodyOps,
             commands' = <<>> \o Tail(commands)
      PROVE  /\ CommandsLaidOut(commands')
             /\ commands' # <<>> => Head(commands').op \notin EntryOps \cup BodyOps
  <2>1. <<>> \in Seq(Command) /\ OtherOps(<<>>)
    BY DEF OtherOps
  <2> QED BY <1>1, <1>4, <2>1, RewriteToOther DEF CallsInProgress, Top
<1>5. \A i \in 1..Len(callStack) : callStack[i].instrs \in SavedInstrs
  BY DEF CallsInProgress
<1>6. CASE PushWorldState
  <2>1. commands # <<>> /\ Top.op = "pushWorldState" /\ commands' = <<>> \o Tail(commands)
    BY <1>6 DEF PushWorldState, TopIs, Top, Replace
  <2>2. callState.instrs \in SavedInstrs
    BY <2>1, QuietFrame DEF BodyOps
  <2>3. CommandsLaidOut(commands') /\ vmOutput = NoVMOutput
    BY <1>3, <2>1 DEF EntryOps
  <2> QED BY <1>5, <1>6, <2>2, <2>3, QuietStep DEF PushWorldState
<1>7. CASE PopWorldState \/ DropWorldState
  <2>1. /\ commands # <<>> /\ Top.op \in {"popWorldState", "dropWorldState"}
        /\ commands' = <<>> \o Tail(commands)
    BY <1>7 DEF PopWorldState, DropWorldState, TopIs, Top, Replace
  <2>2. callState.instrs \in SavedInstrs
    BY <2>1, QuietFrame DEF BodyOps
  <2>3. /\ CommandsLaidOut(commands')
        /\ commands' # <<>> => Head(commands').op \notin EntryOps \cup BodyOps
    BY <1>4, <2>1 DEF EntryOps, BodyOps
  <2> QED BY <1>5, <1>7, <2>2, <2>3, QuietStep DEF PopWorldState, DropWorldState
<1>8. CASE PushCallState
  <2>1. commands # <<>> /\ Top.op = "pushCallState" /\ commands' = <<>> \o Tail(commands)
    BY <1>8 DEF PushCallState, TopIs, Top, Replace
  <2>2. callState.instrs \in SavedInstrs
    BY <2>1, QuietFrame DEF BodyOps
  <2>3. CommandsLaidOut(commands') /\ vmOutput = NoVMOutput
    BY <1>3, <2>1 DEF EntryOps
  <2>4. callStack' = <<callState>> \o callStack /\ <<callState>> \in Seq(CallState)
        /\ Len(<<callState>>) = 1 /\ <<callState>>[1] = callState
    BY <1>8 DEF PushCallState, TypeOK
  <2>5. \A i \in 1..Len(callStack') :
          \/ callStack'[i] = callState
          \/ i - 1 \in 1..Len(callStack) /\ callStack'[i] = callStack[i - 1]
    BY <1>1, <2>4, ConcatProperties, LenProperties
  <2>6. \A i \in 1..Len(callStack') : callStack'[i].instrs \in SavedInstrs
    BY <1>5, <2>2, <2>5
  <2> QED BY <1>8, <2>2, <2>3, <2>6, QuietStep DEF PushCallState
<1>9. CASE PopCallState
  <2>1. commands # <<>> /\ Top.op = "popCallState" /\ commands' = <<>> \o Tail(commands)
    BY <1>9 DEF PopCallState, TopIs, Top, Replace
  <2>2. /\ CommandsLaidOut(commands')
        /\ commands' # <<>> => Head(commands').op \notin EntryOps \cup BodyOps
    BY <1>4, <2>1 DEF EntryOps, BodyOps
  <2>3. /\ callState' = callStack[1] /\ 1 \in 1..Len(callStack)
        /\ Len(callStack') = Len(callStack) - 1
        /\ \A i \in 1..Len(callStack') : callStack'[i] = callStack[i + 1]
    BY <1>1, <1>9, HeadTailProperties, EmptySeq DEF PopCallState
  <2>4. \A i \in 1..Len(callStack') : i + 1 \in 1..Len(callStack)
    BY <1>1, <2>3, LenProperties
  <2> QED BY <1>5, <2>2, <2>3, <2>4, QuietStep
<1>10. CASE ResetCallstate
  <2>1. commands # <<>> /\ Top.op = "resetCallstate" /\ commands' = <<>> \o Tail(commands)
    BY <1>10 DEF ResetCallstate, TopIs, Top, Replace
  <2>2. CommandsLaidOut(commands') /\ vmOutput = NoVMOutput
    BY <1>3, <2>1 DEF EntryOps
  <2>3. callState'.instrs \in SavedInstrs
    BY <1>10 DEF ResetCallstate, DefaultCallState, SavedInstrs
  <2> QED BY <1>5, <1>10, <2>2, <2>3, QuietStep DEF ResetCallstate
<1> QED BY <1>6, <1>7, <1>8, <1>9, <1>10 DEF StackStep

LEMMA CheckStepInProgress ==
  ASSUME TypeOK, CallsInProgress, CheckStep
  PROVE  CallsInProgress'
<1>1. /\ commands \in Seq(Command) /\ CommandsLaidOut(commands)
      /\ commands # <<>> => Top = Head(commands)
  BY DEF TypeOK, CallsInProgress, Top
<1>2. TopIs("waitWasm") \/ callState.instrs # <<"initModule">>
  BY DEF CallsInProgress, RunningFrame
<1>3. /\ <<>> \in Seq(Command) /\ All(<<>>, BodyOps)
      /\ \A i \in 1..Len(<<>>) : <<>>[i].op \notin LastOps
  BY DEF All
<1>4. ASSUME NEW ec \in ExceptionCode
      PROVE  /\ <<Exception(ec)>> \in Seq(Command) /\ All(<<Exception(ec)>>, BodyOps)
             /\ \A i \in 1..Len(<<Exception(ec)>>) : <<Exception(ec)>>[i].op \notin LastOps
  BY ExceptionType DEF All, Exception, BodyOps, LastOps
<1>5. CASE DoCheckAccountExists \/ DoCheckBool
  <2>1. commands # <<>> /\ Top.op \in BodyOps /\ Top.op # "waitWasm"
    BY <1>5 DEF DoCheckAccountExists, DoCheckBool, TopIs, Top, BodyOps
  <2>2. PICK new \in {<<>>, <<Exception("ExecutionFailed")>>} :
          commands' = new \o Tail(commands)
    BY <1>5 DEF DoCheckAccountExists, DoCheckBool, Replace
  <2>3. /\ new \in Seq(Command) /\ All(new, BodyOps)
        /\ \A i \in 1..Len(new) : new[i].op \notin LastOps
    BY <1>3, <1>4 DEF ExceptionCode
  <2>4. /\ CommandsLaidOut(commands') /\ commands' # <<>>
        /\ Head(commands').op \in BodyOps \cup {"endWasm"}
    BY <1>1, <2>1, <2>2, <2>3, RewriteBody
  <2>5. UNCHANGED <<callState, callStack, vmOutput>>
    BY <1>5 DEF DoCheckAccountExists, DoCheckBool
  <2> QED BY <1>2, <2>1, <2>4, <2>5, BodyStep DEF TopIs, Top
<1>6. ASSUME Len(commands) > 1, TopIs("exception")
      PROVE  /\ Top.op = "exception" /\ commands # <<>> /\ callState.instrs # <<"initModule">>
             /\ Tail(commands) \in Seq(Command) /\ Tail(commands) # <<>>
             /\ Head(Tail(commands)) = commands[2] /\ CommandsLaidOut(Tail(commands))
             /\ commands[2].op \in BodyOps \cup {"endWasm"}
  <2>1. Top.op = "exception" /\ commands # <<>>
    BY <1>6 DEF TopIs, Top
  <2>2. Tail(commands) = <<>> \o Tail(commands)
    BY <1>1, <2>1, HeadTailProperties, ConcatEmptySeq
  <2>3. /\ CommandsLaidOut(Tail(commands)) /\ Tail(commands) # <<>>
        /\ Head(Tail(commands)).op \in BodyOps \cup {"endWasm"}
    BY <1>1, <1>3, <2>1, <2>2, RewriteBody DEF BodyOps
  <2>4. Tail(commands) \in Seq(Command) /\ Tail(commands)[1] = commands[2]
    BY <1>1, <1>6, <2>1, HeadTailProperties
  <2>5. Head(Tail(commands)) = commands[2]
    BY <2>3, <2>4
  <2> QED BY <1>2, <1>6, <2>1, <2>3, <2>4, <2>5 DEF TopIs
<1>7. CASE ExceptionSkip
  <2>1. /\ Len(commands) > 1 /\ TopIs("exception") /\ commands[2].op # "endWasm"
        /\ commands' = <<Top>> \o Tail(Tail(commands))
        /\ UNCHANGED <<callState, callStack, vmOutput>>
    BY <1>7 DEF ExceptionSkip
  <2>2. Top \in Command
    BY <1>6, <2>1, TopType
  <2>3. /\ <<Top>> \in Seq(Command) /\ All(<<Top>>, BodyOps)
        /\ \A i \in 1..Len(<<Top>>) : <<Top>>[i].op \notin LastOps
    BY <1>6, <2>1, <2>2 DEF All, BodyOps, LastOps
  <2>4. commands[2].op \in BodyOps
    BY <1>6, <2>1
  <2>5. /\ CommandsLaidOut(commands') /\ commands' # <<>>
        /\ Head(commands').op \in BodyOps \cup {"endWasm"}
    BY <1>6, <2>1, <2>3, <2>4, RewriteBody
  <2>6. Top.op \in BodyOps
    BY <1>6, <2>1 DEF BodyOps
  <2> QED BY <1>6, <2>1, <2>5, <2>6, BodyStep
<1>8. CASE ExceptionRevert
  <2> DEFINE new == <<Plain("popCallState"), Plain("popWorldState")>>
  <2>1. /\ Len(commands) > 1 /\ TopIs("exception") /\ commands[2].op = "endWasm"
        /\ commands' = new \o Tail(Tail(commands))
        /\ UNCHANGED <<callState, callStack>>
    BY <1>8 DEF ExceptionRevert
  <2>2. new \in Seq(Command) /\ OtherOps(new)
    BY PlainType DEF PlainOp, OtherOps, Plain, EntryOps, BodyOps
  <2>3. CommandsLaidOut(commands')
    BY <1>6, <2>1, <2>2, RewriteToOther, OpsApart
  <2>4. Tail(Tail(commands)) \in Seq(Command)
    BY <1>6, <2>1, HeadTailProperties
  <2>5. new # <<>> /\ new[1].op = "popCallState"
    BY DEF Plain
  <2> HIDE DEF new
  <2>6. commands' # <<>> /\ Head(commands') = new[1]
    BY <2>1, <2>2, <2>4, <2>5, ConcatProperties, EmptySeq, LenProperties
  <2>7. callState.instrs \notin RunningInstrs
    BY <1>6, <2>1 DEF CallsInProgress, RunningFrame, TopIs, Top
  <2> QED BY <1>6, <2>1, <2>3, <2>5, <2>6, <2>7
          DEF CallsInProgress, RunningFrame, TopIs, Top, EntryOps, BodyOps
<1> QED BY <1>5, <1>7, <1>8 DEF CheckStep

(* The command at the top is replaced by commands of the body.               *)
LEMMA RewriteInBody ==
  ASSUME TypeOK, CallsInProgress, commands # <<>>, Top.op \in BodyOps,
         callState.instrs # <<"initModule">>,
         NEW new \in Seq(Command), All(new, BodyOps),
         \A i \in 1..Len(new) : new[i].op \in LastOps => i = Len(new) /\ Top.op \in LastOps,
         commands' = new \o Tail(commands),
         callState'.instrs = callState.instrs, UNCHANGED <<callStack, vmOutput>>
  PROVE  CallsInProgress'
<1>1. commands \in Seq(Command) /\ CommandsLaidOut(commands) /\ Top = Head(commands)
  BY DEF TypeOK, CallsInProgress, Top
<1>2. /\ CommandsLaidOut(commands') /\ commands' # <<>>
      /\ Head(commands').op \in BodyOps \cup {"endWasm"}
  BY <1>1, RewriteBody
<1> QED BY <1>2, BodyStep

LEMMA ExceptionOps ==
  ASSUME NEW ec \in ExceptionCode
  PROVE  /\ <<Exception(ec)>> \in Seq(Command)
         /\ All(<<Exception(ec)>>, BodyOps \ LastOps)
BY ExceptionType DEF All, Exception, BodyOps, LastOps

LEMMA TransferFundsOps ==
  ASSUME NEW a \in AnyAddress, NEW b \in AnyAddress, NEW v \in Amount
  PROVE  All(TransferFunds(a, b, v), BodyOps \ LastOps) /\ TransferFunds(a, b, v) # <<>>
BY DEF All, TransferFunds, CheckAccountExists, TransferFundsH, BodyOps, LastOps

LEMMA TransferESDTsOps ==
  ASSUME NEW a \in AnyAddress, NEW b \in AnyAddress, NEW l \in Seq(ESDTTransfer)
  PROVE  All(TransferESDTs(a, b, l), BodyOps \ LastOps) /\ TransferESDTs(a, b, l) # <<>>
BY DEF All, TransferESDTs, TransferESDTsAux, AppendToOutAccount, BodyOps, LastOps

LEMMA TransferESDTOps ==
  ASSUME NEW a \in AnyAddress, NEW b \in AnyAddress, NEW t \in ESDTTransfer
  PROVE  All(TransferESDT(a, b, t), BodyOps \ LastOps)
BY DEF All, TransferESDT, CheckAccountExists, CheckESDTBalance, AddToESDTBalance,
       BodyOps, LastOps

LEMMA TransferStepInProgress ==
  ASSUME TypeOK, CallsInProgress, TransferStep
  PROVE  CallsInProgress'
<1>1. /\ commands # <<>> /\ Top.op \in BodyOps /\ Top.op # "waitWasm" /\ Top \in Command
      /\ UNCHANGED <<callStack, vmOutput>>
  BY TopType DEF TransferStep, TransferFundsSelf, TransferFundsMove, TransferFundsOutOfFunds,
       DoTransferESDTs, DoCheckESDTBalance, DoAddToESDTBalance, DoAppendToOutAccount,
       TopIs, Top, BodyOps
<1>2. callState.instrs # <<"initModule">>
  BY <1>1 DEF CallsInProgress, RunningFrame, TopIs, Top
<1>3. <<>> \in Seq(Command) /\ All(<<>>, BodyOps \ LastOps)
  BY DEF All
<1>4. ASSUME NEW new \in Seq(Command), All(new, BodyOps \ LastOps),
             commands' = new \o Tail(commands), callState'.instrs = callState.instrs
      PROVE  CallsInProgress'
  <2>1. All(new, BodyOps) /\ \A i \in 1..Len(new) : new[i].op \notin LastOps
    BY <1>4 DEF All
  <2> QED BY <1>1, <1>2, <1>4, <2>1, RewriteInBody
<1>5. CASE TransferFundsSelf \/ TransferFundsMove
  <2> DEFINE new == <<AppendToOutAccount(Top.to, Top.from, Top.value, <<>>)>>
  <2>1. Top.from \in AnyAddress /\ Top.to \in AnyAddress /\ Top.value \in Amount
    BY <1>1, <1>5, FieldTypes DEF TransferFundsSelf, TransferFundsMove, TopIs, Top
  <2>2. AppendToOutAccount(Top.to, Top.from, Top.value, <<>>) \in Command
    BY <2>1 DEF AppendToOutAccount, Command, OutputTransfer
  <2>3. new \in Seq(Command) /\ All(new, BodyOps \ LastOps)
    BY <2>2, AllOne DEF AppendToOutAccount, BodyOps, LastOps
  <2>4. commands' = new \o Tail(commands) /\ callState'.instrs = callState.instrs
    BY <1>5 DEF TransferFundsSelf, TransferFundsMove, Replace
  <2> HIDE DEF new
  <2> QED BY <1>4, <2>3, <2>4
<1>6. CASE TransferFundsOutOfFunds
  <2> DEFINE new == <<Exception("OutOfFunds")>>
  <2>1. new \in Seq(Command) /\ All(new, BodyOps \ LastOps)
    BY ExceptionOps DEF ExceptionCode
  <2>2. commands' = new \o Tail(commands) /\ callState'.instrs = callState.instrs
    BY <1>6 DEF TransferFundsOutOfFunds, Replace
  <2> HIDE DEF new
  <2> QED BY <1>4, <2>1, <2>2
<1>7. CASE DoTransferESDTs
  <2>1. /\ Top.from \in AnyAddress /\ Top.to \in AnyAddress
        /\ Top.esdt \in Seq(ESDTTransfer)
    BY <1>1, <1>7, FieldTypes DEF DoTransferESDTs, TopIs, Top
  <2>2. callState'.instrs = callState.instrs
    BY <1>7 DEF DoTransferESDTs
  <2>3. CASE Top.esdt = <<>>
    <3>1. commands' = <<>> \o Tail(commands)
      BY <1>7, <2>3 DEF DoTransferESDTs, Replace
    <3> QED BY <1>3, <1>4, <2>2, <3>1
  <2>4. CASE Top.esdt # <<>>
    <3> DEFINE one  == TransferESDT(Top.from, Top.to, Head(Top.esdt))
               next == TransferESDTsAux(Top.from, Top.to, Tail(Top.esdt))
               rest == <<next>>
    <3>1. Head(Top.esdt) \in ESDTTransfer /\ Tail(Top.esdt) \in Seq(ESDTTransfer)
      BY <2>1, <2>4, HeadTailProperties
    <3>2. one \in Seq(Command) /\ All(one, BodyOps \ LastOps)
      BY <2>1, <3>1, TransferESDTType, TransferESDTOps
    <3>3. next \in Command
      BY <2>1, <3>1 DEF TransferESDTsAux, Command
    <3>4. rest \in Seq(Command) /\ All(rest, BodyOps \ LastOps)
      BY <3>3, AllOne DEF TransferESDTsAux, BodyOps, LastOps
    <3>5. commands' = (one \o rest) \o Tail(commands)
      BY <1>7, <2>4 DEF DoTransferESDTs, Replace
    <3> HIDE DEF one, rest
    <3>6. one \o rest \in Seq(Command)
      BY <3>2, <3>4
    <3>7. All(one \o rest, BodyOps \ LastOps)
      BY <3>2, <3>4, AllConcat
    <3> QED BY <1>4, <2>2, <3>5, <3>6, <3>7
  <2> QED BY <2>3, <2>4
<1>8. CASE DoCheckESDTBalance
  <2>1. PICK new \in {<<>>, <<Exception("OutOfFunds")>>} : commands' = new \o Tail(commands)
    BY <1>8 DEF DoCheckESDTBalance, Replace
  <2>2. new \in Seq(Command) /\ All(new, BodyOps \ LastOps)
    BY <1>3, ExceptionOps DEF ExceptionCode
  <2>3. callState'.instrs = callState.instrs
    BY <1>8 DEF DoCheckESDTBalance
  <2> QED BY <1>4, <2>1, <2>2, <2>3
<1>9. CASE DoAddToESDTBalance \/ DoAppendToOutAccount
  <2>1. commands' = <<>> \o Tail(commands)
    BY <1>9 DEF DoAddToESDTBalance, DoAppendToOutAccount, Replace
  <2>2. callState'.instrs = callState.instrs
    BY <1>9 DEF DoAddToESDTBalance, DoAppendToOutAccount, TypeOK, CallState
  <2> QED BY <1>3, <1>4, <2>1, <2>2
<1> QED BY <1>5, <1>6, <1>7, <1>8, <1>9 DEF TransferStep

(* The commands that enter a call, given those of its body.                  *)
LEMMA EnterCall ==
  ASSUME TypeOK, CallsInProgress, commands # <<>>,
         Top.op \notin EntryOps \cup BodyOps \cup {"endWasm", "popCallState"},
         NEW b \in Seq(Command), All(b, BodyOps),
         \A i \in 1..Len(b) : b[i].op \in LastOps => i = Len(b),
         commands' = ((<<Plain("pushWorldState"), Plain("pushCallState"),
                         Plain("resetCallstate")>> \o b) \o <<Plain("endWasm")>>)
                       \o Tail(commands),
         vmOutput' = NoVMOutput, UNCHANGED <<callState, callStack>>
  PROVE  CallsInProgress'
<1> DEFINE e == <<Plain("pushWorldState"), Plain("pushCallState"), Plain("resetCallstate")>>
           c == Plain("endWasm")
           new == (e \o b) \o <<c>>
<1>1. /\ e \in Seq(Command) /\ All(e, EntryOps)
      /\ c \in Command /\ c.op = "endWasm" /\ <<c>> \in Seq(Command)
  BY PlainType DEF PlainOp, All, Plain, EntryOps
<1>2. callState.instrs \in SavedInstrs
  BY QuietFrame
<1>3. commands' = new \o Tail(commands)
  OBVIOUS
<1> HIDE DEF e, c
<1>4. new \in Seq(Command) /\ CommandsLaidOut(new)
  BY <1>1, CallLaidOut
<1> HIDE DEF new
<1>5. CommandsLaidOut(commands')
  BY <1>3, <1>4, RewriteOther DEF CallsInProgress, TypeOK, Top
<1> QED BY <1>2, <1>5, QuietStep DEF CallsInProgress

LEMMA NewInstanceAndCallOps ==
  ASSUME NEW to \in AnyAddress, NEW f \in Name, NEW in \in VmInput
  PROVE  /\ NewInstanceAndCall(to, f, in) \in Seq(Command)
         /\ All(NewInstanceAndCall(to, f, in), BodyOps)
         /\ \A i \in 1..Len(NewInstanceAndCall(to, f, in)) :
              NewInstanceAndCall(to, f, in)[i].op \in LastOps =>
                i = Len(NewInstanceAndCall(to, f, in))
<1>1. NewInstanceAndCall(to, f, in) \in Seq(Command)
  BY NewInstanceAndCallType
<1>2. /\ All(NewInstanceAndCall(to, f, in), BodyOps)
      /\ \A i \in 1..Len(NewInstanceAndCall(to, f, in)) :
           NewInstanceAndCall(to, f, in)[i].op \in LastOps =>
             i = Len(NewInstanceAndCall(to, f, in))
  BY DEF NewInstanceAndCall, All, Plain, Call, BodyOps, LastOps
<1> QED BY <1>1, <1>2

LEMMA AppendLastOps ==
  ASSUME NEW s \in Seq(Command), All(s, BodyOps \ LastOps),
         NEW c \in Command, c.op \in LastOps
  PROVE  /\ s \o <<c>> \in Seq(Command) /\ All(s \o <<c>>, BodyOps)
         /\ \A i \in 1..Len(s \o <<c>>) :
              (s \o <<c>>)[i].op \in LastOps => i = Len(s \o <<c>>)
<1> DEFINE t == <<c>>
<1>1. t \in Seq(Command) /\ Len(t) = 1 /\ t[1] = c
  OBVIOUS
<1> HIDE DEF t
<1>2. /\ s \o t \in Seq(Command) /\ Len(s \o t) = Len(s) + 1 /\ Len(s) \in Nat
      /\ \A i \in 1..Len(s) + 1 : (s \o t)[i] = IF i <= Len(s) THEN s[i] ELSE t[i - Len(s)]
  BY <1>1, ConcatProperties, LenProperties
<1>3. ASSUME NEW i \in 1..Len(s) + 1
      PROVE  /\ (s \o t)[i].op \in BodyOps
             /\ (s \o t)[i].op \in LastOps => i = Len(s) + 1
  <2>1. CASE i <= Len(s)
    <3>1. i \in 1..Len(s) /\ (s \o t)[i] = s[i]
      BY <1>2, <2>1
    <3> QED BY <3>1 DEF All
  <2>2. CASE i = Len(s) + 1
    <3>1. (s \o t)[i] = t[1]
      BY <1>2, <2>2
    <3> QED BY <1>1, <2>2, <3>1, OpsApart
  <2> QED BY <1>2, <2>1, <2>2
<1> QED BY <1>2, <1>3 DEF All, t

LEMMA PairIsConcat ==
  ASSUME NEW c \in Command, NEW d \in Command
  PROVE  <<c, d>> = <<c>> \o <<d>>
<1> DEFINE cs == <<c>>
           ds == <<d>>
           cd == <<c, d>>
<1>1. /\ cs \in Seq(Command) /\ Len(cs) = 1 /\ cs[1] = c
      /\ ds \in Seq(Command) /\ Len(ds) = 1 /\ ds[1] = d
      /\ cd \in Seq(Command) /\ Len(cd) = 2 /\ cd[1] = c /\ cd[2] = d
  OBVIOUS
<1> HIDE DEF cs, ds, cd
<1>2. /\ cs \o ds \in Seq(Command) /\ Len(cs \o ds) = 2
      /\ (cs \o ds)[1] = c /\ (cs \o ds)[2] = d
  BY <1>1, ConcatProperties
<1>3. \A i \in 1..Len(cd) : cd[i] = (cs \o ds)[i]
  BY <1>1, <1>2
<1>4. cd = cs \o ds
  BY <1>1, <1>2, <1>3, SeqEqual
<1> QED BY <1>4 DEF cs, ds, cd

(* Concatenation as an opaque operator, for the equation below.              *)
Cat(s, t) == s \o t

LEMMA CatProperties ==
  ASSUME NEW S
  PROVE  \A s, t, u \in Seq(S) : Cat(s, t) \in Seq(S) /\ Cat(Cat(s, t), u) = Cat(s, Cat(t, u))
BY ConcatAssociative DEF Cat

LEMMA ConcatSix ==
  ASSUME NEW S, NEW e \in Seq(S), NEW a \in Seq(S), NEW b \in Seq(S),
         NEW c \in Seq(S), NEW d \in Seq(S)
  PROVE  ((e \o a) \o b) \o (c \o d) = (e \o ((a \o b) \o c)) \o d
<1>1. Cat(Cat(Cat(e, a), b), Cat(c, d)) = Cat(Cat(e, Cat(Cat(a, b), c)), d)
  BY CatProperties
<1> QED BY <1>1 DEF Cat

LEMMA CallStepInProgress ==
  ASSUME TypeOK, CallsInProgress, CallStep
  PROVE  CallsInProgress'
<1>1. commands # <<>> /\ Top \in Command /\ Top = Head(commands) /\ commands \in Seq(Command)
  BY TopType DEF CallStep, DoCallContract, CallContractAux, CallContractAuxBuiltin,
       CallContractAuxErrCallback, CallContractAuxNotContract, DoCallContractCb,
       NewWasmInstance, WaitWasm, MkCall, MkCallFuncNotFound, EndWasm, SetVMOutput,
       DoProcessBuiltinFunction, DetermineIsSCCallAfter, TopIs, Top, TypeOK
<1>2. CommandsLaidOut(commands) /\ \A i \in 1..Len(callStack) : callStack[i].instrs \in SavedInstrs
  BY DEF CallsInProgress
<1>3. /\ <<>> \in Seq(Command) /\ All(<<>>, BodyOps) /\ OtherOps(<<>>)
      /\ \A i \in 1..Len(<<>>) : <<>>[i].op \notin LastOps
  BY DEF All, OtherOps
<1>4. callState.instrs = <<>> => callState.instrs # <<"initModule">>
  OBVIOUS
<1>5. ASSUME Top.op \in BodyOps, NoInstrs, NEW ec \in ExceptionCode,
             commands' = <<Exception(ec)>> \o Tail(commands),
             UNCHANGED <<callState, callStack, vmOutput>>
      PROVE  CallsInProgress'
  <2> DEFINE new == <<Exception(ec)>>
  <2>1. new \in Seq(Command) /\ All(new, BodyOps \ LastOps)
    BY ExceptionOps
  <2>2. commands' = new \o Tail(commands)
    BY <1>5
  <2> HIDE DEF new
  <2>3. All(new, BodyOps) /\ \A i \in 1..Len(new) : new[i].op \notin LastOps
    BY <2>1 DEF All
  <2> QED BY <1>1, <1>4, <1>5, <2>1, <2>2, <2>3, RewriteInBody DEF NoInstrs
<1>6. CASE DoCallContract
  <2> DEFINE in  == Top.input
             e   == <<Plain("pushWorldState"), Plain("pushCallState"), Plain("resetCallstate")>>
             a   == TransferFunds(in.caller, Top.to, in.callValue)
             b   == TransferESDTs(in.caller, Top.to, in.esdtTransfers)
             aux == CallFrom("callContractAux", in.caller, Top.to, Top.func, in)
             d   == Plain("endWasm")
  <2>1. Top.to \in AnyAddress /\ Top.func \in Name /\ in \in VmInput
    BY <1>1, <1>6, FieldTypes DEF DoCallContract, TopIs, Top
  <2>2. /\ in.caller \in AnyAddress /\ in.callValue \in Amount
        /\ in.esdtTransfers \in Seq(ESDTTransfer)
    BY <2>1 DEF VmInput
  <2>3. e \in Seq(Command) /\ d \in Command
    BY PlainType DEF PlainOp
  <2>4. a \in Seq(Command) /\ All(a, BodyOps \ LastOps)
    BY <2>1, <2>2, TransferFundsType, TransferFundsOps
  <2>5. b \in Seq(Command) /\ All(b, BodyOps \ LastOps)
    BY <2>1, <2>2, TransferESDTsType, TransferESDTsOps
  <2>6. aux \in Command /\ aux.op \in LastOps
    BY <2>1, <2>2, CallTypes DEF CallFrom, LastOps
  <2>7. commands' = (((e \o a) \o b) \o <<aux, d>>) \o Tail(commands)
    BY <1>6 DEF DoCallContract, Replace
  <2>8. /\ Top.op \notin EntryOps \cup BodyOps \cup {"endWasm", "popCallState"}
        /\ vmOutput' = NoVMOutput /\ UNCHANGED <<callState, callStack>>
    BY <1>6 DEF DoCallContract, TopIs, Top, EntryOps, BodyOps
  <2> HIDE DEF e, a, b, aux, d
  <2>9. ((e \o a) \o b) \o <<aux, d>> = (e \o ((a \o b) \o <<aux>>)) \o <<d>>
    <3>1. <<aux>> \in Seq(Command) /\ <<d>> \in Seq(Command)
      BY <2>3, <2>6
    <3>2. <<aux, d>> = <<aux>> \o <<d>>
      BY <2>3, <2>6, PairIsConcat
    <3>3. ((e \o a) \o b) \o (<<aux>> \o <<d>>) = (e \o ((a \o b) \o <<aux>>)) \o <<d>>
      BY <2>3, <2>4, <2>5, <3>1, ConcatSix
    <3> QED BY <3>2, <3>3
  <2> DEFINE body == (a \o b) \o <<aux>>
  <2>10. a \o b \in Seq(Command) /\ All(a \o b, BodyOps \ LastOps)
    BY <2>4, <2>5, AllConcat
  <2>11. /\ body \in Seq(Command) /\ All(body, BodyOps)
         /\ \A i \in 1..Len(body) : body[i].op \in LastOps => i = Len(body)
    BY <2>6, <2>10, AppendLastOps
  <2>12. commands' = ((e \o body) \o <<d>>) \o Tail(commands)
    BY <2>7, <2>9
  <2> HIDE DEF body
  <2> QED BY <1>1, <2>8, <2>11, <2>12, EnterCall DEF e, d
<1>7. CASE DoCallContractCb
  <2> DEFINE body == NewInstanceAndCall(Top.to, Top.func, Top.input)
  <2>1. Top.to \in AnyAddress /\ Top.func \in Name /\ Top.input \in VmInput
    BY <1>1, <1>7, FieldTypes DEF DoCallContractCb, TopIs, Top
  <2>2. /\ body \in Seq(Command) /\ All(body, BodyOps)
        /\ \A i \in 1..Len(body) : body[i].op \in LastOps => i = Len(body)
    BY <2>1, NewInstanceAndCallOps
  <2>3. /\ Top.op \notin EntryOps \cup BodyOps \cup {"endWasm", "popCallState"}
        /\ vmOutput' = NoVMOutput /\ UNCHANGED <<callState, callStack>>
    BY <1>7 DEF DoCallContractCb, TopIs, Top, EntryOps, BodyOps
  <2>4. commands' = ((<<Plain("pushWorldState"), Plain("pushCallState"),
                        Plain("resetCallstate")>> \o body) \o <<Plain("endWasm")>>)
                      \o Tail(commands)
    BY <1>7 DEF DoCallContractCb, Replace
  <2> HIDE DEF body
  <2> QED BY <1>1, <2>2, <2>3, <2>4, EnterCall
<1>8. CASE CallContractAux
  <2> DEFINE new == NewInstanceAndCall(Top.to, Top.func, Top.input)
  <2>1. Top.to \in AnyAddress /\ Top.func \in Name /\ Top.input \in VmInput
    BY <1>1, <1>8, FieldTypes DEF CallContractAux, TopIs, Top
  <2>2. /\ new \in Seq(Command) /\ All(new, BodyOps)
        /\ \A i \in 1..Len(new) : new[i].op \in LastOps => i = Len(new)
    BY <2>1, NewInstanceAndCallOps
  <2>3. commands' = new \o Tail(commands) /\ UNCHANGED <<callState, callStack, vmOutput>>
    BY <1>8 DEF CallContractAux, Replace
  <2>4. Top.op \in BodyOps /\ Top.op \in LastOps
    BY <1>8 DEF CallContractAux, TopIs, Top, BodyOps, LastOps
  <2>5. callState.instrs # <<"initModule">>
    BY <1>4, <1>8 DEF CallContractAux, NoInstrs
  <2> HIDE DEF new
  <2> QED BY <1>1, <2>2, <2>3, <2>4, <2>5, RewriteInBody
<1>9. CASE CallContractAuxBuiltin
  <2> DEFINE c == CallFrom("processBuiltinFunction", Top.from, Top.to, Top.func, Top.input)
             new == <<c>>
  <2>1. /\ Top.from \in AnyAddress /\ Top.to \in AnyAddress
        /\ Top.func \in Name /\ Top.input \in VmInput
    BY <1>1, <1>9, FieldTypes DEF CallContractAuxBuiltin, TopIs, Top
  <2>2. c \in Command /\ c.op \in LastOps
    BY <2>1, CallTypes DEF CallFrom, LastOps
  <2>3. commands' = new \o Tail(commands) /\ UNCHANGED <<callState, callStack, vmOutput>>
    BY <1>9 DEF CallContractAuxBuiltin, Replace
  <2> HIDE DEF c
  <2>4. /\ new \in Seq(Command) /\ All(new, BodyOps)
        /\ \A i \in 1..Len(new) : new[i].op \in LastOps => i = Len(new)
    BY <2>2, AllOne, OpsApart
  <2>5. Top.op \in BodyOps /\ Top.op \in LastOps
    BY <1>9 DEF CallContractAuxBuiltin, TopIs, Top, BodyOps, LastOps
  <2>6. callState.instrs # <<"initModule">>
    BY <1>4, <1>9 DEF CallContractAuxBuiltin, NoInstrs
  <2> HIDE DEF new
  <2> QED BY <1>1, <2>3, <2>4, <2>5, <2>6, RewriteInBody
<1>10. CASE CallContractAuxErrCallback
  <2>1. Top.op \in BodyOps /\ NoInstrs
    BY <1>10 DEF CallContractAuxErrCallback, TopIs, Top, BodyOps
  <2> QED BY <1>5, <1>10, <2>1 DEF CallContractAuxErrCallback, Replace, ExceptionCode
<1>11. CASE CallContractAuxNotContract
  <2>1. Top.op \in BodyOps /\ NoInstrs
    BY <1>11 DEF CallContractAuxNotContract, TopIs, Top, BodyOps
  <2> QED BY <1>5, <1>11, <2>1 DEF CallContractAuxNotContract, Replace, ExceptionCode
<1>12. CASE MkCallFuncNotFound
  <2>1. Top.op \in BodyOps /\ NoInstrs
    BY <1>12 DEF MkCallFuncNotFound, TopIs, Top, BodyOps
  <2> QED BY <1>5, <1>12, <2>1 DEF MkCallFuncNotFound, Replace, ExceptionCode
<1>13. CASE NewWasmInstance
  <2> DEFINE new == <<Plain("waitWasm")>>
  <2>1. /\ new \in Seq(Command) /\ All(new, BodyOps) /\ Len(new) = 1
        /\ new[1].op = "waitWasm" /\ new # <<>>
        /\ \A i \in 1..Len(new) : new[i].op \notin LastOps
    BY PlainType DEF PlainOp, Plain, All, BodyOps, LastOps
  <2>2. commands' = new \o Tail(commands) /\ UNCHANGED <<callStack, vmOutput>>
    BY <1>13 DEF NewWasmInstance, Replace
  <2>3. Top.op \in BodyOps
    BY <1>13 DEF NewWasmInstance, TopIs, Top, BodyOps
  <2> HIDE DEF new
  <2>4. CommandsLaidOut(commands') /\ commands' # <<>>
    BY <1>1, <1>2, <2>1, <2>2, <2>3, RewriteBody
  <2>5. vmOutput' = NoVMOutput
    BY <1>1, <2>2, <2>3 DEF CallsInProgress
  <2>6. Head(commands') = new[1]
    BY <1>1, <2>1, <2>2, ConcatProperties, HeadTailProperties, EmptySeq, LenProperties
  <2>7. callState'.instrs = <<"initModule">>
    BY <1>13 DEF NewWasmInstance, TypeOK, CallState
  <2> QED BY <1>2, <2>1, <2>2, <2>4, <2>5, <2>6, <2>7, InstrsApart
          DEF CallsInProgress, RunningFrame, TopIs
<1>14. CASE WaitWasm
  <2>1. Top.op \in BodyOps /\ callState.instrs # <<"initModule">>
    BY <1>4, <1>14 DEF WaitWasm, TopIs, Top, BodyOps, NoInstrs
  <2>2. commands' = <<>> \o Tail(commands) /\ UNCHANGED <<callState, callStack, vmOutput>>
    BY <1>14 DEF WaitWasm, Replace
  <2> QED BY <1>1, <1>3, <2>1, <2>2, RewriteInBody
<1>15. CASE MkCall
  <2>1. /\ Top.op \in LastOps /\ Top.op \in BodyOps /\ commands' = <<>> \o Tail(commands)
        /\ UNCHANGED <<callStack, vmOutput>>
    BY <1>15 DEF MkCall, TopIs, Top, LastOps, BodyOps, Replace
  <2>2. commands' = Tail(commands)
    BY <1>1, <2>1, HeadTailProperties, ConcatEmptySeq
  <2>3. CommandsLaidOut(commands') /\ commands' # <<>> /\ Head(commands').op = "endWasm"
    BY <1>1, <1>2, <2>1, <2>2, LastTail
  <2>4. vmOutput' = NoVMOutput
    BY <1>1, <2>1 DEF CallsInProgress
  <2>5. callState'.instrs = <<"code">>
    BY <1>15 DEF MkCall, TypeOK, CallState
  <2>6. <<"code">> \in RunningInstrs /\ <<"code">> \in OwnWorkInstrs
    BY DEF RunningInstrs, OwnWorkInstrs
  <2> QED BY <1>2, <2>1, <2>3, <2>4, <2>5, <2>6, InstrsApart
          DEF CallsInProgress, RunningFrame, TopIs, Top
<1>16. CASE EndWasm \/ SetVMOutput
  <2> DEFINE four == <<Plain("asyncExecute"), Plain("setVMOutput"), Plain("popCallState"),
                       Plain("dropWorldState")>>
  <2>1. four \in Seq(Command) /\ OtherOps(four)
    BY PlainType DEF PlainOp, Plain, OtherOps, EntryOps, BodyOps
  <2>2. PICK new \in {<<>>, four} : commands' = new \o Tail(commands)
    BY <1>16 DEF EndWasm, SetVMOutput, Replace
  <2> HIDE DEF four
  <2>3. Top.op \notin EntryOps \cup BodyOps
    BY <1>16 DEF EndWasm, SetVMOutput, TopIs, Top, EntryOps, BodyOps
  <2>4. /\ CommandsLaidOut(commands')
        /\ commands' # <<>> => Head(commands').op \notin EntryOps \cup BodyOps
    BY <1>1, <1>2, <1>3, <2>1, <2>2, <2>3, RewriteToOther
  <2>5. callState.instrs \in SavedInstrs
    <3>1. CASE EndWasm
      BY <3>1 DEF EndWasm, NoInstrs, SavedInstrs
    <3>2. CASE SetVMOutput
      BY <1>1, <3>2, QuietFrame DEF SetVMOutput, TopIs, Top, BodyOps
    <3> QED BY <1>16, <3>1, <3>2
  <2> QED BY <1>2, <1>16, <2>4, <2>5, QuietStep DEF EndWasm, SetVMOutput
<1>17. CASE DoProcessBuiltinFunction
  <2> DEFINE esdt == Top.input.callArgs.esdt
             a == <<CheckBool(Top.input.callValue = 0), CheckBool(esdt # <<>>),
                    CheckBool(esdt # <<>> /\ Head(esdt).value > 0)>>
             b == TransferESDTs(Top.from, Top.to, esdt)
             c == CallFrom("determineIsSCCallAfter", Top.from, Top.to, Top.func, Top.input)
             new == (a \o b) \o <<c>>
  <2>1. /\ Top.from \in AnyAddress /\ Top.to \in AnyAddress
        /\ Top.func \in Name /\ Top.input \in VmInput
    BY <1>1, <1>17, FieldTypes DEF DoProcessBuiltinFunction, TopIs, Top
  <2>2. esdt \in Seq(ESDTTransfer)
    BY <2>1 DEF VmInput, CallArgs
  <2>3. commands' = new \o Tail(commands) /\ UNCHANGED <<callState, callStack, vmOutput>>
    BY <1>17 DEF DoProcessBuiltinFunction, Replace
  <2> HIDE DEF esdt
  <2>4. /\ CheckBool(Top.input.callValue = 0) \in Command
        /\ CheckBool(esdt # <<>>) \in Command
        /\ CheckBool(esdt # <<>> /\ Head(esdt).value > 0) \in Command
    <3>1. CheckBool(Top.input.callValue = 0) \in Command
      BY CheckBoolType
    <3>2. CheckBool(esdt # <<>>) \in Command
      BY CheckBoolType
    <3>3. CheckBool(esdt # <<>> /\ Head(esdt).value > 0) \in Command
      BY CheckBoolType
    <3> QED BY <3>1, <3>2, <3>3
  <2>5. a \in Seq(Command) /\ All(a, BodyOps \ LastOps)
    <3>1. a \in Seq(Command)
      BY <2>4
    <3>2. \A b1, b2, b3 : All(<<CheckBool(b1), CheckBool(b2), CheckBool(b3)>>, BodyOps \ LastOps)
      BY DEF All, CheckBool, BodyOps, LastOps
    <3> QED BY <3>1, <3>2
  <2>6. b \in Seq(Command) /\ All(b, BodyOps \ LastOps)
    BY <2>1, <2>2, TransferESDTsType, TransferESDTsOps
  <2>7. c \in Command /\ c.op \in LastOps
    BY <2>1, CallTypes DEF CallFrom, LastOps
  <2> HIDE DEF a, b, c
  <2>8. a \o b \in Seq(Command) /\ All(a \o b, BodyOps \ LastOps)
    BY <2>5, <2>6, AllConcat
  <2>9. /\ new \in Seq(Command) /\ All(new, BodyOps)
        /\ \A i \in 1..Len(new) : new[i].op \in LastOps => i = Len(new)
    BY <2>7, <2>8, AppendLastOps
  <2>10. Top.op \in BodyOps /\ Top.op \in LastOps
    BY <1>17 DEF DoProcessBuiltinFunction, TopIs, Top, BodyOps, LastOps
  <2>11. callState.instrs # <<"initModule">>
    BY <1>4, <1>17 DEF DoProcessBuiltinFunction, NoInstrs
  <2> HIDE DEF new
  <2> QED BY <1>1, <2>3, <2>9, <2>10, <2>11, RewriteInBody
<1>18. CASE DetermineIsSCCallAfter
  <2> DEFINE args == Top.input.callArgs
             in   == MkVmInputEsdtExec(Top.from, args)
             inst == NewInstanceAndCall(Top.to, args.func, in)
  <2>1. /\ Top.from \in AnyAddress /\ Top.to \in AnyAddress /\ Top.input \in VmInput
    BY <1>1, <1>18, FieldTypes DEF DetermineIsSCCallAfter, TopIs, Top
  <2>2. args.func \in Name /\ args.esdt \in Seq(ESDTTransfer)
    BY <2>1 DEF VmInput, CallArgs
  <2>3. 0 \in Amount /\ "DirectCall" \in CallType
    BY AmountAssumption DEF CallType
  <2>4. in \in VmInput
    BY <2>1, <2>2, <2>3, EmptyTypes, CallInputType DEF MkVmInputEsdtExec
  <2>5. PICK new \in {inst, <<>>} : commands' = new \o Tail(commands)
    BY <1>18 DEF DetermineIsSCCallAfter, Replace
  <2> HIDE DEF args, in
  <2>6. /\ inst \in Seq(Command) /\ All(inst, BodyOps)
        /\ \A i \in 1..Len(inst) : inst[i].op \in LastOps => i = Len(inst)
    BY <2>1, <2>2, <2>4, NewInstanceAndCallOps
  <2> HIDE DEF inst
  <2>7. /\ new \in Seq(Command) /\ All(new, BodyOps)
        /\ \A i \in 1..Len(new) : new[i].op \in LastOps => i = Len(new)
    BY <1>3, <2>5, <2>6
  <2>8. Top.op \in BodyOps /\ Top.op \in LastOps /\ UNCHANGED <<callState, callStack, vmOutput>>
    BY <1>18 DEF DetermineIsSCCallAfter, TopIs, Top, BodyOps, LastOps
  <2>9. callState.instrs # <<"initModule">>
    BY <1>4, <1>18 DEF DetermineIsSCCallAfter, NoInstrs
  <2> QED BY <1>1, <2>5, <2>7, <2>8, <2>9, RewriteInBody
<1> QED BY <1>6, <1>7, <1>8, <1>9, <1>10, <1>11, <1>12, <1>13, <1>14, <1>15, <1>16,
           <1>17, <1>18 DEF CallStep

LEMMA AsyncStepInProgress ==
  ASSUME TypeOK, CallsInProgress, AsyncStep
  PROVE  CallsInProgress'
<1>1. commands # <<>> /\ Top \in Command /\ Top = Head(commands) /\ commands \in Seq(Command)
  BY TopType DEF AsyncStep, RegisterAsyncCall, AddAsyncCall, AsyncExecute,
       ExecuteAsyncLocalCalls, DropAsyncLocalCall, ExecuteAsyncLocalCall,
       ExecuteAsyncLocalCallback, MergeOutputs, TopIs, Top, TypeOK
<1>2. CommandsLaidOut(commands) /\ \A i \in 1..Len(callStack) : callStack[i].instrs \in SavedInstrs
  BY DEF CallsInProgress
<1>3. /\ <<>> \in Seq(Command) /\ All(<<>>, BodyOps) /\ OtherOps(<<>>)
      /\ \A i \in 1..Len(<<>>) : <<>>[i].op \notin LastOps
  BY DEF All, OtherOps
<1>4. Top.op # "waitWasm" => callState.instrs # <<"initModule">>
  BY DEF CallsInProgress, RunningFrame, TopIs, Top
<1>5. callState \in CallState
  BY DEF TypeOK
<1>6. CASE RegisterAsyncCall
  <2> DEFINE c == Top.call
             n1 == ~SameAsBytes(c.success)
             n2 == ~IsQuotedBuiltin(c.success)
             n3 == ~SameAsBytes(c.error)
             n4 == ~IsQuotedBuiltin(c.error)
             n5 == ~SameAsBytes(callState.function)
             n6 == ~IsMultilevelAsync
             last == Async("addAsyncCall", c)
             new == <<CheckBool(n1), CheckBool(n2), CheckBool(n3), CheckBool(n4),
                      CheckBool(n5), CheckBool(n6), last>>
  <2>1. c \in AsyncCall
    BY <1>1, <1>6, FieldTypes DEF RegisterAsyncCall, TopIs, Top
  <2>2. last \in Command /\ last.op = "addAsyncCall"
    BY <2>1 DEF Async, Command
  <2>3. /\ CheckBool(n1) \in Command /\ CheckBool(n2) \in Command /\ CheckBool(n3) \in Command
        /\ CheckBool(n4) \in Command /\ CheckBool(n5) \in Command
    BY CheckBoolType DEF SameAsBytes, IsQuotedBuiltin
  <2>4. CheckBool(n6) \in Command
    BY CheckBoolType
  <2>5. \A b : CheckBool(b).op = "checkBool"
    BY DEF CheckBool
  <2>6. /\ commands' = new \o Tail(commands) /\ UNCHANGED <<callState, callStack, vmOutput>>
        /\ Top.op = "registerAsyncCall"
    BY <1>6 DEF RegisterAsyncCall, Replace, TopIs, Top
  <2> HIDE DEF last, n1, n2, n3, n4, n5, n6, CheckBool
  <2>7. new \in Seq(Command)
    BY <2>2, <2>3, <2>4
  <2>8. \A i \in 1..Len(new) : new[i].op \in {"checkBool", "addAsyncCall"}
    BY <2>2, <2>5
  <2> HIDE DEF new
  <2>9. All(new, BodyOps) /\ \A i \in 1..Len(new) : new[i].op \notin LastOps
    BY <2>8 DEF All, BodyOps, LastOps
  <2>10. Top.op \in BodyOps /\ callState.instrs # <<"initModule">>
    BY <1>4, <2>6 DEF BodyOps
  <2> QED BY <1>1, <2>6, <2>7, <2>9, <2>10, RewriteInBody
<1>7. CASE AddAsyncCall
  <2>1. /\ commands' = <<>> \o Tail(commands) /\ UNCHANGED <<callStack, vmOutput>>
        /\ Top.op = "addAsyncCall"
    BY <1>7 DEF AddAsyncCall, Replace, TopIs, Top
  <2>2. callState'.instrs = callState.instrs
    BY <1>5, <1>7 DEF AddAsyncCall, CallState
  <2>3. Top.op \in BodyOps /\ callState.instrs # <<"initModule">>
    BY <1>4, <2>1 DEF BodyOps
  <2> QED BY <1>1, <1>3, <2>1, <2>2, <2>3, RewriteInBody
<1>8. ASSUME Top.op \in {"asyncExecute", "executeAsyncLocalCalls", "dropAsyncLocalCall",
                         "executeAsyncLocalCall", "executeAsyncLocalCallback",
                         "mergeOutputs"},
             NEW new \in Seq(Command), OtherOps(new),
             commands' = new \o Tail(commands), callState'.instrs = callState.instrs,
             UNCHANGED <<callStack, vmOutput>>
      PROVE  CallsInProgress'
  <2>1. Top.op \notin EntryOps \cup BodyOps \cup {"endWasm", "popCallState"}
    BY <1>8 DEF EntryOps, BodyOps
  <2>2. /\ CommandsLaidOut(commands')
        /\ commands' # <<>> => Head(commands').op \notin EntryOps \cup BodyOps
    BY <1>1, <1>2, <1>8, <2>1, RewriteToOther
  <2>3. callState.instrs \in SavedInstrs
    BY <1>1, <2>1, QuietFrame
  <2> QED BY <1>2, <1>8, <2>2, <2>3, QuietStep
<1>9. CASE AsyncExecute
  <2> DEFINE new == <<Plain("executeAsyncLocalCalls")>>
  <2>1. new \in Seq(Command) /\ OtherOps(new)
    BY PlainType DEF PlainOp, Plain, OtherOps, EntryOps, BodyOps
  <2>2. /\ commands' = new \o Tail(commands) /\ UNCHANGED <<callState, callStack, vmOutput>>
        /\ Top.op = "asyncExecute"
    BY <1>9 DEF AsyncExecute, Replace, TopIs, Top
  <2> HIDE DEF new
  <2> QED BY <1>8, <2>1, <2>2
<1>10. CASE ExecuteAsyncLocalCalls
  <2> DEFINE four == <<Plain("executeAsyncLocalCall"), Plain("executeAsyncLocalCallback"),
                       Plain("dropAsyncLocalCall"), Plain("executeAsyncLocalCalls")>>
  <2>1. four \in Seq(Command) /\ OtherOps(four)
    BY PlainType DEF PlainOp, Plain, OtherOps, EntryOps, BodyOps
  <2>2. /\ UNCHANGED <<callState, callStack, vmOutput>> /\ Top.op = "executeAsyncLocalCalls"
    BY <1>10 DEF ExecuteAsyncLocalCalls, TopIs, Top
  <2>3. PICK new \in {<<>>, four} : commands' = new \o Tail(commands)
    BY <1>10 DEF ExecuteAsyncLocalCalls, Replace
  <2> HIDE DEF four
  <2> QED BY <1>3, <1>8, <2>1, <2>2, <2>3
<1>11. CASE DropAsyncLocalCall \/ MergeOutputs
  <2>1. /\ commands' = <<>> \o Tail(commands) /\ UNCHANGED <<callStack, vmOutput>>
        /\ Top.op \in {"dropAsyncLocalCall", "mergeOutputs"}
    BY <1>11 DEF DropAsyncLocalCall, MergeOutputs, Replace, TopIs, Top
  <2>2. callState'.instrs = callState.instrs
    BY <1>5, <1>11 DEF DropAsyncLocalCall, MergeOutputs, MergedWithOutput, CallState
  <2> QED BY <1>3, <1>8, <2>1, <2>2
<1>12. ASSUME NEW op \in {"callContract", "callContractCb"}, NEW to \in AnyAddress,
              NEW f \in Name, NEW in \in VmInput
       PROVE  /\ <<Call(op, to, f, in), Plain("mergeOutputs")>> \in Seq(Command)
              /\ OtherOps(<<Call(op, to, f, in), Plain("mergeOutputs")>>)
  <2>1. Call(op, to, f, in) \in Command /\ Plain("mergeOutputs") \in Command
    BY CallTypes, PlainType DEF PlainOp
  <2>2. Call(op, to, f, in).op = op /\ Plain("mergeOutputs").op = "mergeOutputs"
    BY DEF Call, Plain
  <2>3. \A i \in 1..2 : <<Call(op, to, f, in), Plain("mergeOutputs")>>[i].op
                          \in {"callContract", "callContractCb", "mergeOutputs"}
    BY <2>2
  <2> QED BY <2>1, <2>3 DEF OtherOps, EntryOps, BodyOps
<1>13. CASE ExecuteAsyncLocalCall
  <2> DEFINE c  == Head(callState.asyncCalls)
             in == CallInput(callState.callee, c.value, "AsynchronousCall", <<>>, c.args)
             new == <<Call("callContract", c.dest, c.func, in), Plain("mergeOutputs")>>
  <2>1. callState.callee \in AnyAddress /\ callState.asyncCalls \in Seq(AsyncCall)
    BY <1>5 DEF CallState
  <2>2. c \in AsyncCall
    BY <1>13, <2>1, HeadTailProperties DEF ExecuteAsyncLocalCall
  <2>3. /\ c.value \in Amount /\ c.args \in CallArgs /\ c.dest \in AnyAddress
        /\ c.func \in Name /\ "AsynchronousCall" \in CallType
    BY <2>2 DEF AsyncCall, AnyAddress, CallType
  <2>4. /\ commands' = new \o Tail(commands) /\ UNCHANGED <<callState, callStack, vmOutput>>
        /\ Top.op = "executeAsyncLocalCall"
    BY <1>13 DEF ExecuteAsyncLocalCall, Replace, TopIs, Top
  <2> HIDE DEF c
  <2>5. in \in VmInput
    <3>1. <<>> \in Seq(ESDTTransfer)
      OBVIOUS
    <3> QED BY <2>1, <2>3, <3>1, CallInputType
  <2> HIDE DEF in
  <2>6. new \in Seq(Command) /\ OtherOps(new)
    BY <1>12, <2>3, <2>5
  <2> HIDE DEF new
  <2> QED BY <1>8, <2>4, <2>6
<1>14. CASE ExecuteAsyncLocalCallback
  <2> DEFINE c    == Head(callState.asyncCalls)
             cb   == ChooseCallback(vmOutput.returnCode, c)
             last == ExtractLastTransfer(callState.callee)
             in   == CallInput(c.dest, last.value, "AsynchronousCallBack", last.esdt,
                               NoArgs)
             two  == <<Call("callContractCb", callState.callee, cb, in),
                       Plain("mergeOutputs")>>
  <2>1. callState.callee \in AnyAddress /\ callState.asyncCalls \in Seq(AsyncCall)
    BY <1>5 DEF CallState
  <2>2. c \in AsyncCall
    BY <1>14, <2>1, HeadTailProperties DEF ExecuteAsyncLocalCallback
  <2>3. c.dest \in AnyAddress /\ cb \in Name /\ "AsynchronousCallBack" \in CallType
    BY <2>2 DEF AsyncCall, AnyAddress, CallType, ChooseCallback
  <2>4. last \in OutputTransfer
    BY <2>1, LastTransferType
  <2>5. last.value \in Amount /\ last.esdt \in Seq(ESDTTransfer)
    BY <2>4 DEF OutputTransfer
  <2>6. /\ UNCHANGED <<callState, callStack, vmOutput>>
        /\ Top.op = "executeAsyncLocalCallback"
    BY <1>14 DEF ExecuteAsyncLocalCallback, TopIs, Top
  <2>7. PICK new \in {<<>>, two} : commands' = new \o Tail(commands)
    BY <1>14 DEF ExecuteAsyncLocalCallback, Replace
  <2> HIDE DEF c, last, cb
  <2>8. in \in VmInput
    BY <2>3, <2>5, EmptyTypes, CallInputType
  <2> HIDE DEF in
  <2>9. two \in Seq(Command) /\ OtherOps(two)
    BY <1>12, <2>1, <2>3, <2>8
  <2> HIDE DEF two
  <2> QED BY <1>3, <1>8, <2>6, <2>7, <2>9
<1> QED BY <1>6, <1>7, <1>9, <1>10, <1>11, <1>13, <1>14 DEF AsyncStep

(* The instructions a host call puts before those of the running contract.   *)
LEMMA WaitConcat ==
  /\ <<"waitCommands">> \o <<"code">> = <<"waitCommands", "code">>
  /\ <<"waitCommands">> \o (<<"finishExecuteOnDestContext">> \o <<"code">>) = WaitsForCall
<1> DEFINE w  == <<"waitCommands">>
           c  == <<"code">>
           f  == <<"finishExecuteOnDestContext">>
           wc == <<"waitCommands", "code">>
           fc == <<"finishExecuteOnDestContext", "code">>
           wfc == <<"waitCommands", "finishExecuteOnDestContext", "code">>
<1>1. /\ w \in Seq(Instr) /\ Len(w) = 1 /\ w[1] = "waitCommands"
      /\ c \in Seq(Instr) /\ Len(c) = 1 /\ c[1] = "code"
      /\ f \in Seq(Instr) /\ Len(f) = 1 /\ f[1] = "finishExecuteOnDestContext"
  BY DEF Instr
<1>2. /\ wc \in Seq(Instr) /\ Len(wc) = 2 /\ wc[1] = "waitCommands" /\ wc[2] = "code"
      /\ fc \in Seq(Instr) /\ Len(fc) = 2
      /\ fc[1] = "finishExecuteOnDestContext" /\ fc[2] = "code"
  BY DEF Instr
<1>3. /\ wfc \in Seq(Instr) /\ Len(wfc) = 3 /\ wfc[1] = "waitCommands"
      /\ wfc[2] = "finishExecuteOnDestContext" /\ wfc[3] = "code"
  BY DEF Instr
<1>4. wfc = WaitsForCall
  BY DEF WaitsForCall
<1> HIDE DEF w, c, f, wc, fc, wfc
<1>5. w \o c = wc
  <2>1. /\ w \o c \in Seq(Instr) /\ Len(w \o c) = 2
        /\ (w \o c)[1] = "waitCommands" /\ (w \o c)[2] = "code"
    BY <1>1, ConcatProperties
  <2>2. \A i \in 1..Len(wc) : wc[i] = (w \o c)[i]
    BY <1>2, <2>1
  <2> QED BY <1>2, <2>1, <2>2, SeqEqual
<1>6. f \o c = fc
  <2>1. /\ f \o c \in Seq(Instr) /\ Len(f \o c) = 2
        /\ (f \o c)[1] = "finishExecuteOnDestContext" /\ (f \o c)[2] = "code"
    BY <1>1, ConcatProperties
  <2>2. \A i \in 1..Len(fc) : fc[i] = (f \o c)[i]
    BY <1>2, <2>1
  <2> QED BY <1>2, <2>1, <2>2, SeqEqual
<1>7. w \o fc = wfc
  <2>1. /\ w \o fc \in Seq(Instr) /\ Len(w \o fc) = 3
        /\ (w \o fc)[1] = "waitCommands" /\ (w \o fc)[2] = fc[1] /\ (w \o fc)[3] = fc[2]
    BY <1>1, <1>2, ConcatProperties
  <2>2. \A i \in 1..Len(wfc) : wfc[i] = (w \o fc)[i]
    BY <1>2, <1>3, <2>1
  <2> QED BY <1>3, <2>1, <2>2, SeqEqual
<1> QED BY <1>4, <1>5, <1>6, <1>7 DEF w, c, f, wc

(* A host call that leaves commands of the body, and waits for them.         *)
LEMMA HostBody ==
  ASSUME TypeOK, CallsInProgress, TopIs("endWasm"), vmOutput = NoVMOutput,
         NEW new \in Seq(Command), new # <<>>, All(new, BodyOps \ LastOps),
         NEW is, is \in {<<>>, <<"code">>},
         HostCommands(new, is)
  PROVE  CallsInProgress'
<1>1. commands' = new \o commands /\ UNCHANGED <<callStack, vmOutput>>
  BY DEF HostCommands
<1>2. CommandsLaidOut(commands') /\ commands' # <<>> /\ Head(commands').op \in BodyOps
  BY <1>1, PrependBody DEF CallsInProgress, TypeOK, TopIs
<1>3. callState'.instrs = <<"waitCommands">> \o is
  BY DEF HostCommands, TypeOK, CallState
<1>4. callState'.instrs \in {<<"waitCommands">>, <<"waitCommands", "code">>}
  <2>1. <<"waitCommands">> \o <<>> = <<"waitCommands">>
    OBVIOUS
  <2>2. <<"waitCommands">> \o <<"code">> = <<"waitCommands", "code">>
    BY WaitConcat
  <2> QED BY <1>3, <2>1, <2>2
<1>5. /\ callState'.instrs \in OwnWorkInstrs
      /\ callState'.instrs \notin RunningInstrs
      /\ callState'.instrs # <<"initModule">>
  BY <1>4 DEF OwnWorkInstrs, RunningInstrs
<1> QED BY <1>1, <1>2, <1>5 DEF CallsInProgress, RunningFrame, Top

LEMMA CodeStepInProgress ==
  ASSUME TypeOK, CallsInProgress, CodeStep
  PROVE  CallsInProgress'
<1>1. /\ commands \in Seq(Command) /\ callState \in CallState /\ CommandsLaidOut(commands)
      /\ \A i \in 1..Len(callStack) : callStack[i].instrs \in SavedInstrs
  BY DEF TypeOK, CallsInProgress
<1>2. callState.instrs \in SavedInstrs \cup RunningInstrs \cup OwnWorkInstrs
                             \cup {<<"initModule">>}
  BY DEF CallsInProgress, RunningFrame
<1>3. InstrIs("code") => /\ callState.instrs = <<"code">> /\ TopIs("endWasm")
                         /\ vmOutput = NoVMOutput
  <2> SUFFICES ASSUME InstrIs("code")
               PROVE  /\ callState.instrs = <<"code">> /\ TopIs("endWasm")
                      /\ vmOutput = NoVMOutput
    OBVIOUS
  <2>1. callState.instrs = <<"code">>
    BY <1>2 DEF InstrIs, SavedInstrs, RunningInstrs, OwnWorkInstrs, WaitsForCall
  <2>2. <<"code">> \in RunningInstrs /\ <<"code">> \in OwnWorkInstrs
    BY DEF RunningInstrs, OwnWorkInstrs
  <2> QED BY <2>1, <2>2 DEF CallsInProgress, RunningFrame, TopIs, Top
<1>4. InstrIs("finishExecuteOnDestContext") =>
        callState.instrs = <<"finishExecuteOnDestContext", "code">> /\ TopIs("endWasm")
  <2> SUFFICES ASSUME InstrIs("finishExecuteOnDestContext")
               PROVE  callState.instrs = <<"finishExecuteOnDestContext", "code">>
                      /\ TopIs("endWasm")
    OBVIOUS
  <2>1. callState.instrs = <<"finishExecuteOnDestContext", "code">>
    BY <1>2 DEF InstrIs, SavedInstrs, RunningInstrs, OwnWorkInstrs, WaitsForCall
  <2> QED BY <2>1 DEF CallsInProgress, RunningFrame, RunningInstrs
<1>5. Tail(<<"code">>) = <<>> /\ Tail(<<"initModule">>) = <<>> /\ <<>> \in SavedInstrs
  BY DEF SavedInstrs
<1>6. CASE InitModule
  <2>1. callState.instrs = <<"initModule">>
    BY <1>2, <1>6 DEF InitModule, InstrIs, SavedInstrs, RunningInstrs, OwnWorkInstrs,
                      WaitsForCall
  <2>2. callState'.instrs \in SavedInstrs /\ UNCHANGED <<commands, callStack, vmOutput>>
    BY <1>1, <1>5, <1>6, <2>1 DEF InitModule, CallState
  <2> QED BY <1>1, <2>2, QuietStep DEF CallsInProgress, Top
<1>7. CASE WaitCommands
  <2>1. callState.instrs \in {<<"waitCommands">>, <<"waitCommands", "code">>, WaitsForCall}
    BY <1>2, <1>7 DEF WaitCommands, InstrIs, SavedInstrs, RunningInstrs, OwnWorkInstrs,
                      WaitsForCall
  <2>2. TopIs("endWasm") /\ UNCHANGED <<commands, callStack, vmOutput>>
    BY <1>7 DEF WaitCommands
  <2>3. callState'.instrs = Tail(callState.instrs)
    BY <1>1, <1>7 DEF WaitCommands, CallState
  <2>4. CASE callState.instrs = WaitsForCall
    <3>1. callState'.instrs = <<"finishExecuteOnDestContext", "code">>
      BY <2>3, <2>4 DEF WaitsForCall
    <3>2. /\ callState'.instrs \in RunningInstrs /\ callState'.instrs \notin OwnWorkInstrs
          /\ callState'.instrs # <<"initModule">>
      BY <3>1 DEF RunningInstrs, OwnWorkInstrs
    <3> QED BY <2>2, <3>2 DEF CallsInProgress, RunningFrame, TopIs, Top
  <2>5. CASE callState.instrs # WaitsForCall
    <3>1. callState.instrs \in OwnWorkInstrs
      BY <2>1, <2>5 DEF OwnWorkInstrs
    <3>2. vmOutput = NoVMOutput
      BY <2>2, <3>1 DEF CallsInProgress, RunningFrame, TopIs
    <3>3. callState'.instrs \in {<<>>, <<"code">>}
      <4>1. Tail(<<"waitCommands">>) = <<>>
        OBVIOUS
      <4>2. Tail(<<"waitCommands", "code">>) = <<"code">>
        OBVIOUS
      <4> QED BY <2>1, <2>3, <2>5, <4>1, <4>2
    <3>4. CASE callState'.instrs = <<>>
      <4>1. callState'.instrs \in SavedInstrs
        BY <1>5, <3>4
      <4> QED BY <1>1, <2>2, <3>2, <4>1, QuietStep
    <3>5. CASE callState'.instrs = <<"code">>
      <4>1. /\ callState'.instrs \in RunningInstrs /\ callState'.instrs \in OwnWorkInstrs
            /\ callState'.instrs # <<"initModule">>
        BY <3>5 DEF RunningInstrs, OwnWorkInstrs
      <4> QED BY <2>2, <3>2, <4>1 DEF CallsInProgress, RunningFrame, TopIs, Top
    <3> QED BY <3>3, <3>4, <3>5
  <2> QED BY <2>4, <2>5
<1>8. CASE FinishExecuteOnDestOk
  <2>1. /\ callState.instrs = <<"finishExecuteOnDestContext", "code">> /\ TopIs("endWasm")
        /\ vmOutput' = NoVMOutput /\ UNCHANGED <<commands, callStack>>
    BY <1>4, <1>8 DEF FinishExecuteOnDestOk
  <2>2. callState'.instrs = <<"code">>
    <3>1. MergedWithOutput(callState).instrs = callState.instrs
      BY <1>1 DEF MergedWithOutput, CallState
    <3>2. MergedWithOutput(callState) \in CallState
      BY MergedType
    <3>3. callState'.instrs = Tail(callState.instrs)
      BY <1>8, <3>1, <3>2 DEF FinishExecuteOnDestOk, CallState
    <3> QED BY <2>1, <3>3
  <2>3. /\ callState'.instrs \in RunningInstrs /\ callState'.instrs \in OwnWorkInstrs
        /\ callState'.instrs # <<"initModule">>
    BY <2>2 DEF RunningInstrs, OwnWorkInstrs
  <2> QED BY <1>1, <2>1, <2>3 DEF CallsInProgress, RunningFrame, TopIs, Top
<1>9. ASSUME NEW ec \in ExceptionCode, ThrowException(ec), TopIs("endWasm"),
             vmOutput' = NoVMOutput, UNCHANGED callStack
      PROVE  CallsInProgress'
  <2> DEFINE new == <<Exception(ec)>>
  <2>1. new \in Seq(Command) /\ All(new, BodyOps \ LastOps) /\ new # <<>>
    BY ExceptionOps
  <2>2. commands' = new \o commands
    BY <1>9 DEF ThrowException
  <2> HIDE DEF new
  <2>3. CommandsLaidOut(commands')
    BY <1>1, <1>9, <2>1, <2>2, PrependBody DEF TopIs
  <2>4. callState'.instrs \in SavedInstrs
    BY <1>1, <1>5, <1>9 DEF ThrowException, CallState
  <2> QED BY <1>1, <1>9, <2>3, <2>4, QuietStep
<1>10. CASE FinishExecuteOnDestException
  <2>1. ResolveError(vmOutput.returnCode) \in ExceptionCode
    BY <1>10 DEF FinishExecuteOnDestException, ResolveError, ExceptionCode
  <2> QED BY <1>4, <1>9, <1>10, <2>1 DEF FinishExecuteOnDestException
<1>11. CASE Return
  <2>1. callState'.instrs \in SavedInstrs /\ UNCHANGED <<commands, callStack, vmOutput>>
    BY <1>1, <1>3, <1>5, <1>11 DEF Return, CallState
  <2> QED BY <1>1, <1>3, <1>11, <2>1, QuietStep DEF Return
<1>12. CASE Throw
  <2>1. PICK ec \in {"UserError", "ExecutionFailed"} : ThrowException(ec)
    BY <1>12 DEF Throw
  <2>2. ec \in ExceptionCode
    BY DEF ExceptionCode
  <2> QED BY <1>3, <1>9, <1>12, <2>1, <2>2 DEF Throw
<1>13. CASE Finish \/ CleanReturnData
  <2>1. callState'.instrs = callState.instrs /\ UNCHANGED <<commands, callStack, vmOutput>>
    BY <1>1, <1>13 DEF Finish, CleanReturnData, CallState
  <2> QED BY <2>1 DEF CallsInProgress, RunningFrame, TopIs, Top
<1>14. CASE TransferValue
  <2>1. PICK r \in Calls :
          HostCommands(IF r.esdt = <<>>
                       THEN TransferFunds(callState.callee, r.dest, r.value)
                       ELSE TransferESDTs(callState.callee, r.dest, r.esdt),
                       callState.instrs)
    BY <1>14 DEF TransferValue
  <2> DEFINE new == IF r.esdt = <<>>
                    THEN TransferFunds(callState.callee, r.dest, r.value)
                    ELSE TransferESDTs(callState.callee, r.dest, r.esdt)
  <2>2. /\ callState.callee \in AnyAddress /\ r.dest \in AnyAddress
        /\ r.value \in Amount /\ r.esdt \in Seq(ESDTTransfer)
    BY <1>1, CallsAssumption DEF CallState, CallRequest, AnyAddress
  <2>3. new \in Seq(Command) /\ All(new, BodyOps \ LastOps) /\ new # <<>>
    BY <2>2, TransferFundsType, TransferESDTsType, TransferFundsOps, TransferESDTsOps
  <2>4. HostCommands(new, <<"code">>) /\ TopIs("endWasm") /\ vmOutput = NoVMOutput
    BY <1>3, <1>14, <2>1 DEF TransferValue, HostCall
  <2> HIDE DEF new
  <2> QED BY <2>3, <2>4, HostBody
<1>15. CASE ExecuteOnDestContext
  <2>1. PICK r \in Calls :
          LET in == CallInput(callState.callee, r.value, "DirectCall", r.esdt, r.args)
          IN  HostCommands(<<Call("callContract", r.dest, r.func, in)>>,
                           <<"finishExecuteOnDestContext">> \o callState.instrs)
    BY <1>15 DEF ExecuteOnDestContext
  <2> DEFINE in == CallInput(callState.callee, r.value, "DirectCall", r.esdt, r.args)
             c  == Call("callContract", r.dest, r.func, in)
  <2>2. /\ callState.callee \in AnyAddress /\ r.dest \in AnyAddress /\ r.func \in Name
        /\ r.value \in Amount /\ r.esdt \in Seq(ESDTTransfer) /\ r.args \in CallArgs
        /\ "DirectCall" \in CallType
    BY <1>1, CallsAssumption DEF CallState, CallRequest, AnyAddress, CallType
  <2>3. in \in VmInput
    BY <2>2, CallInputType
  <2>4. /\ callState.instrs = <<"code">> /\ TopIs("endWasm")
        /\ HostCommands(<<c>>, <<"finishExecuteOnDestContext">> \o callState.instrs)
    BY <1>3, <1>15, <2>1 DEF ExecuteOnDestContext, HostCall
  <2> HIDE DEF in
  <2>5. c \in Command /\ c.op = "callContract"
    BY <2>2, <2>3, CallTypes DEF Call
  <2> HIDE DEF c
  <2>6. commands' = <<c>> \o commands /\ UNCHANGED <<callStack, vmOutput>>
    BY <2>4 DEF HostCommands
  <2>7. c.op \notin EntryOps \cup BodyOps
    BY <2>5 DEF EntryOps, BodyOps
  <2>8. CommandsLaidOut(commands') /\ commands' # <<>> /\ Head(commands') = c
    BY <1>1, <2>4, <2>5, <2>6, <2>7, PrependOther DEF TopIs
  <2>9. callState'.instrs = <<"waitCommands">> \o (<<"finishExecuteOnDestContext">> \o <<"code">>)
    BY <1>1, <2>4 DEF HostCommands, CallState
  <2>10. <<"waitCommands">> \o (<<"finishExecuteOnDestContext">> \o <<"code">>) = WaitsForCall
    BY WaitConcat
  <2>11. callState'.instrs \in SavedInstrs
    BY <2>9, <2>10 DEF SavedInstrs
  <2> QED BY <1>1, <2>6, <2>7, <2>8, <2>11, QuietStep
<1>16. ASSUME NEW cb \in CallbackPair, NEW is, is \in {<<>>, <<"code">>},
              InstrIs("code"), CreateAsyncCallWith(cb, is)
       PROVE  CallsInProgress'
  <2>1. PICK r \in Calls :
          HostCommands(<<Async("registerAsyncCall",
                               [dest |-> r.dest, func |-> r.func, args |-> r.args,
                                value |-> r.value, success |-> cb.success,
                                error |-> cb.error])>>, is)
    BY <1>16 DEF CreateAsyncCallWith
  <2> DEFINE call == [dest |-> r.dest, func |-> r.func, args |-> r.args, value |-> r.value,
                      success |-> cb.success, error |-> cb.error]
             c == Async("registerAsyncCall", call)
             new == <<c>>
  <2>2. r \in CallRequest
    BY CallsAssumption
  <2>3. call \in AsyncCall
    BY <2>2 DEF CallRequest, CallbackPair, AsyncCall
  <2>4. HostCommands(new, is) /\ TopIs("endWasm") /\ vmOutput = NoVMOutput
    BY <1>3, <1>16, <2>1
  <2> HIDE DEF call
  <2>5. c \in Command /\ c.op = "registerAsyncCall"
    BY <2>3 DEF Async, Command
  <2> HIDE DEF c
  <2>6. new \in Seq(Command) /\ new # <<>> /\ All(new, BodyOps \ LastOps)
    BY <2>5, AllOne DEF BodyOps, LastOps
  <2> HIDE DEF new
  <2> QED BY <1>16, <2>4, <2>6, HostBody
<1>17. CASE CreateAsyncCall
  <2>1. PICK cb \in Callbacks : CreateAsyncCallWith(cb, callState.instrs)
    BY <1>17 DEF CreateAsyncCall
  <2>2. cb \in CallbackPair /\ InstrIs("code") /\ callState.instrs \in {<<>>, <<"code">>}
    BY <1>3, <1>17, CallsAssumption DEF CreateAsyncCall, HostCall
  <2> QED BY <1>16, <2>1, <2>2
<1>18. CASE ManagedAsyncCall
  <2> DEFINE cb == [success |-> "callBack", error |-> "callBack"]
             is == <<>>
  <2>1. cb \in CallbackPair
    BY CallsAssumption DEF CallbackPair, Name
  <2>2. InstrIs("code") /\ CreateAsyncCallWith(cb, is) /\ is \in {<<>>, <<"code">>}
    BY <1>18 DEF ManagedAsyncCall, HostCall
  <2> HIDE DEF cb, is
  <2> QED BY <1>16, <2>1, <2>2
<1> QED BY <1>6, <1>7, <1>8, <1>10, <1>11, <1>12, <1>13, <1>14, <1>15, <1>17, <1>18
        DEF CodeStep

LEMMA CallTxInProgress ==
  ASSUME TypeOK, CallsInProgress, CallTx
  PROVE  CallsInProgress'
<1>1. PICK from \in Senders, r \in Calls, fee \in Fees :
        commands' = <<Call("callContract", r.dest, r.func,
                           [caller |-> from, callValue |-> r.value,
                            callType |-> "DirectCall", esdtTransfers |-> r.esdt,
                            callArgs |-> r.args, txHash |-> txCount + 1])>>
  BY DEF CallTx
<1>2. commands' \in Seq(Command)
  BY CallTxType DEF TypeOK
<1>3. \A i \in 1..Len(commands') : commands'[i].op = "callContract"
  BY <1>1 DEF Call
<1>4. OtherOps(commands')
  BY <1>3 DEF OtherOps, EntryOps, BodyOps
<1>5. CommandsLaidOut(commands')
  BY <1>2, <1>4, OtherLaidOut
<1>6. commands' # <<>> => Head(commands').op \notin EntryOps \cup BodyOps
  BY <1>1 DEF Call, EntryOps, BodyOps
<1>7. callState'.instrs \in SavedInstrs /\ UNCHANGED callStack
  BY DEF CallTx, Idle, NoInstrs, SavedInstrs
<1> QED BY <1>5, <1>6, <1>7, QuietStep DEF CallsInProgress

(* The layout of the commands and the instructions of the frames, and with   *)
(* them the emptiness of <vmOutput>, are kept by every step.                 *)
THEOREM CallsStayInProgress == Spec => []CallsInProgress
<1>1. Init => CallsInProgress
  <2> SUFFICES ASSUME Init PROVE CallsInProgress
    OBVIOUS
  <2>1. commands = <<>> /\ callStack = <<>> /\ callState.instrs = <<>>
    BY DEF Init, DefaultCallState
  <2>2. CommandsLaidOut(commands)
    <3>1. commands \in Seq(Command)
      BY <2>1
    <3>2. OtherOps(commands)
      <4>1. 1..Len(commands) = {}
        BY <2>1
      <4> QED BY <4>1 DEF OtherOps
    <3> QED BY <3>1, <3>2, OtherLaidOut
  <2>3. callState.instrs \in SavedInstrs /\ callState.instrs \notin RunningInstrs
        /\ callState.instrs \notin OwnWorkInstrs /\ callState.instrs # <<"initModule">>
    BY <2>1, InstrsApart DEF SavedInstrs
  <2> QED BY <2>1, <2>2, <2>3 DEF CallsInProgress, RunningFrame
<1>2. TypeOK /\ CallsInProgress /\ [Next]_vars => CallsInProgress'
  <2> SUFFICES ASSUME TypeOK, CallsInProgress, [Next]_vars PROVE CallsInProgress'
    OBVIOUS
  <2>1. CASE UNCHANGED vars
    BY <2>1 DEF vars, CallsInProgress, RunningFrame, TopIs, Top
  <2>2. CASE Finished
    BY <2>2 DEF Finished, vars, CallsInProgress, RunningFrame, TopIs, Top
  <2>3. CASE CallTx
    BY <2>3, CallTxInProgress
  <2>4. CASE Step
    BY <2>4, StackStepInProgress, CheckStepInProgress, TransferStepInProgress,
       CallStepInProgress, AsyncStepInProgress, CodeStepInProgress DEF Step
  <2> QED BY <2>1, <2>2, <2>3, <2>4 DEF Next
<1> QED BY <1>1, <1>2, TypeCorrect, PTL DEF Spec

(* Whatever the contracts do, a pending exception has the #endWasm of the    *)
(* failing call below it and finds <vmOutput> empty, so exception-revert     *)
(* can take it.                                                              *)
THEOREM ExceptionsAreCaught == Spec => []ExceptionIsCaught
<1>1. TypeOK /\ CallsInProgress => ExceptionIsCaught
  <2> SUFFICES ASSUME TypeOK, CallsInProgress, TopIs("exception")
               PROVE  CommandsOf({"endWasm"}) # {} /\ vmOutput = NoVMOutput
    BY DEF ExceptionIsCaught
  <2>1. commands # <<>> /\ commands \in Seq(Command) /\ Top.op = "exception" /\ Top = commands[1]
    BY DEF TopIs, Top, TypeOK
  <2>2. Top.op \in BodyOps
    BY <2>1 DEF BodyOps
  <2>3. vmOutput = NoVMOutput
    BY <2>1, <2>2 DEF CallsInProgress
  <2>4. PICK m \in 0..Len(commands), n \in 0..Len(commands) : LaidOut(commands, m, n)
    BY DEF CallsInProgress, CommandsLaidOut
  <2>5. 1 \in 1..Len(commands)
    BY <2>1, EmptySeq
  <2>6. n > 0
    BY <2>1, <2>2, <2>4, <2>5 DEF LaidOut
  <2>7. n + 1 \in 1..Len(commands) /\ commands[n + 1].op = "endWasm"
    BY <2>4, <2>5, <2>6 DEF LaidOut
  <2>8. n + 1 \in CommandsOf({"endWasm"})
    BY <2>1, <2>7, LenProperties DEF CommandsOf
  <2> QED BY <2>3, <2>8
<1> QED BY <1>1, TypeCorrect, CallsStayInProgress, PTL


(***************************************************************************)
(* The stacks of CallMachine match the commands that take their frames and *)
(* worlds back, whatever is called.                                        *)
(***************************************************************************)

(* ------------------------- Counting commands ----------------------------- *)

PlacesOf(s, ops) == {i \in DOMAIN s : s[i].op \in ops}
Count(s, ops) == Cardinality(PlacesOf(s, ops))

LEMMA PlacesFinite ==
  ASSUME NEW s \in Seq(Command), NEW ops
  PROVE  IsFiniteSet(PlacesOf(s, ops)) /\ Count(s, ops) \in Nat
<1>1. DOMAIN s = 1..Len(s) /\ Len(s) \in Nat
  BY LenProperties
<1>2. IsFiniteSet(1..Len(s)) /\ PlacesOf(s, ops) \in SUBSET (1..Len(s))
  BY <1>1, FS_Interval DEF PlacesOf
<1> QED  BY <1>2, FS_Subset, FS_CardinalityType DEF Count

LEMMA CountConcat ==
  ASSUME NEW s \in Seq(Command), NEW t \in Seq(Command), NEW ops
  PROVE  Count(s \o t, ops) = Count(s, ops) + Count(t, ops)
<1> DEFINE n == Len(s)
           B == PlacesOf(s, ops)
           C == PlacesOf(t, ops)
           D == {i + n : i \in C}
           f == [i \in C |-> i + n]
<1>1. /\ DOMAIN s = 1..n /\ DOMAIN t = 1..Len(t) /\ n \in Nat /\ Len(t) \in Nat
      /\ DOMAIN (s \o t) = 1..(n + Len(t))
      /\ \A i \in 1..(n + Len(t)) : (s \o t)[i] = IF i <= n THEN s[i] ELSE t[i - n]
  BY LenProperties, ConcatProperties
<1>2. IsFiniteSet(B) /\ IsFiniteSet(C)
  BY PlacesFinite
<1>3. f \in Bijection(C, D)
  BY <1>1 DEF PlacesOf, Bijection, Injection, Surjection, IsInjective
<1>4. IsFiniteSet(D) /\ Cardinality(D) = Cardinality(C)
  <2>1. ExistsBijection(C, D)
    BY <1>3 DEF ExistsBijection
  <2> HIDE DEF C, D
  <2> QED  BY <1>2, <2>1, FS_Bijection
<1>5. PlacesOf(s \o t, ops) = B \cup D
  <2>1. ASSUME NEW i \in B \cup D PROVE i \in PlacesOf(s \o t, ops)
    BY <1>1 DEF PlacesOf
  <2>2. ASSUME NEW i \in PlacesOf(s \o t, ops) PROVE i \in B \cup D
    <3>1. CASE i <= n
      BY <1>1, <3>1 DEF PlacesOf
    <3>2. CASE i > n
      <4>1. i - n \in C /\ i = (i - n) + n
        BY <1>1, <3>2 DEF PlacesOf
      <4> QED  BY <4>1
    <3> QED  BY <1>1, <3>1, <3>2 DEF PlacesOf
  <2> QED  BY <2>1, <2>2
<1>6. B \cap D = {}
  BY <1>1 DEF PlacesOf
<1> HIDE DEF B, C, D, n
<1>7. Cardinality(B \cup D) = Cardinality(B) + Cardinality(D) - Cardinality(B \cap D)
  BY <1>2, <1>4, FS_Union
<1>8. Cardinality(B \cap D) = 0 /\ Cardinality(B) \in Nat /\ Cardinality(D) \in Nat
  BY <1>2, <1>4, <1>6, FS_EmptySet, FS_CardinalityType
<1> QED  BY <1>4, <1>5, <1>7, <1>8 DEF Count, B, C

LEMMA CountNone ==
  ASSUME NEW s \in Seq(Command), NEW ops, \A i \in 1..Len(s) : s[i].op \notin ops
  PROVE  Count(s, ops) = 0
<1>1. PlacesOf(s, ops) = {}
  BY LenProperties DEF PlacesOf
<1> QED  BY <1>1, FS_EmptySet DEF Count

LEMMA CountOne ==
  ASSUME NEW c \in Command, NEW ops
  PROVE  <<c>> \in Seq(Command) /\ Count(<<c>>, ops) = IF c.op \in ops THEN 1 ELSE 0
<1>1. <<c>> \in Seq(Command) /\ Len(<<c>>) = 1 /\ <<c>>[1] = c
  OBVIOUS
<1>2. CASE c.op \in ops
  <2>1. PlacesOf(<<c>>, ops) = {1}
    BY <1>2 DEF PlacesOf
  <2> QED  BY <1>1, <1>2, <2>1, FS_Singleton DEF Count
<1>3. CASE c.op \notin ops
  <2>1. \A i \in 1..Len(<<c>>) : <<c>>[i].op \notin ops
    BY <1>1, <1>3
  <2>2. Count(<<c>>, ops) = 0
    BY <1>1, <2>1, CountNone
  <2> QED  BY <1>1, <1>3, <2>2
<1> QED  BY <1>2, <1>3

LEMMA CountTail ==
  ASSUME NEW s \in Seq(Command), s # <<>>, NEW ops
  PROVE  Count(s, ops) = (IF Head(s).op \in ops THEN 1 ELSE 0) + Count(Tail(s), ops)
<1>1. Head(s) \in Command /\ Tail(s) \in Seq(Command) /\ s = <<Head(s)>> \o Tail(s)
  BY HeadTailProperties
<1>2. /\ <<Head(s)>> \in Seq(Command)
      /\ Count(<<Head(s)>>, ops) = IF Head(s).op \in ops THEN 1 ELSE 0
  BY <1>1, CountOne
<1>3. Count(<<Head(s)>> \o Tail(s), ops) = Count(<<Head(s)>>, ops) + Count(Tail(s), ops)
  BY <1>1, <1>2, CountConcat
<1> QED  BY <1>1, <1>2, <1>3

(* --------------------- How a step rewrites the commands ------------------ *)

(* The commands that push or pop a stack, and those that debit and credit a  *)
(* token balance; every other command leaves both to them.                   *)
StackOps == {"pushWorldState", "popWorldState", "dropWorldState",
             "pushCallState", "popCallState", "endWasm"}
TransferOps == {"checkESDTBalance", "addToESDTBalance"}
CallOps == {"callContract", "callContractCb"}
EndingOps == StackOps \cup {"setVMOutput"}
NoneOf(s, ops) == \A i \in 1..Len(s) : s[i].op \notin ops

Entry == <<Plain("pushWorldState"), Plain("pushCallState"), Plain("resetCallstate")>>

(* The top command is worked off, and may leave other work.  Checks of an    *)
(* account, exceptions and the expansion of a transfer are kept apart.       *)
ShapeOps == StackOps \cup CallOps \cup TransferOps
              \cup {"checkAccountExists", "exception", "transferESDTs"}
Works ==
  /\ commands # <<>> /\ Top.op \notin ShapeOps
  /\ \E new \in Seq(Command) :
       NoneOf(new, EndingOps \cup TransferOps) /\ commands' = new \o Tail(commands)
  /\ UNCHANGED <<callStack, interimStates>>

(* A call is entered: its pushes, its body and its #endWasm.                 *)
Enters ==
  /\ commands # <<>> /\ Top.op \in CallOps
  /\ \E body \in Seq(Command) :
       /\ NoneOf(body, EndingOps \cup TransferOps)
       /\ commands' = ((Entry \o body) \o <<Plain("endWasm")>>) \o Tail(commands)
  /\ vmOutput' = NoVMOutput
  /\ UNCHANGED <<accounts, callState, callStack, interimStates>>

(* Code leaves work in front of the #endWasm of its call.                    *)
Leaves ==
  /\ commands # <<>> /\ Top.op = "endWasm"
  /\ \E new \in Seq(Command) :
       NoneOf(new, EndingOps \cup TransferOps) /\ commands' = new \o commands
  /\ UNCHANGED <<accounts, callStack, interimStates>>

(* Code goes on without a command.                                           *)
Computes ==
  /\ commands # <<>> /\ Top.op \in {"endWasm", "waitWasm"}
  /\ UNCHANGED <<accounts, commands, callStack, interimStates>>

LEMMA EmptyNone == \A ops : NoneOf(<<>>, ops) /\ <<>> \in Seq(Command)
BY DEF NoneOf

LEMMA ExceptionNone ==
  ASSUME NEW ec \in ExceptionCode
  PROVE  /\ <<Exception(ec)>> \in Seq(Command)
         /\ NoneOf(<<Exception(ec)>>, EndingOps \cup TransferOps)
BY ExceptionType DEF NoneOf, Exception, EndingOps, StackOps, TransferOps

LEMMA NoneConcat ==
  ASSUME NEW s \in Seq(Command), NEW t \in Seq(Command), NEW ops,
         NoneOf(s, ops), NoneOf(t, ops)
  PROVE  s \o t \in Seq(Command) /\ NoneOf(s \o t, ops)
<1>1. Len(s) \in Nat /\ Len(t) \in Nat /\ s \o t \in Seq(Command)
  BY LenProperties, ConcatProperties
<1>2. \A i \in 1..Len(s \o t) :
        \/ i \in 1..Len(s) /\ (s \o t)[i] = s[i]
        \/ i - Len(s) \in 1..Len(t) /\ (s \o t)[i] = t[i - Len(s)]
  BY <1>1, ConcatProperties
<1> QED  BY <1>1, <1>2 DEF NoneOf

LEMMA OneNone ==
  ASSUME NEW c \in Command
  PROVE  <<c>> \in Seq(Command) /\ \A ops : c.op \notin ops => NoneOf(<<c>>, ops)
BY DEF NoneOf

LEMMA TransferFundsNone ==
  ASSUME NEW a \in AnyAddress, NEW b \in AnyAddress, NEW v \in Amount
  PROVE  /\ TransferFunds(a, b, v) \in Seq(Command)
         /\ NoneOf(TransferFunds(a, b, v), EndingOps \cup TransferOps)
<1>1. TransferFunds(a, b, v) \in Seq(Command)
  BY TransferFundsType
<1>2. NoneOf(TransferFunds(a, b, v), EndingOps \cup TransferOps)
  BY DEF NoneOf, TransferFunds, CheckAccountExists, TransferFundsH, EndingOps, StackOps,
         TransferOps
<1> QED  BY <1>1, <1>2

LEMMA TransferESDTsNone ==
  ASSUME NEW a \in AnyAddress, NEW b \in AnyAddress, NEW l \in Seq(ESDTTransfer)
  PROVE  /\ TransferESDTs(a, b, l) \in Seq(Command)
         /\ NoneOf(TransferESDTs(a, b, l), EndingOps \cup TransferOps)
<1>1. TransferESDTs(a, b, l) \in Seq(Command)
  BY TransferESDTsType
<1>2. NoneOf(TransferESDTs(a, b, l), EndingOps \cup TransferOps)
  BY DEF NoneOf, TransferESDTs, TransferESDTsAux, AppendToOutAccount, EndingOps, StackOps,
         TransferOps
<1> QED  BY <1>1, <1>2

LEMMA NewInstanceAndCallNone ==
  ASSUME NEW to \in AnyAddress, NEW f \in Name, NEW in \in VmInput
  PROVE  /\ NewInstanceAndCall(to, f, in) \in Seq(Command)
         /\ NoneOf(NewInstanceAndCall(to, f, in), EndingOps \cup TransferOps)
<1>1. NewInstanceAndCall(to, f, in) \in Seq(Command)
  BY NewInstanceAndCallType
<1>2. NoneOf(NewInstanceAndCall(to, f, in), EndingOps \cup TransferOps)
  BY DEF NoneOf, NewInstanceAndCall, Plain, Call, EndingOps, StackOps, TransferOps
<1> QED  BY <1>1, <1>2

LEMMA CheckShape ==
  ASSUME TypeOK, CheckStep
  PROVE  Works \/ DoCheckAccountExists \/ ExceptionSkip \/ ExceptionRevert
<1>1. CASE DoCheckBool
  <2>1. commands # <<>> /\ Top.op = "checkBool"
    BY <1>1 DEF DoCheckBool, TopIs, Top
  <2>2. PICK new \in {<<>>, <<Exception("ExecutionFailed")>>} :
          commands' = new \o Tail(commands)
    BY <1>1 DEF DoCheckBool, Replace
  <2>3. new \in Seq(Command) /\ NoneOf(new, EndingOps \cup TransferOps)
    BY EmptyNone, ExceptionNone DEF ExceptionCode
  <2>4. UNCHANGED <<callStack, interimStates>>
    BY <1>1 DEF DoCheckBool
  <2> QED  BY <2>1, <2>2, <2>3, <2>4 DEF Works, ShapeOps, StackOps, CallOps, TransferOps
<1> QED  BY <1>1 DEF CheckStep

LEMMA TransferShape ==
  ASSUME TypeOK, TransferStep
  PROVE  Works \/ DoTransferESDTs \/ DoCheckESDTBalance \/ DoAddToESDTBalance
<1>1. commands # <<>> /\ Top \in Command /\ UNCHANGED <<callStack, interimStates>>
  BY TopType DEF TransferStep, TransferFundsSelf, TransferFundsMove, TransferFundsOutOfFunds,
       DoTransferESDTs, DoCheckESDTBalance, DoAddToESDTBalance, DoAppendToOutAccount,
       TopIs, Top
<1>2. CASE TransferFundsSelf \/ TransferFundsMove
  <2> DEFINE c == AppendToOutAccount(Top.to, Top.from, Top.value, <<>>)
  <2>1. /\ Top.from \in AnyAddress /\ Top.to \in AnyAddress /\ Top.value \in Amount
        /\ Top.op = "transferFundsH"
    BY <1>1, <1>2, FieldTypes DEF TransferFundsSelf, TransferFundsMove, TopIs, Top
  <2>2. c \in Command /\ c.op = "appendToOutAccount"
    BY <2>1 DEF AppendToOutAccount, Command, OutputTransfer
  <2>3. commands' = <<c>> \o Tail(commands)
    BY <1>2 DEF TransferFundsSelf, TransferFundsMove, Replace
  <2> HIDE DEF c
  <2>4. <<c>> \in Seq(Command) /\ NoneOf(<<c>>, EndingOps \cup TransferOps)
    BY <2>2, OneNone DEF EndingOps, StackOps, TransferOps
  <2> QED  BY <1>1, <2>1, <2>3, <2>4 DEF Works, ShapeOps, StackOps, CallOps, TransferOps
<1>3. CASE TransferFundsOutOfFunds
  <2>1. Top.op = "transferFundsH" /\ commands' = <<Exception("OutOfFunds")>> \o Tail(commands)
    BY <1>3 DEF TransferFundsOutOfFunds, TopIs, Top, Replace
  <2> QED  BY <1>1, <2>1, ExceptionNone
           DEF Works, ShapeOps, StackOps, CallOps, TransferOps, ExceptionCode
<1>4. CASE DoAppendToOutAccount
  <2>1. Top.op = "appendToOutAccount" /\ commands' = <<>> \o Tail(commands)
    BY <1>4 DEF DoAppendToOutAccount, TopIs, Top, Replace
  <2> QED  BY <1>1, <2>1, EmptyNone DEF Works, ShapeOps, StackOps, CallOps, TransferOps
<1> QED  BY <1>2, <1>3, <1>4 DEF TransferStep

LEMMA CallShape ==
  ASSUME TypeOK, CallStep
  PROVE  Works \/ Enters \/ EndWasm
<1>1. commands # <<>> /\ Top \in Command
  BY TopType DEF CallStep, DoCallContract, CallContractAux, CallContractAuxBuiltin,
       CallContractAuxErrCallback, CallContractAuxNotContract, DoCallContractCb,
       NewWasmInstance, WaitWasm, MkCall, MkCallFuncNotFound, EndWasm, SetVMOutput,
       DoProcessBuiltinFunction, DetermineIsSCCallAfter, TopIs, Top
<1>2. CASE DoCallContract
  <2> DEFINE in  == Top.input
             a   == TransferFunds(in.caller, Top.to, in.callValue)
             b   == TransferESDTs(in.caller, Top.to, in.esdtTransfers)
             aux == CallFrom("callContractAux", in.caller, Top.to, Top.func, in)
             d   == Plain("endWasm")
             e   == Entry
  <2>1. /\ Top.op = "callContract"
        /\ Top.to \in AnyAddress /\ Top.func \in Name /\ in \in VmInput
    BY <1>1, <1>2, FieldTypes DEF DoCallContract, TopIs, Top
  <2>2. /\ in.caller \in AnyAddress /\ in.callValue \in Amount
        /\ in.esdtTransfers \in Seq(ESDTTransfer)
    BY <2>1 DEF VmInput
  <2>3. e \in Seq(Command) /\ d \in Command
    BY PlainType DEF PlainOp, Entry
  <2>4. a \in Seq(Command) /\ NoneOf(a, EndingOps \cup TransferOps)
    BY <2>1, <2>2, TransferFundsNone
  <2>5. b \in Seq(Command) /\ NoneOf(b, EndingOps \cup TransferOps)
    BY <2>1, <2>2, TransferESDTsNone
  <2>6. aux \in Command /\ aux.op = "callContractAux"
    BY <2>1, <2>2, CallTypes DEF CallFrom
  <2>7. commands' = (((e \o a) \o b) \o <<aux, d>>) \o Tail(commands)
    BY <1>2 DEF DoCallContract, Replace, Entry
  <2>8. vmOutput' = NoVMOutput /\ UNCHANGED <<accounts, callState, callStack, interimStates>>
    BY <1>2 DEF DoCallContract
  <2> DEFINE c == <<aux>>
             z == <<d>>
  <2>9. c \in Seq(Command) /\ NoneOf(c, EndingOps \cup TransferOps) /\ z \in Seq(Command)
    BY <2>3, <2>6, OneNone DEF EndingOps, StackOps, TransferOps
  <2>10. <<aux, d>> = c \o z
    BY <2>3, <2>6, PairIsConcat
  <2> HIDE DEF a, b, aux, d, e, c, z
  <2>11. ((e \o a) \o b) \o (c \o z) = (e \o ((a \o b) \o c)) \o z
    <3>1. /\ e \in Seq(Command) /\ a \in Seq(Command) /\ b \in Seq(Command)
          /\ c \in Seq(Command) /\ z \in Seq(Command)
      BY <2>3, <2>4, <2>5, <2>9
    <3>2. Cat(Cat(Cat(e, a), b), Cat(c, z)) = Cat(Cat(e, Cat(Cat(a, b), c)), z)
      BY <3>1, CatProperties
    <3> QED  BY <3>2 DEF Cat
  <2> DEFINE body == (a \o b) \o c
  <2>12. body \in Seq(Command) /\ NoneOf(body, EndingOps \cup TransferOps)
    BY <2>4, <2>5, <2>9, NoneConcat
  <2>13. commands' = ((e \o body) \o z) \o Tail(commands)
    BY <2>7, <2>10, <2>11
  <2> HIDE DEF body
  <2> QED  BY <1>1, <2>1, <2>8, <2>12, <2>13 DEF Enters, CallOps, e, z, d
<1>3. CASE DoCallContractCb
  <2> DEFINE body == NewInstanceAndCall(Top.to, Top.func, Top.input)
  <2>1. /\ Top.op = "callContractCb"
        /\ Top.to \in AnyAddress /\ Top.func \in Name /\ Top.input \in VmInput
    BY <1>1, <1>3, FieldTypes DEF DoCallContractCb, TopIs, Top
  <2>2. body \in Seq(Command) /\ NoneOf(body, EndingOps \cup TransferOps)
    BY <2>1, NewInstanceAndCallNone
  <2>3. /\ commands' = ((Entry \o body) \o <<Plain("endWasm")>>) \o Tail(commands)
        /\ vmOutput' = NoVMOutput /\ UNCHANGED <<accounts, callState, callStack, interimStates>>
    BY <1>3 DEF DoCallContractCb, Replace, Entry
  <2> HIDE DEF body
  <2> QED  BY <1>1, <2>1, <2>2, <2>3 DEF Enters, CallOps
<1>4. ASSUME NEW new \in Seq(Command), NoneOf(new, EndingOps \cup TransferOps),
             commands' = new \o Tail(commands), UNCHANGED <<callStack, interimStates>>,
             Top.op \in {"callContractAux", "newWasmInstance", "waitWasm", "mkCall",
                         "setVMOutput", "processBuiltinFunction", "determineIsSCCallAfter"}
      PROVE  Works
  BY <1>1, <1>4 DEF Works, ShapeOps, StackOps, CallOps, TransferOps
<1>5. CASE CallContractAux
  <2> DEFINE new == NewInstanceAndCall(Top.to, Top.func, Top.input)
  <2>1. /\ Top.op = "callContractAux"
        /\ Top.to \in AnyAddress /\ Top.func \in Name /\ Top.input \in VmInput
    BY <1>1, <1>5, FieldTypes DEF CallContractAux, TopIs, Top
  <2>2. new \in Seq(Command) /\ NoneOf(new, EndingOps \cup TransferOps)
    BY <2>1, NewInstanceAndCallNone
  <2>3. commands' = new \o Tail(commands) /\ UNCHANGED <<callStack, interimStates>>
    BY <1>5 DEF CallContractAux, Replace
  <2> HIDE DEF new
  <2> QED  BY <1>4, <2>1, <2>2, <2>3
<1>6. CASE CallContractAuxBuiltin
  <2> DEFINE c == CallFrom("processBuiltinFunction", Top.from, Top.to, Top.func, Top.input)
             new == <<c>>
  <2>1. /\ Top.op = "callContractAux" /\ Top.from \in AnyAddress /\ Top.to \in AnyAddress
        /\ Top.func \in Name /\ Top.input \in VmInput
    BY <1>1, <1>6, FieldTypes DEF CallContractAuxBuiltin, TopIs, Top
  <2>2. c \in Command /\ c.op = "processBuiltinFunction"
    BY <2>1, CallTypes DEF CallFrom
  <2>3. commands' = new \o Tail(commands) /\ UNCHANGED <<callStack, interimStates>>
    BY <1>6 DEF CallContractAuxBuiltin, Replace
  <2> HIDE DEF c
  <2>4. new \in Seq(Command) /\ NoneOf(new, EndingOps \cup TransferOps)
    BY <2>2, OneNone DEF EndingOps, StackOps, TransferOps
  <2> HIDE DEF new
  <2> QED  BY <1>4, <2>1, <2>3, <2>4
<1>7. CASE CallContractAuxErrCallback \/ CallContractAuxNotContract \/ MkCallFuncNotFound
  <2>1. /\ Top.op \in {"callContractAux", "mkCall"} /\ UNCHANGED <<callStack, interimStates>>
        /\ \E ec \in ExceptionCode : commands' = <<Exception(ec)>> \o Tail(commands)
    BY <1>7 DEF CallContractAuxErrCallback, CallContractAuxNotContract, MkCallFuncNotFound,
            TopIs, Top, Replace, ExceptionCode
  <2> QED  BY <1>4, <2>1, ExceptionNone
<1>8. CASE NewWasmInstance
  <2> DEFINE new == <<Plain("waitWasm")>>
  <2>1. new \in Seq(Command) /\ NoneOf(new, EndingOps \cup TransferOps)
    BY PlainType DEF PlainOp, Plain, NoneOf, EndingOps, StackOps, TransferOps
  <2>2. /\ commands' = new \o Tail(commands) /\ UNCHANGED <<callStack, interimStates>>
        /\ Top.op = "newWasmInstance"
    BY <1>8 DEF NewWasmInstance, Replace, TopIs, Top
  <2> HIDE DEF new
  <2> QED  BY <1>4, <2>1, <2>2
<1>9. CASE WaitWasm \/ MkCall \/ SetVMOutput
  <2>1. /\ commands' = <<>> \o Tail(commands) /\ UNCHANGED <<callStack, interimStates>>
        /\ Top.op \in {"waitWasm", "mkCall", "setVMOutput"}
    BY <1>9 DEF WaitWasm, MkCall, SetVMOutput, Replace, TopIs, Top
  <2> QED  BY <1>4, <2>1, EmptyNone
<1>10. CASE DoProcessBuiltinFunction
  <2> DEFINE esdt == Top.input.callArgs.esdt
             a == <<CheckBool(Top.input.callValue = 0), CheckBool(esdt # <<>>),
                    CheckBool(esdt # <<>> /\ Head(esdt).value > 0)>>
             b == TransferESDTs(Top.from, Top.to, esdt)
             c == CallFrom("determineIsSCCallAfter", Top.from, Top.to, Top.func, Top.input)
             d == <<c>>
             new == (a \o b) \o d
  <2>1. /\ Top.op = "processBuiltinFunction"
        /\ Top.from \in AnyAddress /\ Top.to \in AnyAddress
        /\ Top.func \in Name /\ Top.input \in VmInput
    BY <1>1, <1>10, FieldTypes DEF DoProcessBuiltinFunction, TopIs, Top
  <2>2. esdt \in Seq(ESDTTransfer)
    BY <2>1 DEF VmInput, CallArgs
  <2>3. commands' = new \o Tail(commands) /\ UNCHANGED <<callStack, interimStates>>
    BY <1>10 DEF DoProcessBuiltinFunction, Replace
  <2> HIDE DEF esdt
  <2>4. a \in Seq(Command) /\ NoneOf(a, EndingOps \cup TransferOps)
    <3>1. /\ CheckBool(Top.input.callValue = 0) \in Command
          /\ CheckBool(esdt # <<>>) \in Command
      BY CheckBoolType
    <3>2. CheckBool(esdt # <<>> /\ Head(esdt).value > 0) \in Command
      BY CheckBoolType
    <3>3. a \in Seq(Command)
      BY <3>1, <3>2
    <3>4. \A b1, b2, b3 :
            NoneOf(<<CheckBool(b1), CheckBool(b2), CheckBool(b3)>>, EndingOps \cup TransferOps)
      BY DEF NoneOf, CheckBool, EndingOps, StackOps, TransferOps
    <3> QED  BY <3>3, <3>4
  <2>5. b \in Seq(Command) /\ NoneOf(b, EndingOps \cup TransferOps)
    BY <2>1, <2>2, TransferESDTsNone
  <2>6. c \in Command /\ c.op = "determineIsSCCallAfter"
    BY <2>1, CallTypes DEF CallFrom
  <2> HIDE DEF a, b, c
  <2>7. d \in Seq(Command) /\ NoneOf(d, EndingOps \cup TransferOps)
    BY <2>6, OneNone DEF EndingOps, StackOps, TransferOps
  <2> HIDE DEF d
  <2>8. new \in Seq(Command) /\ NoneOf(new, EndingOps \cup TransferOps)
    BY <2>4, <2>5, <2>7, NoneConcat
  <2> HIDE DEF new
  <2> QED  BY <1>4, <2>1, <2>3, <2>8
<1>11. CASE DetermineIsSCCallAfter
  <2> DEFINE args == Top.input.callArgs
             in   == MkVmInputEsdtExec(Top.from, args)
             inst == NewInstanceAndCall(Top.to, args.func, in)
  <2>1. /\ Top.from \in AnyAddress /\ Top.to \in AnyAddress /\ Top.input \in VmInput
        /\ Top.op = "determineIsSCCallAfter"
    BY <1>1, <1>11, FieldTypes DEF DetermineIsSCCallAfter, TopIs, Top
  <2>2. args.func \in Name /\ args.esdt \in Seq(ESDTTransfer)
    BY <2>1 DEF VmInput, CallArgs
  <2>3. 0 \in Amount /\ "DirectCall" \in CallType
    BY AmountAssumption DEF CallType
  <2>4. in \in VmInput
    BY <2>1, <2>2, <2>3, EmptyTypes, CallInputType DEF MkVmInputEsdtExec
  <2>5. PICK new \in {inst, <<>>} : commands' = new \o Tail(commands)
    BY <1>11 DEF DetermineIsSCCallAfter, Replace
  <2> HIDE DEF args, in
  <2>6. inst \in Seq(Command) /\ NoneOf(inst, EndingOps \cup TransferOps)
    BY <2>1, <2>2, <2>4, NewInstanceAndCallNone
  <2> HIDE DEF inst
  <2>7. UNCHANGED <<callStack, interimStates>>
    BY <1>11 DEF DetermineIsSCCallAfter
  <2> QED  BY <1>4, <2>1, <2>5, <2>6, <2>7, EmptyNone
<1> QED  BY <1>2, <1>3, <1>5, <1>6, <1>7, <1>8, <1>9, <1>10, <1>11 DEF CallStep

LEMMA AsyncShape ==
  ASSUME TypeOK, AsyncStep
  PROVE  Works
<1>1. commands # <<>> /\ Top \in Command /\ callState \in CallState
      /\ UNCHANGED <<callStack, interimStates>>
  BY TopType DEF AsyncStep, RegisterAsyncCall, AddAsyncCall, AsyncExecute,
       ExecuteAsyncLocalCalls, DropAsyncLocalCall, ExecuteAsyncLocalCall,
       ExecuteAsyncLocalCallback, MergeOutputs, TopIs, Top, TypeOK
<1>2. ASSUME NEW new \in Seq(Command), NoneOf(new, EndingOps \cup TransferOps),
             commands' = new \o Tail(commands),
             Top.op \in {"registerAsyncCall", "addAsyncCall", "asyncExecute",
                         "executeAsyncLocalCalls", "dropAsyncLocalCall",
                         "executeAsyncLocalCall", "executeAsyncLocalCallback",
                         "mergeOutputs"}
      PROVE  Works
  BY <1>1, <1>2 DEF Works, ShapeOps, StackOps, CallOps, TransferOps
<1>3. CASE RegisterAsyncCall
  <2> DEFINE c == Top.call
             n1 == ~SameAsBytes(c.success)
             n2 == ~IsQuotedBuiltin(c.success)
             n3 == ~SameAsBytes(c.error)
             n4 == ~IsQuotedBuiltin(c.error)
             n5 == ~SameAsBytes(callState.function)
             n6 == ~IsMultilevelAsync
             last == Async("addAsyncCall", c)
             new == <<CheckBool(n1), CheckBool(n2), CheckBool(n3), CheckBool(n4),
                      CheckBool(n5), CheckBool(n6), last>>
  <2>1. c \in AsyncCall
    BY <1>1, <1>3, FieldTypes DEF RegisterAsyncCall, TopIs, Top
  <2>2. last \in Command /\ last.op = "addAsyncCall"
    BY <2>1 DEF Async, Command
  <2>3. /\ CheckBool(n1) \in Command /\ CheckBool(n2) \in Command /\ CheckBool(n3) \in Command
        /\ CheckBool(n4) \in Command /\ CheckBool(n5) \in Command
    BY CheckBoolType DEF SameAsBytes, IsQuotedBuiltin
  <2>4. CheckBool(n6) \in Command
    BY CheckBoolType
  <2>5. \A b : CheckBool(b).op = "checkBool"
    BY DEF CheckBool
  <2>6. commands' = new \o Tail(commands) /\ Top.op = "registerAsyncCall"
    BY <1>3 DEF RegisterAsyncCall, Replace, TopIs, Top
  <2> HIDE DEF last, n1, n2, n3, n4, n5, n6, CheckBool
  <2>7. new \in Seq(Command)
    BY <2>2, <2>3, <2>4
  <2>8. \A i \in 1..Len(new) : new[i].op \in {"checkBool", "addAsyncCall"}
    BY <2>2, <2>5
  <2> HIDE DEF new
  <2>9. NoneOf(new, EndingOps \cup TransferOps)
    BY <2>8 DEF NoneOf, EndingOps, StackOps, TransferOps
  <2> QED  BY <1>2, <2>6, <2>7, <2>9
<1>4. CASE AddAsyncCall \/ DropAsyncLocalCall \/ MergeOutputs
  <2>1. /\ commands' = <<>> \o Tail(commands)
        /\ Top.op \in {"addAsyncCall", "dropAsyncLocalCall", "mergeOutputs"}
    BY <1>4 DEF AddAsyncCall, DropAsyncLocalCall, MergeOutputs, Replace, TopIs, Top
  <2> QED  BY <1>2, <2>1, EmptyNone
<1>5. CASE AsyncExecute
  <2> DEFINE new == <<Plain("executeAsyncLocalCalls")>>
  <2>1. new \in Seq(Command) /\ NoneOf(new, EndingOps \cup TransferOps)
    BY PlainType DEF PlainOp, Plain, NoneOf, EndingOps, StackOps, TransferOps
  <2>2. commands' = new \o Tail(commands) /\ Top.op = "asyncExecute"
    BY <1>5 DEF AsyncExecute, Replace, TopIs, Top
  <2> HIDE DEF new
  <2> QED  BY <1>2, <2>1, <2>2
<1>6. CASE ExecuteAsyncLocalCalls
  <2> DEFINE four == <<Plain("executeAsyncLocalCall"), Plain("executeAsyncLocalCallback"),
                       Plain("dropAsyncLocalCall"), Plain("executeAsyncLocalCalls")>>
  <2>1. four \in Seq(Command) /\ NoneOf(four, EndingOps \cup TransferOps)
    BY PlainType DEF PlainOp, Plain, NoneOf, EndingOps, StackOps, TransferOps
  <2>2. Top.op = "executeAsyncLocalCalls"
    BY <1>6 DEF ExecuteAsyncLocalCalls, TopIs, Top
  <2>3. PICK new \in {<<>>, four} : commands' = new \o Tail(commands)
    BY <1>6 DEF ExecuteAsyncLocalCalls, Replace
  <2> HIDE DEF four
  <2> QED  BY <1>2, <2>1, <2>2, <2>3, EmptyNone
<1>7. ASSUME NEW op \in CallOps, NEW to \in AnyAddress, NEW f \in Name, NEW in \in VmInput
      PROVE  /\ <<Call(op, to, f, in), Plain("mergeOutputs")>> \in Seq(Command)
             /\ NoneOf(<<Call(op, to, f, in), Plain("mergeOutputs")>>,
                       EndingOps \cup TransferOps)
  <2>1. Call(op, to, f, in) \in Command /\ Plain("mergeOutputs") \in Command
    BY CallTypes, PlainType DEF PlainOp, CallOps
  <2>2. Call(op, to, f, in).op = op /\ Plain("mergeOutputs").op = "mergeOutputs"
    BY DEF Call, Plain
  <2>3. \A i \in 1..2 : <<Call(op, to, f, in), Plain("mergeOutputs")>>[i].op
                          \in CallOps \cup {"mergeOutputs"}
    BY <2>2
  <2> QED  BY <2>1, <2>3 DEF NoneOf, EndingOps, StackOps, TransferOps, CallOps
<1>8. CASE ExecuteAsyncLocalCall
  <2> DEFINE c  == Head(callState.asyncCalls)
             in == CallInput(callState.callee, c.value, "AsynchronousCall", <<>>, c.args)
             new == <<Call("callContract", c.dest, c.func, in), Plain("mergeOutputs")>>
  <2>1. callState.callee \in AnyAddress /\ callState.asyncCalls \in Seq(AsyncCall)
    BY <1>1 DEF CallState
  <2>2. c \in AsyncCall
    BY <1>8, <2>1, HeadTailProperties DEF ExecuteAsyncLocalCall
  <2>3. /\ c.value \in Amount /\ c.args \in CallArgs /\ c.dest \in AnyAddress
        /\ c.func \in Name /\ "AsynchronousCall" \in CallType
    BY <2>2 DEF AsyncCall, AnyAddress, CallType
  <2>4. commands' = new \o Tail(commands) /\ Top.op = "executeAsyncLocalCall"
    BY <1>8 DEF ExecuteAsyncLocalCall, Replace, TopIs, Top
  <2> HIDE DEF c
  <2>5. in \in VmInput
    <3>1. <<>> \in Seq(ESDTTransfer)
      OBVIOUS
    <3> QED  BY <2>1, <2>3, <3>1, CallInputType
  <2> HIDE DEF in
  <2>6. new \in Seq(Command) /\ NoneOf(new, EndingOps \cup TransferOps)
    BY <1>7, <2>3, <2>5 DEF CallOps
  <2> HIDE DEF new
  <2> QED  BY <1>2, <2>4, <2>6
<1>9. CASE ExecuteAsyncLocalCallback
  <2> DEFINE c    == Head(callState.asyncCalls)
             cb   == ChooseCallback(vmOutput.returnCode, c)
             last == ExtractLastTransfer(callState.callee)
             in   == CallInput(c.dest, last.value, "AsynchronousCallBack", last.esdt,
                               NoArgs)
             two  == <<Call("callContractCb", callState.callee, cb, in),
                       Plain("mergeOutputs")>>
  <2>1. callState.callee \in AnyAddress /\ callState.asyncCalls \in Seq(AsyncCall)
    BY <1>1 DEF CallState
  <2>2. c \in AsyncCall
    BY <1>9, <2>1, HeadTailProperties DEF ExecuteAsyncLocalCallback
  <2>3. c.dest \in AnyAddress /\ cb \in Name /\ "AsynchronousCallBack" \in CallType
    BY <2>2 DEF AsyncCall, AnyAddress, CallType, ChooseCallback
  <2>4. last \in OutputTransfer
    BY <2>1, LastTransferType
  <2>5. last.value \in Amount /\ last.esdt \in Seq(ESDTTransfer)
    BY <2>4 DEF OutputTransfer
  <2>6. Top.op = "executeAsyncLocalCallback"
    BY <1>9 DEF ExecuteAsyncLocalCallback, TopIs, Top
  <2>7. PICK new \in {<<>>, two} : commands' = new \o Tail(commands)
    BY <1>9 DEF ExecuteAsyncLocalCallback, Replace
  <2> HIDE DEF c, last, cb
  <2>8. in \in VmInput
    BY <2>3, <2>5, EmptyTypes, CallInputType
  <2> HIDE DEF in
  <2>9. two \in Seq(Command) /\ NoneOf(two, EndingOps \cup TransferOps)
    BY <1>7, <2>1, <2>3, <2>8 DEF CallOps
  <2> HIDE DEF two
  <2> QED  BY <1>2, <2>6, <2>7, <2>9, EmptyNone
<1> QED  BY <1>3, <1>4, <1>5, <1>6, <1>8, <1>9 DEF AsyncStep

(* Code makes commands only in front of the #endWasm of its call.            *)
LEMMA CodeAtEndWasm ==
  ASSUME TypeOK, CallsInProgress, InstrIs("code") \/ InstrIs("finishExecuteOnDestContext")
  PROVE  commands # <<>> /\ Top.op = "endWasm"
<1>1. callState.instrs \in SavedInstrs \cup RunningInstrs \cup OwnWorkInstrs
                             \cup {<<"initModule">>}
  BY DEF CallsInProgress, RunningFrame
<1>2. callState.instrs \in {<<"code">>, <<"finishExecuteOnDestContext", "code">>}
  BY <1>1 DEF InstrIs, SavedInstrs, RunningInstrs, OwnWorkInstrs, WaitsForCall
<1> QED  BY <1>2 DEF CallsInProgress, RunningFrame, RunningInstrs, TopIs, Top

LEMMA CodeShape ==
  ASSUME TypeOK, CallsInProgress, CodeStep
  PROVE  Leaves \/ Computes
<1>1. callState \in CallState /\ callState.callee \in AnyAddress
  BY DEF TypeOK, CallState
<1>2. ASSUME InstrIs("code") \/ InstrIs("finishExecuteOnDestContext"),
             NEW new \in Seq(Command), NoneOf(new, EndingOps \cup TransferOps),
             commands' = new \o commands, UNCHANGED <<accounts, callStack, interimStates>>
      PROVE  Leaves
  BY <1>2, CodeAtEndWasm DEF Leaves
<1>3. CASE InitModule \/ WaitCommands \/ FinishExecuteOnDestOk \/ Return \/ Finish
             \/ CleanReturnData
  <2>1. commands # <<>> /\ Top.op \in {"endWasm", "waitWasm"}
    <3>1. CASE InitModule
      <4>1. callState.instrs = <<"initModule">>
        BY <3>1 DEF InitModule, InstrIs, CallsInProgress, RunningFrame, SavedInstrs,
                    RunningInstrs, OwnWorkInstrs, WaitsForCall
      <4> QED  BY <4>1 DEF CallsInProgress, RunningFrame, TopIs, Top
    <3>2. CASE WaitCommands
      BY <3>2 DEF WaitCommands, TopIs, Top
    <3>3. CASE FinishExecuteOnDestOk \/ Return \/ Finish \/ CleanReturnData
      BY <3>3, CodeAtEndWasm
         DEF FinishExecuteOnDestOk, Return, Finish, CleanReturnData, HostCall
    <3> QED  BY <1>3, <3>1, <3>2, <3>3
  <2>2. UNCHANGED <<accounts, commands, callStack, interimStates>>
    BY <1>3 DEF InitModule, WaitCommands, FinishExecuteOnDestOk, Return, Finish,
       CleanReturnData
  <2> QED  BY <2>1, <2>2 DEF Computes
<1>4. CASE FinishExecuteOnDestException \/ Throw
  <2>1. /\ InstrIs("code") \/ InstrIs("finishExecuteOnDestContext")
        /\ UNCHANGED <<accounts, callStack, interimStates>>
        /\ \E ec \in ExceptionCode : commands' = <<Exception(ec)>> \o commands
    BY <1>4 DEF FinishExecuteOnDestException, Throw, ThrowException, ResolveError,
       ExceptionCode
  <2> QED  BY <1>2, <2>1, ExceptionNone
<1>5. CASE TransferValue
  <2>1. PICK r \in Calls :
          HostCommands(IF r.esdt = <<>>
                       THEN TransferFunds(callState.callee, r.dest, r.value)
                       ELSE TransferESDTs(callState.callee, r.dest, r.esdt),
                       callState.instrs)
    BY <1>5 DEF TransferValue
  <2> DEFINE new == IF r.esdt = <<>>
                    THEN TransferFunds(callState.callee, r.dest, r.value)
                    ELSE TransferESDTs(callState.callee, r.dest, r.esdt)
  <2>2. /\ r.dest \in AnyAddress /\ r.value \in Amount /\ r.esdt \in Seq(ESDTTransfer)
    BY CallsAssumption DEF CallRequest, AnyAddress
  <2>3. new \in Seq(Command) /\ NoneOf(new, EndingOps \cup TransferOps)
    BY <1>1, <2>2, TransferFundsNone, TransferESDTsNone
  <2>4. /\ InstrIs("code") /\ commands' = new \o commands
        /\ UNCHANGED <<accounts, callStack, interimStates>>
    BY <1>5, <2>1 DEF TransferValue, HostCall, HostCommands
  <2> HIDE DEF new
  <2> QED  BY <1>2, <2>3, <2>4
<1>6. CASE ExecuteOnDestContext
  <2>1. PICK r \in Calls :
          LET in == CallInput(callState.callee, r.value, "DirectCall", r.esdt, r.args)
          IN  HostCommands(<<Call("callContract", r.dest, r.func, in)>>,
                           <<"finishExecuteOnDestContext">> \o callState.instrs)
    BY <1>6 DEF ExecuteOnDestContext
  <2> DEFINE in  == CallInput(callState.callee, r.value, "DirectCall", r.esdt, r.args)
             c   == Call("callContract", r.dest, r.func, in)
             new == <<c>>
  <2>2. /\ r.dest \in AnyAddress /\ r.func \in Name /\ r.value \in Amount
        /\ r.esdt \in Seq(ESDTTransfer) /\ r.args \in CallArgs /\ "DirectCall" \in CallType
    BY CallsAssumption DEF CallRequest, AnyAddress, CallType
  <2>3. in \in VmInput
    BY <1>1, <2>2, CallInputType
  <2>4. /\ InstrIs("code") /\ commands' = new \o commands
        /\ UNCHANGED <<accounts, callStack, interimStates>>
    BY <1>6, <2>1 DEF ExecuteOnDestContext, HostCall, HostCommands
  <2> HIDE DEF in
  <2>5. c \in Command /\ c.op = "callContract"
    BY <2>2, <2>3, CallTypes DEF Call
  <2> HIDE DEF c
  <2>6. new \in Seq(Command) /\ NoneOf(new, EndingOps \cup TransferOps)
    BY <2>5, OneNone DEF EndingOps, StackOps, TransferOps
  <2> HIDE DEF new
  <2> QED  BY <1>2, <2>4, <2>6
<1>7. ASSUME NEW cb \in CallbackPair, NEW is, InstrIs("code"), CreateAsyncCallWith(cb, is)
      PROVE  Leaves
  <2>1. PICK r \in Calls :
          HostCommands(<<Async("registerAsyncCall",
                               [dest |-> r.dest, func |-> r.func, args |-> r.args,
                                value |-> r.value, success |-> cb.success,
                                error |-> cb.error])>>, is)
    BY <1>7 DEF CreateAsyncCallWith
  <2> DEFINE call == [dest |-> r.dest, func |-> r.func, args |-> r.args, value |-> r.value,
                      success |-> cb.success, error |-> cb.error]
             c    == Async("registerAsyncCall", call)
             new  == <<c>>
  <2>2. r \in CallRequest
    BY CallsAssumption
  <2>3. call \in AsyncCall
    BY <2>2 DEF CallRequest, CallbackPair, AsyncCall
  <2>4. commands' = new \o commands /\ UNCHANGED <<accounts, callStack, interimStates>>
    BY <2>1 DEF HostCommands
  <2> HIDE DEF call
  <2>5. c \in Command /\ c.op = "registerAsyncCall"
    BY <2>3 DEF Async, Command
  <2> HIDE DEF c
  <2>6. new \in Seq(Command) /\ NoneOf(new, EndingOps \cup TransferOps)
    BY <2>5, OneNone DEF EndingOps, StackOps, TransferOps
  <2> HIDE DEF new
  <2> QED  BY <1>2, <1>7, <2>4, <2>6
<1>8. CASE CreateAsyncCall
  <2>1. PICK cb \in Callbacks : CreateAsyncCallWith(cb, callState.instrs)
    BY <1>8 DEF CreateAsyncCall
  <2>2. cb \in CallbackPair /\ InstrIs("code")
    BY <1>8, CallsAssumption DEF CreateAsyncCall, HostCall
  <2> QED  BY <1>7, <2>1, <2>2
<1>9. CASE ManagedAsyncCall
  <2> DEFINE cb == [success |-> "callBack", error |-> "callBack"]
  <2>1. cb \in CallbackPair
    BY CallsAssumption DEF CallbackPair, Name
  <2>2. InstrIs("code") /\ CreateAsyncCallWith(cb, <<>>)
    BY <1>9 DEF ManagedAsyncCall, HostCall
  <2> HIDE DEF cb
  <2> QED  BY <1>7, <2>1, <2>2
<1> QED  BY <1>3, <1>4, <1>5, <1>6, <1>8, <1>9 DEF CodeStep

(* A transaction starts when nothing is left of the one before.              *)
LEMMA CallTxShape ==
  ASSUME TypeOK, CallTx
  PROVE  /\ commands = <<>> /\ UNCHANGED <<callState, callStack, interimStates, vmOutput>>
         /\ \E c \in Command : c.op = "callContract" /\ commands' = <<c>>
<1>1. commands' \in Seq(Command)
  BY CallTxType DEF TypeOK
<1>2. PICK c : c.op = "callContract" /\ commands' = <<c>>
  BY DEF CallTx, Call
<1>3. c \in Command
  BY <1>1, <1>2
<1> QED  BY <1>2, <1>3 DEF CallTx, Idle

(* The commands that a step of the node can do to the stacks and commands.   *)
StepShape ==
  \/ StackStep \/ DoCheckAccountExists \/ ExceptionSkip \/ ExceptionRevert \/ DoTransferESDTs
  \/ DoCheckESDTBalance \/ DoAddToESDTBalance \/ EndWasm
  \/ Works \/ Enters \/ Leaves \/ Computes

LEMMA StepsHaveShape ==
  ASSUME TypeOK, CallsInProgress, Step
  PROVE  StepShape
BY CheckShape, TransferShape, CallShape, AsyncShape, CodeShape DEF Step, StepShape

(* -------------------- The stacks match the commands ---------------------- *)

LEMMA CountRewrite ==
  ASSUME NEW s \in Seq(Command), s # <<>>, NEW new \in Seq(Command), NEW ops
  PROVE  /\ Count(new \o Tail(s), ops)
              = Count(new, ops) + Count(s, ops) - (IF Head(s).op \in ops THEN 1 ELSE 0)
         /\ Count(new, ops) \in Nat /\ Count(s, ops) \in Nat
<1>1. Tail(s) \in Seq(Command)
  BY HeadTailProperties
<1>2. Count(new \o Tail(s), ops) = Count(new, ops) + Count(Tail(s), ops)
  BY <1>1, CountConcat
<1>3. Count(s, ops) = (IF Head(s).op \in ops THEN 1 ELSE 0) + Count(Tail(s), ops)
  BY CountTail
<1>4. Count(new, ops) \in Nat /\ Count(s, ops) \in Nat /\ Count(Tail(s), ops) \in Nat
  BY <1>1, PlacesFinite
<1> QED  BY <1>2, <1>3, <1>4

LEMMA NoneCount ==
  ASSUME NEW s \in Seq(Command), NEW ops, NEW few, few \subseteq ops, NoneOf(s, ops)
  PROVE  Count(s, few) = 0
BY CountNone DEF NoneOf

(* The four sets of commands that StacksMatchCommands counts.                *)
PushCall == {"pushCallState"}
PopCall == {"popCallState", "endWasm"}
PushWorld == {"pushWorldState"}
PopWorld == {"popWorldState", "dropWorldState", "endWasm"}

Matched(s, calls, worlds) ==
  /\ Len(calls) + Count(s, PushCall) = Count(s, PopCall)
  /\ Len(worlds) + Count(s, PushWorld) = Count(s, PopWorld)

LEMMA StacksMatched == StacksMatchCommands <=> Matched(commands, callStack, interimStates)
BY DEF StacksMatchCommands, Matched, Pending, CommandsOf, Count, PlacesOf, PushCall,
   PopCall, PushWorld, PopWorld

LEMMA StackOpsCounted ==
  /\ PushCall \subseteq StackOps /\ PopCall \subseteq StackOps
  /\ PushWorld \subseteq StackOps /\ PopWorld \subseteq StackOps
  /\ StackOps \subseteq EndingOps /\ StackOps \cap BodyOps = {} /\ StackOps \cap CallOps = {}
BY DEF PushCall, PopCall, PushWorld, PopWorld, StackOps, EndingOps, BodyOps, CallOps

(* A rewrite that neither consumes nor makes a stack command.                *)
LEMMA MatchedRewrite ==
  ASSUME NEW s \in Seq(Command), s # <<>>, Head(s).op \notin StackOps,
         NEW new \in Seq(Command), NoneOf(new, StackOps), NEW calls, NEW worlds,
         Matched(s, calls, worlds)
  PROVE  Matched(new \o Tail(s), calls, worlds)
<1>1. \A ops : ops \subseteq StackOps =>
        Count(new \o Tail(s), ops) = Count(s, ops) /\ Count(s, ops) \in Nat
  <2> SUFFICES ASSUME NEW ops, ops \subseteq StackOps
               PROVE  Count(new \o Tail(s), ops) = Count(s, ops) /\ Count(s, ops) \in Nat
    OBVIOUS
  <2>1. Count(new, ops) = 0
    BY NoneCount
  <2> QED  BY <2>1, CountRewrite
<1> QED  BY <1>1, StackOpsCounted DEF Matched

LEMMA NoneFewer ==
  ASSUME NEW s, NEW ops, NEW few, few \subseteq ops, NoneOf(s, ops)
  PROVE  NoneOf(s, few)
BY DEF NoneOf

LEMMA EntryCounts ==
  /\ Entry \in Seq(Command)
  /\ Count(Entry, PushCall) = 1 /\ Count(Entry, PushWorld) = 1
  /\ Count(Entry, PopCall) = 0 /\ Count(Entry, PopWorld) = 0
<1>1. Entry \in Seq(Command)
  BY PlainType DEF PlainOp, Entry
<1>2. /\ DOMAIN Entry = 1..3 /\ Entry[1].op = "pushWorldState"
      /\ Entry[2].op = "pushCallState" /\ Entry[3].op = "resetCallstate"
  BY DEF Entry, Plain
<1>3. /\ PlacesOf(Entry, PushCall) = {2} /\ PlacesOf(Entry, PushWorld) = {1}
      /\ PlacesOf(Entry, PopCall) = {} /\ PlacesOf(Entry, PopWorld) = {}
  BY <1>2 DEF PlacesOf, PushCall, PushWorld, PopCall, PopWorld
<1> QED  BY <1>1, <1>3, FS_Singleton, FS_EmptySet DEF Count

LEMMA EndingCounts ==
  ASSUME NEW w, w = <<Plain("asyncExecute"), Plain("setVMOutput"), Plain("popCallState"),
                      Plain("dropWorldState")>>
  PROVE  /\ w \in Seq(Command)
         /\ Count(w, PushCall) = 0 /\ Count(w, PushWorld) = 0
         /\ Count(w, PopCall) = 1 /\ Count(w, PopWorld) = 1
<1>1. w \in Seq(Command)
  BY PlainType DEF PlainOp
<1>2. /\ DOMAIN w = 1..4 /\ w[1].op = "asyncExecute" /\ w[2].op = "setVMOutput"
      /\ w[3].op = "popCallState" /\ w[4].op = "dropWorldState"
  BY DEF Plain
<1>3. /\ PlacesOf(w, PushCall) = {} /\ PlacesOf(w, PushWorld) = {}
      /\ PlacesOf(w, PopCall) = {3} /\ PlacesOf(w, PopWorld) = {4}
  BY <1>2 DEF PlacesOf, PushCall, PushWorld, PopCall, PopWorld
<1> QED  BY <1>1, <1>3, FS_Singleton, FS_EmptySet DEF Count

LEMMA RevertCounts ==
  ASSUME NEW w, w = <<Plain("popCallState"), Plain("popWorldState")>>
  PROVE  /\ w \in Seq(Command)
         /\ Count(w, PushCall) = 0 /\ Count(w, PushWorld) = 0
         /\ Count(w, PopCall) = 1 /\ Count(w, PopWorld) = 1
<1>1. w \in Seq(Command)
  BY PlainType DEF PlainOp
<1>2. DOMAIN w = 1..2 /\ w[1].op = "popCallState" /\ w[2].op = "popWorldState"
  BY DEF Plain
<1>3. /\ PlacesOf(w, PushCall) = {} /\ PlacesOf(w, PushWorld) = {}
      /\ PlacesOf(w, PopCall) = {1} /\ PlacesOf(w, PopWorld) = {2}
  BY <1>2 DEF PlacesOf, PushCall, PushWorld, PopCall, PopWorld
<1> QED  BY <1>1, <1>3, FS_Singleton, FS_EmptySet DEF Count

LEMMA EmptyCounts ==
  /\ Count(<<>>, PushCall) = 0 /\ Count(<<>>, PopCall) = 0
  /\ Count(<<>>, PushWorld) = 0 /\ Count(<<>>, PopWorld) = 0
<1>1. \A ops : PlacesOf(<<>>, ops) = {}
  BY DEF PlacesOf
<1> QED  BY <1>1, FS_EmptySet DEF Count

LEMMA StackStepMatched ==
  ASSUME TypeOK, StacksMatchCommands, StackStep
  PROVE  StacksMatchCommands'
<1>1. /\ commands \in Seq(Command) /\ commands # <<>> /\ callStack \in Seq(CallState)
      /\ interimStates \in Seq(World) /\ callState \in CallState /\ accounts \in World
  BY DEF TypeOK, StackStep, PushWorldState, PopWorldState, DropWorldState, PushCallState,
         PopCallState, ResetCallstate, TopIs
<1>2. PICK new : new = <<>> /\ commands' = new \o Tail(commands)
  BY DEF StackStep, PushWorldState, PopWorldState, DropWorldState, PushCallState,
         PopCallState, ResetCallstate, Replace
<1>3. /\ Count(commands', PushCall) = Count(commands, PushCall)
                 - (IF Head(commands).op = "pushCallState" THEN 1 ELSE 0)
      /\ Count(commands', PopCall) = Count(commands, PopCall)
                 - (IF Head(commands).op \in {"popCallState", "endWasm"} THEN 1 ELSE 0)
      /\ Count(commands', PushWorld) = Count(commands, PushWorld)
                 - (IF Head(commands).op = "pushWorldState" THEN 1 ELSE 0)
      /\ Count(commands', PopWorld) = Count(commands, PopWorld)
                 - (IF Head(commands).op \in {"popWorldState", "dropWorldState", "endWasm"}
                    THEN 1 ELSE 0)
      /\ Count(commands, PushCall) \in Nat /\ Count(commands, PopCall) \in Nat
      /\ Count(commands, PushWorld) \in Nat /\ Count(commands, PopWorld) \in Nat
  <2>1. /\ new \in Seq(Command) /\ Count(new, PushCall) = 0 /\ Count(new, PopCall) = 0
        /\ Count(new, PushWorld) = 0 /\ Count(new, PopWorld) = 0
    BY <1>2, EmptyCounts
  <2>2. \A ops : /\ Count(commands', ops) = Count(new, ops) + Count(commands, ops)
                        - (IF Head(commands).op \in ops THEN 1 ELSE 0)
                 /\ Count(commands, ops) \in Nat
    <3>1. commands' = new \o Tail(commands)
      BY <1>2
    <3> QED  BY <1>1, <2>1, <3>1, CountRewrite
  <2>3. \A ops : Count(new, ops) = 0 =>
          /\ Count(commands', ops) = Count(commands, ops)
                        - (IF Head(commands).op \in ops THEN 1 ELSE 0)
          /\ Count(commands, ops) \in Nat
    BY <2>2
  <2> QED  BY <2>1, <2>3 DEF PushCall, PopCall, PushWorld, PopWorld
<1>4. Matched(commands, callStack, interimStates)
  BY StacksMatched
<1> SUFFICES Matched(commands', callStack', interimStates')
  BY DEF StacksMatchCommands, Matched, Pending, CommandsOf, Count, PlacesOf, PushCall,
         PopCall, PushWorld, PopWorld
<1>5. CASE PushWorldState
  <2>1. Len(interimStates') = Len(interimStates) + 1 /\ UNCHANGED callStack
    <3>1. interimStates' = <<accounts>> \o interimStates
      BY <1>5 DEF PushWorldState
    <3>2. <<accounts>> \in Seq(World) /\ Len(<<accounts>>) = 1
      BY <1>1
    <3>3. Len(interimStates') = Len(<<accounts>>) + Len(interimStates)
      BY <1>1, <3>1, <3>2, ConcatProperties
    <3>4. Len(interimStates) \in Nat
      BY <1>1, LenProperties
    <3> QED  BY <1>5, <3>2, <3>3, <3>4 DEF PushWorldState
  <2>2. Head(commands).op = "pushWorldState"
    BY <1>5 DEF PushWorldState, TopIs
  <2>3. Len(interimStates) \in Nat /\ Len(callStack) \in Nat
    BY <1>1, LenProperties
  <2> QED  BY <1>3, <1>4, <2>1, <2>2, <2>3
           DEF Matched
<1>6. CASE PopWorldState \/ DropWorldState
  <2>1. /\ Len(interimStates') = Len(interimStates) - 1 /\ UNCHANGED callStack
        /\ Len(interimStates) \in Nat
    BY <1>1, <1>6, HeadTailProperties, LenProperties DEF PopWorldState, DropWorldState
  <2>2. Head(commands).op \in {"popWorldState", "dropWorldState"}
    BY <1>6 DEF PopWorldState, DropWorldState, TopIs
  <2>3. Len(callStack) \in Nat
    BY <1>1, LenProperties
  <2>4. /\ Count(commands', PushCall) = Count(commands, PushCall)
        /\ Count(commands', PopCall) = Count(commands, PopCall)
        /\ Count(commands', PushWorld) = Count(commands, PushWorld)
        /\ Count(commands', PopWorld) = Count(commands, PopWorld) - 1
    BY <1>3, <2>2
  <2> QED  BY <1>3, <1>4, <2>1, <2>3, <2>4 DEF Matched
<1>7. CASE PushCallState
  <2>1. Len(callStack') = Len(callStack) + 1 /\ UNCHANGED interimStates
    <3>1. callStack' = <<callState>> \o callStack
      BY <1>7 DEF PushCallState
    <3>2. <<callState>> \in Seq(CallState) /\ Len(<<callState>>) = 1
      BY <1>1
    <3>3. Len(callStack') = Len(<<callState>>) + Len(callStack)
      BY <1>1, <3>1, <3>2, ConcatProperties
    <3>4. Len(callStack) \in Nat
      BY <1>1, LenProperties
    <3> QED  BY <1>7, <3>2, <3>3, <3>4 DEF PushCallState
  <2>2. Head(commands).op = "pushCallState"
    BY <1>7 DEF PushCallState, TopIs
  <2>3. Len(interimStates) \in Nat /\ Len(callStack) \in Nat
    BY <1>1, LenProperties
  <2> QED  BY <1>3, <1>4, <2>1, <2>2, <2>3
           DEF Matched
<1>8. CASE PopCallState
  <2>1. /\ Len(callStack') = Len(callStack) - 1 /\ UNCHANGED interimStates
        /\ Len(callStack) \in Nat
    BY <1>1, <1>8, HeadTailProperties, LenProperties DEF PopCallState
  <2>2. Head(commands).op = "popCallState"
    BY <1>8 DEF PopCallState, TopIs
  <2>3. Len(interimStates) \in Nat
    BY <1>1, LenProperties
  <2> QED  BY <1>3, <1>4, <2>1, <2>2, <2>3
           DEF Matched
<1>9. CASE ResetCallstate
  <2>1. UNCHANGED <<callStack, interimStates>>
    BY <1>9 DEF ResetCallstate
  <2>2. Head(commands).op = "resetCallstate"
    BY <1>9 DEF ResetCallstate, TopIs
  <2> QED  BY <1>3, <1>4, <2>1, <2>2 DEF Matched
<1> QED  BY <1>5, <1>6, <1>7, <1>8, <1>9 DEF StackStep

(* What an exception skips is a command of the body of its call.             *)
LEMMA SkipsBody ==
  ASSUME TypeOK, CallsInProgress, ExceptionSkip
  PROVE  /\ commands[2].op \in BodyOps
         /\ commands # <<>> /\ Tail(commands) \in Seq(Command) /\ Tail(commands) # <<>>
         /\ Head(Tail(commands)) = commands[2]
<1>1. commands \in Seq(Command) /\ Len(commands) > 1 /\ Head(commands).op = "exception"
      /\ commands # <<>> /\ Head(commands) = commands[1] /\ Len(commands) \in Nat
  BY LenProperties DEF ExceptionSkip, TypeOK, TopIs
<1>2. /\ Tail(commands) \in Seq(Command) /\ Tail(commands) # <<>>
      /\ Head(Tail(commands)) = commands[2]
  <2>1. /\ Tail(commands) \in Seq(Command) /\ Len(Tail(commands)) = Len(commands) - 1
        /\ \A i \in 1..Len(Tail(commands)) : Tail(commands)[i] = commands[i + 1]
    BY <1>1, HeadTailProperties
  <2>2. Tail(commands) # <<>>
    BY <1>1, <2>1, EmptySeq
  <2> QED  BY <1>1, <2>1, <2>2
<1>3. PICK m, n \in 0..Len(commands) : LaidOut(commands, m, n)
  BY DEF CallsInProgress, CommandsLaidOut
<1>4. "exception" \in BodyOps /\ "exception" \notin LastOps
  BY DEF BodyOps, LastOps
<1>5. m < 1 /\ 1 <= n
  BY <1>1, <1>3, <1>4 DEF LaidOut
<1>6. n # 1
  BY <1>1, <1>3, <1>5 DEF LaidOut, ExceptionSkip
<1> QED  BY <1>1, <1>2, <1>3, <1>5, <1>6 DEF LaidOut

LEMMA StepMatched ==
  ASSUME TypeOK, CallsInProgress, StacksMatchCommands, StepShape
  PROVE  StacksMatchCommands'
<1>1. commands \in Seq(Command) /\ callStack \in Seq(CallState) /\ interimStates \in Seq(World)
  BY DEF TypeOK
<1>2. Matched(commands, callStack, interimStates)
  BY StacksMatched
<1>3. Len(callStack) \in Nat /\ Len(interimStates) \in Nat
  BY <1>1, LenProperties
<1>4. CASE StackStep
  BY <1>4, StackStepMatched
<1> SUFFICES ASSUME ~StackStep PROVE Matched(commands', callStack', interimStates')
  BY <1>4 DEF StacksMatchCommands, Matched, Pending, CommandsOf, Count, PlacesOf, PushCall,
              PopCall, PushWorld, PopWorld
<1>5. ASSUME NEW new \in Seq(Command), NoneOf(new, StackOps), commands # <<>>,
             Head(commands).op \notin StackOps, commands' = new \o Tail(commands),
             UNCHANGED <<callStack, interimStates>>
      PROVE  Matched(commands', callStack', interimStates')
  BY <1>1, <1>2, <1>5, MatchedRewrite
<1>6. CASE Works
  <2>1. PICK new \in Seq(Command) :
          NoneOf(new, EndingOps \cup TransferOps) /\ commands' = new \o Tail(commands)
    BY <1>6 DEF Works
  <2>2. NoneOf(new, StackOps)
    BY <2>1, StackOpsCounted DEF NoneOf
  <2> QED  BY <1>5, <1>6, <2>1, <2>2 DEF Works, ShapeOps, Top
<1>7. CASE DoCheckAccountExists \/ DoCheckESDTBalance \/ DoAddToESDTBalance
  <2>1. /\ commands # <<>> /\ Head(commands).op \notin StackOps
        /\ UNCHANGED <<callStack, interimStates>>
    BY <1>7 DEF DoCheckAccountExists, DoCheckESDTBalance, DoAddToESDTBalance, TopIs, StackOps
  <2>2. PICK new \in {<<>>, <<Exception("OutOfFunds")>>, <<Exception("ExecutionFailed")>>} :
          commands' = new \o Tail(commands)
    BY <1>7 DEF DoCheckAccountExists, DoCheckESDTBalance, DoAddToESDTBalance, Replace
  <2>3. new \in Seq(Command) /\ NoneOf(new, StackOps)
    BY <2>2, EmptyNone, ExceptionNone, StackOpsCounted DEF ExceptionCode, NoneOf
  <2> QED  BY <1>5, <2>1, <2>2, <2>3
<1>8. CASE DoTransferESDTs
  <2> DEFINE a == TransferESDT(Top.from, Top.to, Head(Top.esdt))
             b == <<TransferESDTsAux(Top.from, Top.to, Tail(Top.esdt))>>
  <2>1. /\ commands # <<>> /\ Top.op = "transferESDTs" /\ UNCHANGED <<callStack, interimStates>>
        /\ Top.from \in AnyAddress /\ Top.to \in AnyAddress /\ Top.esdt \in Seq(ESDTTransfer)
    BY <1>8, TopType, FieldTypes DEF DoTransferESDTs, TopIs, Top
  <2>2. PICK new : new = (IF Top.esdt = <<>> THEN <<>> ELSE a \o b)
                   /\ commands' = new \o Tail(commands)
    BY <1>8 DEF DoTransferESDTs, Replace
  <2>3. new \in Seq(Command) /\ NoneOf(new, StackOps)
    <3>1. CASE Top.esdt = <<>>
      BY <2>2, <3>1, EmptyNone
    <3>2. CASE Top.esdt # <<>>
      <4>1. Head(Top.esdt) \in ESDTTransfer /\ Tail(Top.esdt) \in Seq(ESDTTransfer)
        BY <2>1, <3>2, HeadTailProperties
      <4>2. a \in Seq(Command)
        BY <2>1, <4>1, TransferESDTType
      <4>3. NoneOf(a, StackOps)
        BY DEF NoneOf, TransferESDT, CheckAccountExists, CheckESDTBalance, AddToESDTBalance,
               StackOps
      <4>4. b \in Seq(Command) /\ NoneOf(b, StackOps)
        BY <2>1, <4>1 DEF TransferESDTsAux, Command, NoneOf, StackOps
      <4> HIDE DEF a, b
      <4> QED  BY <2>2, <3>2, <4>2, <4>3, <4>4, NoneConcat
    <3> QED  BY <3>1, <3>2
  <2> QED  BY <1>5, <2>1, <2>2, <2>3 DEF StackOps, Top
<1>9. CASE Leaves
  <2>1. PICK new \in Seq(Command) :
          NoneOf(new, EndingOps \cup TransferOps) /\ commands' = new \o commands
    BY <1>9 DEF Leaves
  <2>2. \A ops : ops \subseteq StackOps => Count(commands', ops) = Count(commands, ops)
    <3> SUFFICES ASSUME NEW ops, ops \subseteq StackOps
                 PROVE  Count(commands', ops) = Count(commands, ops)
      OBVIOUS
    <3>1. Count(new, ops) = 0
      BY <2>1, NoneCount, StackOpsCounted DEF NoneOf
    <3> QED  BY <1>1, <2>1, <3>1, CountConcat, PlacesFinite
  <2> QED  BY <1>2, <1>9, <2>2, StackOpsCounted DEF Leaves, Matched
<1>10. CASE Computes
  BY <1>2, <1>10 DEF Computes
<1>11. ASSUME NEW new \in Seq(Command), commands # <<>>, commands' = new \o Tail(commands),
              Head(commands).op \in CallOps \cup {"endWasm"},
              Count(new, PushCall) = Count(new, PushWorld),
              Count(new, PopCall) = 1, Count(new, PopWorld) = 1,
              Count(new, PushCall) = IF Head(commands).op = "endWasm" THEN 0 ELSE 1,
              UNCHANGED <<callStack, interimStates>>
       PROVE  Matched(commands', callStack', interimStates')
  <2>1. Head(commands).op \notin {"pushCallState", "pushWorldState", "popCallState",
                                  "popWorldState", "dropWorldState"}
    BY <1>11 DEF CallOps
  <2>2. PICK n \in {0, 1} :
          /\ n = IF Head(commands).op = "endWasm" THEN 1 ELSE 0
          /\ Count(new, PushCall) = 1 - n /\ Count(new, PushWorld) = 1 - n
    BY <1>11
  <2>3. /\ Count(commands', PushCall) = Count(new, PushCall) + Count(commands, PushCall)
        /\ Count(commands', PushWorld) = Count(new, PushWorld) + Count(commands, PushWorld)
        /\ Count(commands', PopCall) = 1 + Count(commands, PopCall) - n
        /\ Count(commands', PopWorld) = 1 + Count(commands, PopWorld) - n
        /\ Count(commands, PushCall) \in Nat /\ Count(commands, PopCall) \in Nat
        /\ Count(commands, PushWorld) \in Nat /\ Count(commands, PopWorld) \in Nat
    <3>1. \A ops : /\ Count(commands', ops) = Count(new, ops) + Count(commands, ops)
                          - (IF Head(commands).op \in ops THEN 1 ELSE 0)
                   /\ Count(commands, ops) \in Nat /\ Count(new, ops) \in Nat
      BY <1>1, <1>11, CountRewrite
    <3>2. /\ Head(commands).op \notin PushCall /\ Head(commands).op \notin PushWorld
          /\ Head(commands).op \in PopCall <=> n = 1
          /\ Head(commands).op \in PopWorld <=> n = 1
      BY <1>11, <2>1, <2>2 DEF PushCall, PopCall, PushWorld, PopWorld, CallOps
    <3>3. \A ops : Head(commands).op \notin ops =>
            /\ Count(commands', ops) = Count(new, ops) + Count(commands, ops)
            /\ Count(commands, ops) \in Nat
      BY <3>1
    <3>4. \A ops : (Head(commands).op \in ops <=> n = 1) =>
            /\ Count(commands', ops) = Count(new, ops) + Count(commands, ops) - n
            /\ Count(commands, ops) \in Nat
      BY <3>1
    <3>5. /\ Count(commands', PushCall) = Count(new, PushCall) + Count(commands, PushCall)
          /\ Count(commands', PushWorld) = Count(new, PushWorld) + Count(commands, PushWorld)
          /\ Count(commands, PushCall) \in Nat /\ Count(commands, PushWorld) \in Nat
      BY <3>2, <3>3
    <3>6. /\ Count(commands', PopCall) = Count(new, PopCall) + Count(commands, PopCall) - n
          /\ Count(commands', PopWorld) = Count(new, PopWorld) + Count(commands, PopWorld) - n
          /\ Count(commands, PopCall) \in Nat /\ Count(commands, PopWorld) \in Nat
      BY <3>2, <3>4
    <3> QED  BY <1>11, <3>5, <3>6
  <2> QED  BY <1>2, <1>3, <1>11, <2>2, <2>3 DEF Matched
<1>12. CASE EndWasm
  <2> DEFINE w == <<Plain("asyncExecute"), Plain("setVMOutput"), Plain("popCallState"),
                    Plain("dropWorldState")>>
  <2>1. /\ commands # <<>> /\ Head(commands).op = "endWasm" /\ commands' = w \o Tail(commands)
        /\ UNCHANGED <<callStack, interimStates>>
    BY <1>12 DEF EndWasm, TopIs, Replace
  <2>2. /\ w \in Seq(Command)
        /\ Count(w, PushCall) = 0 /\ Count(w, PushWorld) = 0
        /\ Count(w, PopCall) = 1 /\ Count(w, PopWorld) = 1
    BY EndingCounts
  <2> HIDE DEF w
  <2> QED  BY <1>11, <2>1, <2>2
<1>13. CASE Enters
  <2> DEFINE z == <<Plain("endWasm")>>
  <2>1. PICK body \in Seq(Command) :
          /\ NoneOf(body, EndingOps \cup TransferOps)
          /\ commands' = ((Entry \o body) \o z) \o Tail(commands)
    BY <1>13 DEF Enters
  <2>2. \A ops : ops \subseteq StackOps => Count(body, ops) = 0
    BY <2>1, NoneCount, StackOpsCounted DEF NoneOf
  <2>3. /\ z \in Seq(Command) /\ Count(z, PushCall) = 0 /\ Count(z, PushWorld) = 0
        /\ Count(z, PopCall) = 1 /\ Count(z, PopWorld) = 1
    <3>1. Plain("endWasm") \in Command /\ Plain("endWasm").op = "endWasm"
      BY PlainType DEF PlainOp, Plain
    <3> QED  BY <3>1, CountOne DEF PushCall, PopCall, PushWorld, PopWorld
  <2> HIDE DEF z
  <2>4. Entry \o body \in Seq(Command) /\ (Entry \o body) \o z \in Seq(Command)
    BY <2>3, EntryCounts, ConcatProperties
  <2>5. /\ Count((Entry \o body) \o z, PushCall) = 1
        /\ Count((Entry \o body) \o z, PushWorld) = 1
        /\ Count((Entry \o body) \o z, PopCall) = 1
        /\ Count((Entry \o body) \o z, PopWorld) = 1
    <3>1. \A ops : Count((Entry \o body) \o z, ops)
                      = (Count(Entry, ops) + Count(body, ops)) + Count(z, ops)
      <4>1. \A ops : Count(Entry \o body, ops) = Count(Entry, ops) + Count(body, ops)
        BY EntryCounts, CountConcat
      <4>2. \A ops : Count((Entry \o body) \o z, ops)
                       = Count(Entry \o body, ops) + Count(z, ops)
        <5> DEFINE e == Entry \o body
        <5>1. e \in Seq(Command)
          BY <2>4
        <5> HIDE DEF e
        <5>2. \A ops : Count(e \o z, ops) = Count(e, ops) + Count(z, ops)
          BY <2>3, <5>1, CountConcat
        <5> QED  BY <5>2 DEF e
      <4> QED  BY <4>1, <4>2
    <3>2. /\ Count(body, PushCall) = 0 /\ Count(body, PushWorld) = 0
          /\ Count(body, PopCall) = 0 /\ Count(body, PopWorld) = 0
      BY <2>2, StackOpsCounted
    <3> QED  BY <2>3, <3>1, <3>2, EntryCounts
  <2>6. commands # <<>> /\ Head(commands).op \in CallOps /\ UNCHANGED <<callStack, interimStates>>
    BY <1>13 DEF Enters, Top
  <2> DEFINE all == (Entry \o body) \o z
  <2> HIDE DEF all
  <2>7. all \in Seq(Command) /\ commands' = all \o Tail(commands)
    BY <2>1, <2>4 DEF all
  <2>8. /\ Count(all, PushCall) = 1 /\ Count(all, PushWorld) = 1
        /\ Count(all, PopCall) = 1 /\ Count(all, PopWorld) = 1
    BY <2>5 DEF all
  <2> QED  BY <1>11, <2>6, <2>7, <2>8 DEF CallOps
<1>14. CASE ExceptionSkip
  <2>1. /\ commands[2].op \in BodyOps /\ commands # <<>>
        /\ Tail(commands) \in Seq(Command) /\ Tail(commands) # <<>>
        /\ Head(Tail(commands)) = commands[2]
    BY <1>14, SkipsBody
  <2>2. /\ commands' = <<Head(commands)>> \o Tail(Tail(commands))
        /\ UNCHANGED <<callStack, interimStates>> /\ Head(commands).op = "exception"
    BY <1>14 DEF ExceptionSkip, Top, TopIs
  <2>3. <<Head(commands)>> \in Seq(Command) /\ Head(commands) \in Command
    BY <1>1, <2>1, HeadTailProperties
  <2>4. \A ops : ops \subseteq StackOps => Count(commands', ops) = Count(commands, ops)
    <3> SUFFICES ASSUME NEW ops, ops \subseteq StackOps
                 PROVE  Count(commands', ops) = Count(commands, ops)
      OBVIOUS
    <3>1. Head(commands).op \notin ops /\ Head(Tail(commands)).op \notin ops
      BY <2>1, <2>2, StackOpsCounted DEF StackOps
    <3> DEFINE h == <<Head(commands)>>
               t == Tail(commands)
    <3>2. /\ Count(h, ops) = 0 /\ h \in Seq(Command) /\ t \in Seq(Command) /\ t # <<>>
          /\ Head(t).op \notin ops /\ commands' = h \o Tail(t)
      BY <2>1, <2>2, <2>3, <3>1, CountOne
    <3>3. Count(commands, ops) = 0 + Count(t, ops)
      BY <1>1, <2>1, <3>1, CountTail
    <3> HIDE DEF h, t
    <3>4. Count(h \o Tail(t), ops) = Count(h, ops) + Count(t, ops) - 0 /\ Count(t, ops) \in Nat
      BY <3>2, CountRewrite
    <3> QED  BY <3>2, <3>3, <3>4
  <2> QED  BY <1>2, <2>2, <2>4, StackOpsCounted DEF Matched
<1>15. CASE ExceptionRevert
  <2> DEFINE w == <<Plain("popCallState"), Plain("popWorldState")>>
  <2>0. PICK t : t = Tail(commands)
    OBVIOUS
  <2>1. /\ commands' = w \o Tail(t) /\ UNCHANGED <<callStack, interimStates>>
        /\ Head(commands).op = "exception" /\ commands # <<>>
        /\ Len(commands) > 1 /\ commands[2].op = "endWasm"
    BY <1>15, <2>0 DEF ExceptionRevert, TopIs
  <2>2. t \in Seq(Command) /\ t # <<>> /\ Head(t) = commands[2]
    <3>1. /\ t \in Seq(Command) /\ Len(t) = Len(commands) - 1
          /\ \A i \in 1..Len(t) : t[i] = commands[i + 1]
      BY <1>1, <2>0, <2>1, HeadTailProperties
    <3>2. Len(commands) \in Nat
      BY <1>1, LenProperties
    <3>3. t # <<>>
      BY <2>1, <3>1, <3>2, EmptySeq
    <3> QED  BY <2>1, <3>1, <3>2, <3>3
  <2>3. /\ w \in Seq(Command)
        /\ Count(w, PushCall) = 0 /\ Count(w, PushWorld) = 0
        /\ Count(w, PopCall) = 1 /\ Count(w, PopWorld) = 1
    BY RevertCounts
  <2> HIDE DEF w
  <2>4. \A ops : Head(commands).op \notin ops => Count(commands, ops) = Count(t, ops)
    <3>1. \A ops : Count(commands, ops)
                     = (IF Head(commands).op \in ops THEN 1 ELSE 0) + Count(t, ops)
      BY <1>1, <2>0, <2>1, CountTail
    <3>2. \A ops : Count(t, ops) \in Nat
      BY <2>2, PlacesFinite
    <3> QED  BY <3>1, <3>2
  <2>5. \A ops : /\ Count(commands', ops) = Count(w, ops) + Count(t, ops)
                                            - (IF Head(t).op \in ops THEN 1 ELSE 0)
                 /\ Count(w, ops) \in Nat /\ Count(t, ops) \in Nat
    BY <2>1, <2>2, <2>3, CountRewrite
  <2>6. /\ Head(commands).op \notin PushCall /\ Head(commands).op \notin PushWorld
        /\ Head(commands).op \notin PopCall /\ Head(commands).op \notin PopWorld
        /\ Head(t).op \in PopCall /\ Head(t).op \in PopWorld
        /\ Head(t).op \notin PushCall /\ Head(t).op \notin PushWorld
    BY <2>1, <2>2 DEF PushCall, PopCall, PushWorld, PopWorld
  <2> QED  BY <1>2, <1>3, <2>1, <2>3, <2>4, <2>5, <2>6 DEF Matched
<1> QED  BY <1>6, <1>7, <1>8, <1>9, <1>10, <1>12, <1>13, <1>14, <1>15 DEF StepShape

(* Whatever is called and however it ends, every saved call state and every  *)
(* saved world has exactly one command that takes it back, so the pushes and *)
(* pops of calls, callbacks, #endWasm and #exception match.                  *)
THEOREM StacksMatch == Spec => []StacksMatchCommands
<1>1. Init => StacksMatchCommands
  <2> SUFFICES ASSUME Init PROVE Matched(commands, callStack, interimStates)
    BY StacksMatched
  <2>1. commands = <<>> /\ callStack = <<>> /\ interimStates = <<>>
    BY DEF Init
  <2>2. \A ops : Count(commands, ops) = 0
    <3>1. \A ops : PlacesOf(commands, ops) = {}
      BY <2>1 DEF PlacesOf
    <3> QED  BY <3>1, FS_EmptySet DEF Count
  <2> QED  BY <2>1, <2>2 DEF Matched
<1>2. TypeOK /\ CallsInProgress /\ StacksMatchCommands /\ [Next]_vars => StacksMatchCommands'
  <2> SUFFICES ASSUME TypeOK, CallsInProgress, StacksMatchCommands, [Next]_vars
               PROVE  StacksMatchCommands'
    OBVIOUS
  <2>1. CASE UNCHANGED vars
    BY <2>1 DEF vars, StacksMatchCommands, Pending, CommandsOf
  <2>2. CASE Finished
    BY <2>2 DEF Finished, vars, StacksMatchCommands, Pending, CommandsOf
  <2>3. CASE CallTx
    <3>1. /\ commands = <<>> /\ UNCHANGED <<callStack, interimStates>>
          /\ \E c \in Command : c.op = "callContract" /\ commands' = <<c>>
      BY <2>3, CallTxShape
    <3>2. \A ops : ops \subseteq StackOps =>
            Count(commands', ops) = 0 /\ Count(commands, ops) = 0
      BY <3>1, CountOne, CountNone, EmptyNone, StackOpsCounted DEF StackOps, NoneOf
    <3>3. Matched(commands', callStack', interimStates')
      BY <3>1, <3>2, StacksMatched, StackOpsCounted DEF Matched
    <3> QED  BY <3>3 DEF StacksMatchCommands, Matched, Pending, CommandsOf, Count, PlacesOf,
                         PushCall, PopCall, PushWorld, PopWorld
  <2>4. CASE Step
    BY <2>4, StepsHaveShape, StepMatched
  <2> QED  BY <2>1, <2>2, <2>3, <2>4 DEF Next
<1> QED  BY <1>1, <1>2, TypeCorrect, CallsStayInProgress, PTL DEF Spec

(* With no command left, every world that was saved has been taken back.     *)
LEMMA NothingSaved ==
  ASSUME TypeOK, StacksMatchCommands, commands = <<>>
  PROVE  interimStates = <<>> /\ callStack = <<>>
<1>1. \A ops : Pending(ops) = 0
  <2>1. \A ops : CommandsOf(ops) = {}
    BY DEF CommandsOf
  <2> QED  BY <2>1, FS_EmptySet DEF Pending
<1>2. Len(interimStates) \in Nat /\ Len(callStack) \in Nat
  BY LenProperties DEF TypeOK
<1>3. Len(interimStates) = 0 /\ Len(callStack) = 0
  BY <1>1, <1>2 DEF StacksMatchCommands
<1> QED  BY <1>3, EmptySeq DEF TypeOK
=============================================================================
