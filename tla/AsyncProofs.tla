----------------------------- MODULE AsyncProofs -----------------------------
(***************************************************************************)
(* Who runs for whom in CallMachine: a callback answers the async call its *)
(* parent made, and, in a system without the ESDTTransfer builtin, all the *)
(* code of a transaction sees its hash and no code that runs for an async  *)
(* call makes one.                                                         *)
(***************************************************************************)
EXTENDS CallMachineProofs

(* ------------------------- The order of the work ------------------------- *)

(* The commands that carry the input of a call, those that register an async *)
(* call, and those before which a call is not yet on the stack.              *)
InputOps == CallOps \cup {"callContractAux", "mkCall", "processBuiltinFunction",
                          "determineIsSCCallAfter"}
AsyncOps == {"registerAsyncCall", "addAsyncCall"}
EnteringOps == CallOps \cup {"pushWorldState", "pushCallState"}

(* A call is made and entered at once: nothing is in front of its pushes,    *)
(* and the reset of the call state follows them.                             *)
EntryAt(s, i) ==
  /\ s[i].op \in CallOps \cup {"pushWorldState"} => i = 1
  /\ s[i].op = "pushWorldState" => i + 1 \in 1..Len(s) /\ s[i + 1].op = "pushCallState"
  /\ s[i].op = "pushCallState" =>
       /\ i = 1 \/ (i = 2 /\ s[1].op = "pushWorldState")
       /\ i + 1 \in 1..Len(s) /\ s[i + 1].op = "resetCallstate"
EntryFirst(s) == \A i \in 1..Len(s) : EntryAt(s, i)

(* An async call is registered before all other work but its own checks.     *)
AsyncFirst(s) ==
  \A i \in 1..Len(s) : s[i].op \in AsyncOps =>
    \A j \in 1..Len(s) : j < i => s[j].op \in {"checkBool", "exception"}

(* An async call that may not be made is stopped before it is added.         *)
BlocksAsync(c) == c.op = "exception" \/ (c.op = "checkBool" /\ ~c.ok)
AddsAreChecked(s) ==
  \A i \in 1..Len(s) : s[i].op = "addAsyncCall" =>
    ~IsMultilevelAsync \/ \E j \in 1..Len(s) : j < i /\ BlocksAsync(s[j])

WorkInOrder ==
  /\ EntryFirst(commands) /\ AsyncFirst(commands) /\ AddsAreChecked(commands)
  /\ (\E i \in 1..Len(commands) : commands[i].op \in AsyncOps) => InstrIs("waitCommands")

Entering == commands # <<>> /\ Top.op \in EnteringOps

(* ------------------------ Callbacks answer calls ------------------------- *)

IsCallBack(in) == in.callType = "AsynchronousCallBack"
Answers(parent, to, func, in) ==
  /\ parent.asyncCalls # <<>>
  /\ LET call == Head(parent.asyncCalls)
     IN  /\ parent.callee = to
         /\ in.caller = call.dest
         /\ func \in {call.success, call.error}
         /\ in.callValue # 0 \/ in.esdtTransfers # <<>> => func = call.success
HasParent(to, func, in) == callStack # <<>> /\ Answers(Head(callStack), to, func, in)

CommandAnswers(c) ==
  c.op \in InputOps /\ IsCallBack(c.input) =>
    IF Entering THEN Answers(callState, c.to, c.func, c.input)
                ELSE HasParent(c.to, c.func, c.input)
CallbacksInOrder ==
  /\ \A i \in 1..Len(commands) : CommandAnswers(commands[i])
  /\ IsCallBack(callState.vmInput) /\ ~TopIs("resetCallstate") =>
       HasParent(callState.callee, callState.function, callState.vmInput)
  /\ \A i \in 1..Len(callStack) : IsCallBack(callStack[i].vmInput) =>
       /\ i + 1 \in 1..Len(callStack)
       /\ Answers(callStack[i + 1], callStack[i].callee, callStack[i].function,
                  callStack[i].vmInput)
  /\ vmOutput.returnCode # "OK" => vmOutput.outputAccounts = NoOutputAccounts

(* ---------------------------- The hash of a call ------------------------- *)

NoBuiltins == \A r \in Calls : ~IsBuiltin(r.func)

CommandHash(c) ==
  /\ c.op \in InputOps =>
       /\ c.input.txHash = txCount
       /\ c.op \notin {"processBuiltinFunction", "determineIsSCCallAfter"}
  /\ c.op \in {"callContract", "callContractAux"} => ~IsBuiltin(c.func)
  /\ c.op \in AsyncOps => ~IsBuiltin(c.call.func)

(* A frame that makes no call: it was reset, and its code has not started.   *)
Stopped(is) == is \in {<<>>, <<"initModule">>}
Inactive(f) == f.asyncCalls = <<>> /\ Stopped(f.instrs)
FrameHash(f) ==
  /\ f.vmInput.txHash = txCount \/ Inactive(f)
  /\ \A i \in 1..Len(f.asyncCalls) : ~IsBuiltin(f.asyncCalls[i].func)
HashesInOrder ==
  /\ \A i \in 1..Len(commands) : CommandHash(commands[i])
  /\ FrameHash(callState)
  /\ \A i \in 1..Len(callStack) : FrameHash(callStack[i])
  /\ IF callStack = <<>> THEN callState.asyncCalls = <<>>
                         ELSE callStack[Len(callStack)].asyncCalls = <<>>

(* --------------------------- One async level ----------------------------- *)

InputsAsync ==
  \A i \in 1..Len(commands) :
    commands[i].op \in InputOps => IsCallAsync(commands[i].input.callType)
EntersAsync == ExecutesAsyncCalls(callState) /\ Entering => InputsAsync
RunsAsync ==
  callStack # <<>> /\ ExecutesAsyncCalls(Head(callStack)) =>
    /\ ~Entering => InputsAsync
    /\ ~TopIs("resetCallstate") =>
         \/ IsCallAsync(callState.vmInput.callType)
         \/ ~Entering /\ Inactive(callState)
SavedAsync ==
  \A i \in 1..Len(callStack) :
    i + 1 \in 1..Len(callStack) /\ ExecutesAsyncCalls(callStack[i + 1]) =>
      IsCallAsync(callStack[i].vmInput.callType)
NoneBelow ==
  callState.asyncCalls # <<>> /\ ~TopIs("resetCallstate") =>
    \A i \in 1..Len(callStack) : ~ExecutesAsyncCalls(callStack[i])
NoneBelowSaved ==
  \A i, j \in 1..Len(callStack) :
    i < j /\ callStack[i].asyncCalls # <<>> => ~ExecutesAsyncCalls(callStack[j])

(* What runs for an async call is itself an async call, or was not started,  *)
(* and a frame with async calls has no frame below that executes its own.    *)
OneAsyncLevel == EntersAsync /\ RunsAsync /\ SavedAsync /\ NoneBelow /\ NoneBelowSaved

(* ----------------- What a step does to frames and inputs ----------------- *)

Marked == EntryOps \cup AsyncOps \cup InputOps
Unmarked(s) == s \in Seq(Command) /\ NoneOf(s, Marked)

LEMMA UnmarkedConcat ==
  ASSUME NEW s, NEW t, Unmarked(s), Unmarked(t)
  PROVE  Unmarked(s \o t)
BY NoneConcat DEF Unmarked

LEMMA UnmarkedOne ==
  ASSUME NEW c \in Command, c.op \notin Marked
  PROVE  Unmarked(<<c>>)
BY OneNone DEF Unmarked

LEMMA UnmarkedEmpty == Unmarked(<<>>)
BY EmptyNone DEF Unmarked

LEMMA UnmarkedException == ASSUME NEW ec \in ExceptionCode PROVE Unmarked(<<Exception(ec)>>)
<1>1. Exception(ec) \in Command /\ Exception(ec).op = "exception"
  BY ExceptionType DEF Exception
<1> QED  BY <1>1, UnmarkedOne DEF Marked, EntryOps, AsyncOps, InputOps, CallOps

LEMMA UnmarkedPlain ==
  ASSUME NEW op \in PlainOp, op \notin EntryOps
  PROVE  Unmarked(<<Plain(op)>>)
<1>1. Plain(op) \in Command /\ Plain(op).op = op
  BY PlainType DEF Plain
<1>2. op \notin Marked
  BY DEF PlainOp, Marked, AsyncOps, InputOps, CallOps
<1> QED  BY <1>1, <1>2, UnmarkedOne

LEMMA UnmarkedTransfers ==
  ASSUME NEW a \in AnyAddress, NEW b \in AnyAddress
  PROVE  /\ \A v \in Amount : Unmarked(TransferFunds(a, b, v))
         /\ \A l \in Seq(ESDTTransfer) : Unmarked(TransferESDTs(a, b, l))
         /\ \A t \in ESDTTransfer : Unmarked(TransferESDT(a, b, t))
<1>1. \A v : NoneOf(TransferFunds(a, b, v), Marked)
  BY DEF NoneOf, TransferFunds, CheckAccountExists, TransferFundsH, Marked, EntryOps,
         AsyncOps, InputOps, CallOps
<1>2. \A l : NoneOf(TransferESDTs(a, b, l), Marked)
  BY DEF NoneOf, TransferESDTs, TransferESDTsAux, AppendToOutAccount, Marked, EntryOps,
         AsyncOps, InputOps, CallOps
<1>3. \A t : NoneOf(TransferESDT(a, b, t), Marked)
  BY DEF NoneOf, TransferESDT, CheckAccountExists, CheckESDTBalance, AddToESDTBalance,
         Marked, EntryOps, AsyncOps, InputOps, CallOps
<1> QED  BY <1>1, <1>2, <1>3, TransferFundsType, TransferESDTsType, TransferESDTType
         DEF Unmarked

(* Work that concerns neither the inputs of calls nor the frames.            *)
QuietOps == {"checkBool", "exception", "popCallState"}
              \cup EntryOps \cup AsyncOps \cup CallOps
SameCall ==
  /\ callStack' = callStack
  /\ callState'.callee = callState.callee /\ callState'.function = callState.function
  /\ callState'.vmInput = callState.vmInput /\ callState'.asyncCalls = callState.asyncCalls
InstrsKept ==
  /\ Stopped(callState.instrs) => Stopped(callState'.instrs)
  /\ \/ callState'.instrs = callState.instrs
     \/ Top.op \in {"endWasm", "waitWasm", "newWasmInstance"}
Quiet ==
  /\ commands # <<>> /\ Top.op \notin QuietOps
  /\ \E new : Unmarked(new) /\ commands' = new \o Tail(commands)
  /\ SameCall /\ InstrsKept

LEMMA TransferQuiet ==
  ASSUME TypeOK, TransferStep
  PROVE  Quiet
<1>1. /\ commands # <<>> /\ Top \in Command /\ callState \in CallState
      /\ Top.op \in {"transferFundsH", "transferESDTs", "checkESDTBalance",
                     "addToESDTBalance", "appendToOutAccount"}
  BY TopType DEF TransferStep, TransferFundsSelf, TransferFundsMove, TransferFundsOutOfFunds,
       DoTransferESDTs, DoCheckESDTBalance, DoAddToESDTBalance, DoAppendToOutAccount,
       TopIs, Top, TypeOK
<1>2. Top.op \notin QuietOps
  BY <1>1 DEF QuietOps, EntryOps, AsyncOps, CallOps
<1>3. SameCall /\ InstrsKept
  <2>1. CASE DoAppendToOutAccount
    BY <1>1, <2>1 DEF DoAppendToOutAccount, SameCall, InstrsKept, CallState
  <2>2. CASE ~DoAppendToOutAccount
    BY <2>2 DEF TransferStep, TransferFundsSelf, TransferFundsMove, TransferFundsOutOfFunds,
                DoTransferESDTs, DoCheckESDTBalance, DoAddToESDTBalance, SameCall, InstrsKept
  <2> QED  BY <2>1, <2>2
<1>4. ASSUME NEW new, Unmarked(new), commands' = new \o Tail(commands)
      PROVE  Quiet
  BY <1>1, <1>2, <1>3, <1>4 DEF Quiet
<1>5. CASE TransferFundsSelf \/ TransferFundsMove
  <2> DEFINE c == AppendToOutAccount(Top.to, Top.from, Top.value, <<>>)
  <2>1. /\ Top.from \in AnyAddress /\ Top.to \in AnyAddress /\ Top.value \in Amount
    BY <1>1, <1>5, FieldTypes DEF TransferFundsSelf, TransferFundsMove, TopIs, Top
  <2>2. c \in Command /\ c.op = "appendToOutAccount"
    BY <2>1 DEF AppendToOutAccount, Command, OutputTransfer
  <2>3. commands' = <<c>> \o Tail(commands)
    BY <1>5 DEF TransferFundsSelf, TransferFundsMove, Replace
  <2> HIDE DEF c
  <2>4. Unmarked(<<c>>)
    BY <2>2, UnmarkedOne DEF Marked, EntryOps, AsyncOps, InputOps, CallOps
  <2> QED  BY <1>4, <2>3, <2>4
<1>6. CASE TransferFundsOutOfFunds \/ DoCheckESDTBalance \/ DoAddToESDTBalance
             \/ DoAppendToOutAccount
  <2>1. \E new \in {<<>>, <<Exception("OutOfFunds")>>} : commands' = new \o Tail(commands)
    BY <1>6 DEF TransferFundsOutOfFunds, DoCheckESDTBalance, DoAddToESDTBalance,
                DoAppendToOutAccount, Replace
  <2> QED  BY <1>4, <2>1, UnmarkedEmpty, UnmarkedException DEF ExceptionCode
<1>7. CASE DoTransferESDTs
  <2> DEFINE group == TransferESDT(Top.from, Top.to, Head(Top.esdt))
             c     == TransferESDTsAux(Top.from, Top.to, Tail(Top.esdt))
             rest  == <<c>>
  <2>1. /\ Top.op = "transferESDTs"
        /\ commands' = (IF Top.esdt = <<>> THEN <<>> ELSE group \o rest) \o Tail(commands)
    BY <1>7 DEF DoTransferESDTs, TopIs, Top, Replace
  <2>2. CASE Top.esdt = <<>>
    BY <1>4, <2>1, <2>2, UnmarkedEmpty
  <2>3. CASE Top.esdt # <<>>
    <3>1. Top.from \in AnyAddress /\ Top.to \in AnyAddress /\ Top.esdt \in Seq(ESDTTransfer)
      BY <1>1, <2>1, FieldTypes
    <3>2. Head(Top.esdt) \in ESDTTransfer /\ Tail(Top.esdt) \in Seq(ESDTTransfer)
      BY <2>3, <3>1, HeadTailProperties
    <3>3. Unmarked(group)
      BY <3>1, <3>2, UnmarkedTransfers
    <3>4. c \in Command /\ c.op = "transferESDTs"
      BY <3>1, <3>2 DEF TransferESDTsAux, Command
    <3> HIDE DEF group, c
    <3>5. Unmarked(rest)
      BY <3>4, UnmarkedOne DEF Marked, EntryOps, AsyncOps, InputOps, CallOps
    <3> HIDE DEF rest
    <3>6. Unmarked(group \o rest)
      BY <3>3, <3>5, UnmarkedConcat
    <3>7. PICK new : new = group \o rest
      OBVIOUS
    <3> QED  BY <1>4, <2>1, <2>3, <3>6, <3>7
  <2> QED  BY <2>2, <2>3
<1> QED  BY <1>5, <1>6, <1>7 DEF TransferStep

(* A call is entered, or prepared further: its receiver, function and input  *)
(* are handed on.                                                            *)
CarriesOn(s) == s \in Seq(Command) /\ NoneOf(s, EntryOps \cup AsyncOps \cup CallOps)
Inherits(c, d) ==
  /\ c.to = d.to /\ c.func = d.func /\ c.input = d.input
  /\ c.op = "callContractAux" => d.op = "callContract"
  /\ c.op = "processBuiltinFunction" => d.op = "callContractAux" /\ IsBuiltin(c.func)
  /\ c.op = "determineIsSCCallAfter" => d.op = "processBuiltinFunction"
AllInherit(s) == \A i \in 1..Len(s) : s[i].op \in InputOps => Inherits(s[i], Top)

EntersCall ==
  /\ commands # <<>> /\ Top.op \in CallOps
  /\ \E body : CarriesOn(body) /\ AllInherit(body)
                /\ commands' = (Entry \o body) \o Tail(commands)
  /\ UNCHANGED <<callState, callStack>>
HandsOn ==
  /\ commands # <<>> /\ Top.op \in {"callContractAux", "processBuiltinFunction"}
  /\ \E new : CarriesOn(new) /\ AllInherit(new) /\ commands' = new \o Tail(commands)
  /\ UNCHANGED <<callState, callStack>>
BuiltinCalls ==
  /\ commands # <<>> /\ Top.op = "determineIsSCCallAfter"
  /\ \E new : /\ CarriesOn(new) /\ commands' = new \o Tail(commands)
              /\ \A i \in 1..Len(new) : new[i].op \in InputOps =>
                   new[i].op = "mkCall" /\ new[i].input.callType = "DirectCall"
  /\ UNCHANGED <<callState, callStack>>

LEMMA UnmarkedCarriesOn == ASSUME NEW s, Unmarked(s) PROVE CarriesOn(s) /\ AllInherit(s)
BY DEF Unmarked, CarriesOn, AllInherit, NoneOf, Marked, InputOps

LEMMA CarriesOnOne ==
  ASSUME NEW c \in Command, c.op \in InputOps \ CallOps
  PROVE  /\ CarriesOn(<<c>>)
         /\ Inherits(c, Top) => AllInherit(<<c>>)
<1>1. c.op \notin EntryOps \cup AsyncOps \cup CallOps
  BY DEF InputOps, EntryOps, AsyncOps, CallOps
<1> QED  BY <1>1, OneNone DEF CarriesOn, AllInherit

LEMMA CarriesOnConcat ==
  ASSUME NEW s, NEW t, CarriesOn(s), CarriesOn(t)
  PROVE  /\ CarriesOn(s \o t)
         /\ AllInherit(s) /\ AllInherit(t) => AllInherit(s \o t)
<1>1. /\ Len(s) \in Nat /\ Len(t) \in Nat
      /\ s \in Seq(Command) /\ t \in Seq(Command)
  BY LenProperties DEF CarriesOn
<1>2. CarriesOn(s \o t)
  BY <1>1, NoneConcat DEF CarriesOn
<1>3. \A i \in 1..Len(s \o t) :
        \/ i \in 1..Len(s) /\ (s \o t)[i] = s[i]
        \/ i - Len(s) \in 1..Len(t) /\ (s \o t)[i] = t[i - Len(s)]
  BY <1>1, ConcatProperties
<1> QED  BY <1>2, <1>3 DEF AllInherit

LEMMA NewInstanceCarriesOn ==
  ASSUME NEW to \in AnyAddress, NEW f \in Name, NEW in \in VmInput
  PROVE  /\ CarriesOn(NewInstanceAndCall(to, f, in))
         /\ \A i \in 1..Len(NewInstanceAndCall(to, f, in)) :
              NewInstanceAndCall(to, f, in)[i].op \in InputOps =>
                NewInstanceAndCall(to, f, in)[i] = Call("mkCall", to, f, in)
<1>1. NewInstanceAndCall(to, f, in) \in Seq(Command)
  BY NewInstanceAndCallType
<1>2. NoneOf(NewInstanceAndCall(to, f, in), EntryOps \cup AsyncOps \cup CallOps)
  BY DEF NoneOf, NewInstanceAndCall, Plain, Call, EntryOps, AsyncOps, CallOps
<1>3. Plain("newWasmInstance").op \notin InputOps
  BY DEF Plain, InputOps, CallOps
<1> QED  BY <1>1, <1>2, <1>3 DEF CarriesOn, NewInstanceAndCall

LEMMA CallQuiet ==
  ASSUME TypeOK, CallStep
  PROVE  Quiet \/ EntersCall \/ HandsOn \/ BuiltinCalls \/ MkCall
<1>1. commands # <<>> /\ Top \in Command /\ callState \in CallState
  BY TopType DEF CallStep, DoCallContract, CallContractAux, CallContractAuxBuiltin,
       CallContractAuxErrCallback, CallContractAuxNotContract, DoCallContractCb,
       NewWasmInstance, WaitWasm, MkCall, MkCallFuncNotFound, EndWasm, SetVMOutput,
       DoProcessBuiltinFunction, DetermineIsSCCallAfter, TopIs, Top, TypeOK
<1>2. CASE DoCallContract
  <2> DEFINE in  == Top.input
             a   == TransferFunds(in.caller, Top.to, in.callValue)
             b   == TransferESDTs(in.caller, Top.to, in.esdtTransfers)
             aux == CallFrom("callContractAux", in.caller, Top.to, Top.func, in)
             d   == Plain("endWasm")
             c   == <<aux>>
             z   == <<d>>
             e   == Entry
  <2>1. /\ Top.op = "callContract"
        /\ Top.to \in AnyAddress /\ Top.func \in Name /\ in \in VmInput
    BY <1>1, <1>2, FieldTypes DEF DoCallContract, TopIs, Top
  <2>2. /\ in.caller \in AnyAddress /\ in.callValue \in Amount
        /\ in.esdtTransfers \in Seq(ESDTTransfer)
    BY <2>1 DEF VmInput
  <2>3. Unmarked(a) /\ Unmarked(b) /\ Unmarked(z) /\ d \in Command
    BY <2>1, <2>2, UnmarkedTransfers, UnmarkedPlain, PlainType DEF PlainOp, EntryOps
  <2>4. aux \in Command /\ aux.op = "callContractAux" /\ Inherits(aux, Top)
    BY <2>1, <2>2, CallTypes DEF CallFrom, Inherits
  <2>5. commands' = (((e \o a) \o b) \o <<aux, d>>) \o Tail(commands)
    BY <1>2 DEF DoCallContract, Replace, Entry
  <2>6. UNCHANGED <<callState, callStack>>
    BY <1>2 DEF DoCallContract
  <2>7. <<aux, d>> = c \o z
    BY <2>3, <2>4, PairIsConcat
  <2>8. e \in Seq(Command)
    BY EntryCounts
  <2> HIDE DEF a, b, aux, d, e
  <2>9. CarriesOn(c) /\ AllInherit(c)
    BY <2>4, CarriesOnOne DEF InputOps, CallOps
  <2>10. /\ CarriesOn(a) /\ AllInherit(a) /\ CarriesOn(b) /\ AllInherit(b)
         /\ CarriesOn(z) /\ AllInherit(z)
    BY <2>3, UnmarkedCarriesOn
  <2> HIDE DEF c, z
  <2>11. PICK ab : ab = a \o b
    OBVIOUS
  <2>12. CarriesOn(ab) /\ AllInherit(ab)
    BY <2>10, <2>11, CarriesOnConcat
  <2>13. PICK abc : abc = ab \o c
    OBVIOUS
  <2>14. CarriesOn(abc) /\ AllInherit(abc)
    BY <2>9, <2>12, <2>13, CarriesOnConcat
  <2>15. PICK body : body = abc \o z
    OBVIOUS
  <2>16. CarriesOn(body) /\ AllInherit(body)
    BY <2>10, <2>14, <2>15, CarriesOnConcat
  <2>17. ((e \o a) \o b) \o (c \o z) = e \o body
    <3>1. /\ e \in Seq(Command) /\ a \in Seq(Command) /\ b \in Seq(Command)
          /\ c \in Seq(Command) /\ z \in Seq(Command)
      BY <2>8, <2>9, <2>10 DEF CarriesOn
    <3>2. Cat(Cat(Cat(e, a), b), Cat(c, z)) = Cat(e, Cat(Cat(Cat(a, b), c), z))
      BY <3>1, CatProperties
    <3> QED  BY <2>11, <2>13, <2>15, <3>2 DEF Cat
  <2>18. commands' = (e \o body) \o Tail(commands)
    BY <2>5, <2>7, <2>17
  <2> QED  BY <1>1, <2>1, <2>6, <2>16, <2>18 DEF EntersCall, CallOps, e
<1>3. ASSUME Top.to \in AnyAddress, Top.func \in Name, Top.input \in VmInput
      PROVE  LET new == NewInstanceAndCall(Top.to, Top.func, Top.input)
             IN  CarriesOn(new) /\ AllInherit(new)
  <2>1. Inherits(Call("mkCall", Top.to, Top.func, Top.input), Top)
    BY DEF Inherits, Call
  <2> QED  BY <1>3, <2>1, NewInstanceCarriesOn DEF AllInherit
<1>4. CASE DoCallContractCb
  <2> DEFINE inst == NewInstanceAndCall(Top.to, Top.func, Top.input)
             z    == <<Plain("endWasm")>>
             e    == Entry
  <2>1. /\ Top.op = "callContractCb"
        /\ Top.to \in AnyAddress /\ Top.func \in Name /\ Top.input \in VmInput
    BY <1>1, <1>4, FieldTypes DEF DoCallContractCb, TopIs, Top
  <2>2. CarriesOn(inst) /\ AllInherit(inst)
    BY <1>3, <2>1
  <2>3. CarriesOn(z) /\ AllInherit(z)
    BY UnmarkedPlain, UnmarkedCarriesOn DEF PlainOp, EntryOps
  <2>4. /\ commands' = ((e \o inst) \o z) \o Tail(commands)
        /\ UNCHANGED <<callState, callStack>>
    BY <1>4 DEF DoCallContractCb, Replace, Entry
  <2>5. e \in Seq(Command)
    BY EntryCounts
  <2> HIDE DEF inst, z, e
  <2>6. PICK body : body = inst \o z
    OBVIOUS
  <2>7. CarriesOn(body) /\ AllInherit(body)
    BY <2>2, <2>3, <2>6, CarriesOnConcat
  <2>8. (e \o inst) \o z = e \o body
    <3>1. inst \in Seq(Command) /\ z \in Seq(Command)
      BY <2>2, <2>3 DEF CarriesOn
    <3> QED  BY <2>5, <2>6, <3>1, ConcatAssociative
  <2> QED  BY <1>1, <2>1, <2>4, <2>7, <2>8 DEF EntersCall, CallOps, e
<1>5. CASE CallContractAux
  <2> DEFINE new == NewInstanceAndCall(Top.to, Top.func, Top.input)
  <2>1. /\ Top.op = "callContractAux"
        /\ Top.to \in AnyAddress /\ Top.func \in Name /\ Top.input \in VmInput
    BY <1>1, <1>5, FieldTypes DEF CallContractAux, TopIs, Top
  <2>2. CarriesOn(new) /\ AllInherit(new)
    BY <1>3, <2>1
  <2>3. commands' = new \o Tail(commands) /\ UNCHANGED <<callState, callStack>>
    BY <1>5 DEF CallContractAux, Replace
  <2> HIDE DEF new
  <2> QED  BY <1>1, <2>1, <2>2, <2>3 DEF HandsOn
<1>6. CASE CallContractAuxBuiltin
  <2> DEFINE c   == CallFrom("processBuiltinFunction", Top.from, Top.to, Top.func, Top.input)
             new == <<c>>
  <2>1. /\ Top.op = "callContractAux" /\ Top.from \in AnyAddress /\ Top.to \in AnyAddress
        /\ Top.func \in Name /\ Top.input \in VmInput /\ IsBuiltin(Top.func)
    BY <1>1, <1>6, FieldTypes DEF CallContractAuxBuiltin, TopIs, Top
  <2>2. c \in Command /\ c.op = "processBuiltinFunction" /\ Inherits(c, Top)
    BY <2>1, CallTypes DEF CallFrom, Inherits
  <2>3. commands' = new \o Tail(commands) /\ UNCHANGED <<callState, callStack>>
    BY <1>6 DEF CallContractAuxBuiltin, Replace
  <2> HIDE DEF c
  <2>4. CarriesOn(new) /\ AllInherit(new)
    BY <2>2, CarriesOnOne DEF InputOps, CallOps
  <2> HIDE DEF new
  <2> QED  BY <1>1, <2>1, <2>3, <2>4 DEF HandsOn
<1>7. CASE DoProcessBuiltinFunction
  <2> DEFINE esdt == Top.input.callArgs.esdt
             a == <<CheckBool(Top.input.callValue = 0), CheckBool(esdt # <<>>),
                    CheckBool(esdt # <<>> /\ Head(esdt).value > 0)>>
             b == TransferESDTs(Top.from, Top.to, esdt)
             c == CallFrom("determineIsSCCallAfter", Top.from, Top.to, Top.func, Top.input)
             d == <<c>>
  <2>1. /\ Top.op = "processBuiltinFunction"
        /\ Top.from \in AnyAddress /\ Top.to \in AnyAddress
        /\ Top.func \in Name /\ Top.input \in VmInput
    BY <1>1, <1>7, FieldTypes DEF DoProcessBuiltinFunction, TopIs, Top
  <2>2. esdt \in Seq(ESDTTransfer)
    BY <2>1 DEF VmInput, CallArgs
  <2>3. commands' = ((a \o b) \o d) \o Tail(commands) /\ UNCHANGED <<callState, callStack>>
    BY <1>7 DEF DoProcessBuiltinFunction, Replace
  <2> HIDE DEF esdt
  <2>4. Unmarked(a)
    <3>1. /\ CheckBool(Top.input.callValue = 0) \in Command
          /\ CheckBool(esdt # <<>>) \in Command
      BY CheckBoolType
    <3>2. CheckBool(esdt # <<>> /\ Head(esdt).value > 0) \in Command
      BY CheckBoolType
    <3>3. \A b1, b2, b3 : NoneOf(<<CheckBool(b1), CheckBool(b2), CheckBool(b3)>>, Marked)
      BY DEF NoneOf, CheckBool, Marked, EntryOps, AsyncOps, InputOps, CallOps
    <3>4. a \in Seq(Command)
      BY <3>1, <3>2
    <3> QED  BY <3>3, <3>4 DEF Unmarked
  <2>5. Unmarked(b)
    BY <2>1, <2>2, UnmarkedTransfers
  <2>6. c \in Command /\ c.op = "determineIsSCCallAfter" /\ Inherits(c, Top)
    BY <2>1, CallTypes DEF CallFrom, Inherits
  <2> HIDE DEF a, b, c
  <2>7. CarriesOn(d) /\ AllInherit(d)
    BY <2>6, CarriesOnOne DEF InputOps, CallOps
  <2> HIDE DEF d
  <2>8. PICK ab : ab = a \o b
    OBVIOUS
  <2>9. CarriesOn(ab) /\ AllInherit(ab)
    BY <2>4, <2>5, <2>8, UnmarkedConcat, UnmarkedCarriesOn
  <2>10. PICK new : new = ab \o d
    OBVIOUS
  <2>11. CarriesOn(new) /\ AllInherit(new)
    BY <2>7, <2>9, <2>10, CarriesOnConcat
  <2> QED  BY <1>1, <2>1, <2>3, <2>8, <2>10, <2>11 DEF HandsOn
<1>8. CASE DetermineIsSCCallAfter
  <2> DEFINE args == Top.input.callArgs
             in   == MkVmInputEsdtExec(Top.from, args)
             inst == NewInstanceAndCall(Top.to, args.func, in)
             c    == Call("mkCall", Top.to, args.func, in)
  <2>1. /\ Top.from \in AnyAddress /\ Top.to \in AnyAddress /\ Top.input \in VmInput
        /\ Top.op = "determineIsSCCallAfter"
    BY <1>1, <1>8, FieldTypes DEF DetermineIsSCCallAfter, TopIs, Top
  <2>2. args.func \in Name /\ args.esdt \in Seq(ESDTTransfer)
    BY <2>1 DEF VmInput, CallArgs
  <2>3. 0 \in Amount /\ "DirectCall" \in CallType
    BY AmountAssumption DEF CallType
  <2>4. in \in VmInput
    BY <2>1, <2>2, <2>3, EmptyTypes, CallInputType DEF MkVmInputEsdtExec
  <2>5. /\ \E new \in {inst, <<>>} : commands' = new \o Tail(commands)
        /\ UNCHANGED <<callState, callStack>>
    BY <1>8 DEF DetermineIsSCCallAfter, Replace
  <2>6. c.op = "mkCall" /\ c.input.callType = "DirectCall"
    BY DEF Call, MkVmInputEsdtExec, CallInput
  <2> HIDE DEF args, in
  <2>7. CarriesOn(inst) /\ \A i \in 1..Len(inst) : inst[i].op \in InputOps => inst[i] = c
    BY <2>1, <2>2, <2>4, NewInstanceCarriesOn
  <2> HIDE DEF inst, c
  <2>8. CarriesOn(<<>>) /\ Len(<<>>) = 0
    BY UnmarkedEmpty, UnmarkedCarriesOn
  <2>9. PICK new \in {inst, <<>>} : commands' = new \o Tail(commands)
    BY <2>5
  <2>10. CarriesOn(new) /\ \A i \in 1..Len(new) : new[i].op \in InputOps => new[i] = c
    BY <2>7, <2>8
  <2> QED  BY <1>1, <2>1, <2>5, <2>6, <2>9, <2>10 DEF BuiltinCalls
<1>9. ASSUME NEW new, Unmarked(new), commands' = new \o Tail(commands),
             SameCall, InstrsKept,
             Top.op \in {"callContractAux", "newWasmInstance", "waitWasm", "mkCall",
                         "endWasm", "setVMOutput"}
      PROVE  Quiet
  BY <1>1, <1>9 DEF Quiet, QuietOps, EntryOps, AsyncOps, CallOps
<1>10. CASE CallContractAuxErrCallback \/ CallContractAuxNotContract \/ MkCallFuncNotFound
  <2>1. /\ Top.op \in {"callContractAux", "mkCall"} /\ SameCall /\ InstrsKept
        /\ \E ec \in ExceptionCode : commands' = <<Exception(ec)>> \o Tail(commands)
    BY <1>10 DEF CallContractAuxErrCallback, CallContractAuxNotContract, MkCallFuncNotFound,
            TopIs, Top, Replace, ExceptionCode, SameCall, InstrsKept
  <2> QED  BY <1>9, <2>1, UnmarkedException
<1>11. CASE NewWasmInstance
  <2>1. /\ commands' = <<Plain("waitWasm")>> \o Tail(commands) /\ SameCall /\ InstrsKept
        /\ Top.op = "newWasmInstance"
    BY <1>1, <1>11 DEF NewWasmInstance, Replace, TopIs, Top, SameCall, InstrsKept, Stopped,
                       CallState
  <2> QED  BY <1>9, <2>1, UnmarkedPlain DEF PlainOp, EntryOps
<1>12. CASE WaitWasm \/ SetVMOutput
  <2>1. /\ commands' = <<>> \o Tail(commands) /\ SameCall /\ InstrsKept
        /\ Top.op \in {"waitWasm", "setVMOutput"}
    BY <1>12 DEF WaitWasm, SetVMOutput, Replace, TopIs, Top, SameCall, InstrsKept
  <2> QED  BY <1>9, <2>1, UnmarkedEmpty
<1>13. CASE EndWasm
  <2> DEFINE new == <<Plain("asyncExecute"), Plain("setVMOutput"), Plain("popCallState"),
                      Plain("dropWorldState")>>
  <2>1. /\ commands' = new \o Tail(commands) /\ SameCall /\ InstrsKept
        /\ Top.op = "endWasm"
    BY <1>13 DEF EndWasm, Replace, TopIs, Top, SameCall, InstrsKept
  <2>2. new \in Seq(Command)
    BY PlainType DEF PlainOp
  <2>3. NoneOf(new, Marked)
    BY DEF NoneOf, Plain, Marked, EntryOps, AsyncOps, InputOps, CallOps
  <2> HIDE DEF new
  <2> QED  BY <1>9, <2>1, <2>2, <2>3 DEF Unmarked
<1> QED  BY <1>2, <1>4, <1>5, <1>6, <1>7, <1>8, <1>10, <1>11, <1>12, <1>13 DEF CallStep

(* An async call is to be checked, added or executed; a call is made.        *)
ChecksAsync ==
  /\ commands # <<>> /\ Top.op = "registerAsyncCall"
  /\ \E new \in Seq(Command) :
       /\ Len(new) = 7 /\ \A i \in 1..6 : new[i].op = "checkBool"
       /\ ~new[6].ok <=> IsMultilevelAsync
       /\ new[7].op = "addAsyncCall" /\ new[7].call = Top.call
       /\ commands' = new \o Tail(commands)
  /\ UNCHANGED <<callState, callStack>>

MakesCall(c) ==
  /\ c \in Command /\ c.op \in CallOps /\ commands # <<>>
  /\ \E new \in Seq(Command) :
       /\ Len(new) # 0 /\ new[1] = c
       /\ \A i \in 1..Len(new) : i # 1 => new[i].op \notin Marked
       /\ commands' = new \o Tail(commands)
  /\ SameCall /\ InstrsKept /\ c.input.txHash = callState.vmInput.txHash
CallsAsync ==
  /\ commands # <<>> /\ Top.op = "executeAsyncLocalCall" /\ callState.asyncCalls # <<>>
  /\ callState'.instrs = callState.instrs
  /\ \E c : /\ MakesCall(c) /\ c.op = "callContract" /\ c.input.callType = "AsynchronousCall"
            /\ c.func = Head(callState.asyncCalls).func
CallsBack ==
  /\ commands # <<>> /\ Top.op = "executeAsyncLocalCallback" /\ callState.asyncCalls # <<>>
  /\ callState'.instrs = callState.instrs
  /\ \E c : /\ MakesCall(c) /\ c.op = "callContractCb"
            /\ c.input.callType = "AsynchronousCallBack"
            /\ Answers(callState, c.to, c.func, c.input)
CallsDirectly ==
  /\ commands # <<>> /\ Top.op = "endWasm"
  /\ InstrIs("code") /\ ~Stopped(callState'.instrs)
  /\ \E c : /\ MakesCall(c) /\ c.op = "callContract" /\ c.input.callType = "DirectCall"
            /\ \E r \in Calls : c.func = r.func

RegistersAsync ==
  /\ commands # <<>> /\ Top.op = "endWasm" /\ InstrIs("code")
  /\ callState'.instrs # <<>> /\ Head(callState'.instrs) = "waitCommands"
  /\ \E c \in Command : /\ c.op = "registerAsyncCall" /\ \E r \in Calls : c.call.func = r.func
                        /\ commands' = <<c, Top>> \o Tail(commands)
  /\ SameCall

OutputKnown == vmOutput.returnCode # "OK" => vmOutput.outputAccounts = NoOutputAccounts

LEMMA AsyncQuiet ==
  ASSUME TypeOK, OutputKnown, AsyncStep
  PROVE  Quiet \/ ChecksAsync \/ AddAsyncCall \/ DropAsyncLocalCall \/ CallsAsync \/ CallsBack
<1>1. commands # <<>> /\ Top \in Command /\ callState \in CallState
  BY TopType DEF AsyncStep, RegisterAsyncCall, AddAsyncCall, AsyncExecute,
       ExecuteAsyncLocalCalls, DropAsyncLocalCall, ExecuteAsyncLocalCall,
       ExecuteAsyncLocalCallback, MergeOutputs, TopIs, Top, TypeOK
<1>2. ASSUME NEW new, Unmarked(new), commands' = new \o Tail(commands), SameCall, InstrsKept,
             Top.op \in {"asyncExecute", "executeAsyncLocalCalls",
                         "executeAsyncLocalCallback", "mergeOutputs"}
      PROVE  Quiet
  BY <1>1, <1>2 DEF Quiet, QuietOps, EntryOps, AsyncOps, CallOps
<1>3. CASE RegisterAsyncCall
  <2> DEFINE c == Top.call
             n1 == ~SameAsBytes(c.success)
             n2 == ~IsQuotedBuiltin(c.success)
             n3 == ~SameAsBytes(c.error)
             n4 == ~IsQuotedBuiltin(c.error)
             n5 == ~SameAsBytes(callState.function)
             n6 == ~IsMultilevelAsync
             last == Async("addAsyncCall", c)
             new == <<CheckBool(n1), CheckBool(n2), CheckBool(n3), CheckBool(n4),
                      CheckBool(n5), CheckBool(n6), last>>
  <2>1. c \in AsyncCall
    BY <1>1, <1>3, FieldTypes DEF RegisterAsyncCall, TopIs, Top
  <2>2. last \in Command /\ last.op = "addAsyncCall" /\ last.call = Top.call
    BY <2>1 DEF Async, Command
  <2>3. /\ CheckBool(n1) \in Command /\ CheckBool(n2) \in Command /\ CheckBool(n3) \in Command
        /\ CheckBool(n4) \in Command /\ CheckBool(n5) \in Command
    BY CheckBoolType DEF SameAsBytes, IsQuotedBuiltin
  <2>4. CheckBool(n6) \in Command
    BY CheckBoolType
  <2>5. \A b : CheckBool(b).op = "checkBool" /\ CheckBool(b).ok = b
    BY DEF CheckBool
  <2>6. /\ commands' = new \o Tail(commands) /\ Top.op = "registerAsyncCall"
        /\ UNCHANGED <<callState, callStack>>
    BY <1>3 DEF RegisterAsyncCall, Replace, TopIs, Top
  <2>7. n6 <=> ~IsMultilevelAsync
    OBVIOUS
  <2> HIDE DEF last, n1, n2, n3, n4, n5, n6, CheckBool
  <2>8. new \in Seq(Command) /\ Len(new) = 7
    BY <2>2, <2>3, <2>4
  <2>9. \A i \in 1..6 : new[i].op = "checkBool"
    BY <2>5
  <2>10. new[6].ok = n6 /\ new[7] = last
    BY <2>5
  <2> HIDE DEF new
  <2> QED  BY <1>1, <2>2, <2>6, <2>7, <2>8, <2>9, <2>10 DEF ChecksAsync
<1>4. CASE AsyncExecute
  <2>1. /\ commands' = <<Plain("executeAsyncLocalCalls")>> \o Tail(commands)
        /\ Top.op = "asyncExecute" /\ SameCall /\ InstrsKept
    BY <1>4 DEF AsyncExecute, Replace, TopIs, Top, SameCall, InstrsKept
  <2> QED  BY <1>2, <2>1, UnmarkedPlain DEF PlainOp, EntryOps
<1>5. CASE ExecuteAsyncLocalCalls
  <2> DEFINE four == <<Plain("executeAsyncLocalCall"), Plain("executeAsyncLocalCallback"),
                       Plain("dropAsyncLocalCall"), Plain("executeAsyncLocalCalls")>>
  <2>1. four \in Seq(Command)
    BY PlainType DEF PlainOp
  <2>2. NoneOf(four, Marked)
    BY DEF NoneOf, Plain, Marked, EntryOps, AsyncOps, InputOps, CallOps
  <2>3. Top.op = "executeAsyncLocalCalls" /\ SameCall /\ InstrsKept
    BY <1>5 DEF ExecuteAsyncLocalCalls, TopIs, Top, SameCall, InstrsKept
  <2>4. PICK new \in {<<>>, four} : commands' = new \o Tail(commands)
    BY <1>5 DEF ExecuteAsyncLocalCalls, Replace
  <2> HIDE DEF four
  <2> QED  BY <1>2, <2>1, <2>2, <2>3, <2>4, UnmarkedEmpty DEF Unmarked
<1>6. CASE MergeOutputs
  <2>1. commands' = <<>> \o Tail(commands) /\ Top.op = "mergeOutputs"
    BY <1>6 DEF MergeOutputs, Replace, TopIs, Top
  <2>2. SameCall /\ InstrsKept
    BY <1>1, <1>6 DEF MergeOutputs, MergedWithOutput, SameCall, InstrsKept, CallState
  <2> QED  BY <1>2, <2>1, <2>2, UnmarkedEmpty
<1>7. ASSUME NEW c \in Command, c.op \in CallOps, c.input.txHash = callState.vmInput.txHash,
             commands' = <<c, Plain("mergeOutputs")>> \o Tail(commands),
             SameCall, InstrsKept
      PROVE  MakesCall(c)
  <2> DEFINE new == <<c, Plain("mergeOutputs")>>
  <2>1. c \in Command /\ Plain("mergeOutputs") \in Command
    BY PlainType DEF PlainOp
  <2>2. Plain("mergeOutputs").op = "mergeOutputs"
    BY DEF Plain
  <2>3. new \in Seq(Command) /\ Len(new) = 2 /\ new[1] = c
    BY <2>1
  <2>4. \A i \in 1..2 : i # 1 => new[i].op = "mergeOutputs"
    BY <2>2
  <2>5. commands' = new \o Tail(commands)
    BY <1>7
  <2> HIDE DEF new
  <2>6. \A i \in 1..Len(new) : i # 1 => new[i].op \notin Marked
    BY <2>3, <2>4 DEF Marked, EntryOps, AsyncOps, InputOps, CallOps
  <2>7. new \in Seq(Command) /\ Len(new) # 0
    BY <2>3
  <2>8. \E cs \in Seq(Command) :
          /\ Len(cs) # 0 /\ cs[1] = c /\ \A i \in 1..Len(cs) : i # 1 => cs[i].op \notin Marked
          /\ commands' = cs \o Tail(commands)
    BY <2>3, <2>5, <2>6, <2>7
  <2> QED  BY <1>1, <1>7, <2>8 DEF MakesCall
<1>8. CASE ExecuteAsyncLocalCall
  <2> DEFINE h  == Head(callState.asyncCalls)
             in == CallInput(callState.callee, h.value, "AsynchronousCall", <<>>, h.args)
             c  == Call("callContract", h.dest, h.func, in)
  <2>1. callState.callee \in AnyAddress /\ callState.asyncCalls \in Seq(AsyncCall)
    BY <1>1 DEF CallState
  <2>2. callState.asyncCalls # <<>> /\ h \in AsyncCall
    BY <1>8, <2>1, HeadTailProperties DEF ExecuteAsyncLocalCall
  <2>3. /\ h.value \in Amount /\ h.args \in CallArgs /\ h.dest \in AnyAddress
        /\ h.func \in Name /\ "AsynchronousCall" \in CallType
    BY <2>2 DEF AsyncCall, AnyAddress, CallType
  <2>4. /\ commands' = <<c, Plain("mergeOutputs")>> \o Tail(commands)
        /\ Top.op = "executeAsyncLocalCall" /\ SameCall /\ InstrsKept
        /\ callState'.instrs = callState.instrs
    BY <1>8 DEF ExecuteAsyncLocalCall, Replace, TopIs, Top, SameCall, InstrsKept
  <2>5. in.txHash = callState.vmInput.txHash /\ in.callType = "AsynchronousCall"
    BY DEF CallInput
  <2>6. in \in VmInput
    <3>1. <<>> \in Seq(ESDTTransfer)
      OBVIOUS
    <3> HIDE DEF h
    <3> QED  BY <2>1, <2>3, <3>1, CallInputType
  <2>7. c.op = "callContract" /\ c.input = in /\ c.func = h.func
    BY DEF Call
  <2>8. MakesCall(c)
    <3> HIDE DEF h, in, c
    <3>1. c = Call("callContract", h.dest, h.func, in)
      BY DEF c, in, h
    <3>2. c \in Command
      BY <2>3, <2>6, <3>1, CallTypes
    <3>3. c.op \in CallOps /\ c.input.txHash = callState.vmInput.txHash
      BY <2>5, <2>7 DEF CallOps
    <3> QED  BY <1>7, <2>4, <3>2, <3>3
  <2> QED  BY <1>1, <2>2, <2>4, <2>5, <2>7, <2>8 DEF CallsAsync
<1>9. CASE ExecuteAsyncLocalCallback
  <2> DEFINE h    == Head(callState.asyncCalls)
             cb   == ChooseCallback(vmOutput.returnCode, h)
             last == ExtractLastTransfer(callState.callee)
             in   == CallInput(h.dest, last.value, "AsynchronousCallBack", last.esdt,
                               NoArgs)
             c    == Call("callContractCb", callState.callee, cb, in)
  <2>1. callState.callee \in AnyAddress /\ callState.asyncCalls \in Seq(AsyncCall)
    BY <1>1 DEF CallState
  <2>2. callState.asyncCalls # <<>> /\ h \in AsyncCall
    BY <1>9, <2>1, HeadTailProperties DEF ExecuteAsyncLocalCallback
  <2>3. h.dest \in AnyAddress /\ cb \in Name /\ "AsynchronousCallBack" \in CallType
    BY <2>2 DEF AsyncCall, AnyAddress, CallType, ChooseCallback
  <2>4. last \in OutputTransfer
    BY <2>1, LastTransferType
  <2>5. last.value \in Amount /\ last.esdt \in Seq(ESDTTransfer)
    BY <2>4 DEF OutputTransfer
  <2>6. /\ Top.op = "executeAsyncLocalCallback" /\ SameCall /\ InstrsKept
        /\ callState'.instrs = callState.instrs
    BY <1>9 DEF ExecuteAsyncLocalCallback, TopIs, Top, SameCall, InstrsKept
  <2>7. commands' = (IF cb = NoName THEN <<>> ELSE <<c, Plain("mergeOutputs")>>)
                      \o Tail(commands)
    BY <1>9 DEF ExecuteAsyncLocalCallback, Replace
  <2>8. /\ in.txHash = callState.vmInput.txHash /\ in.callType = "AsynchronousCallBack"
        /\ in.caller = h.dest /\ in.callValue = last.value /\ in.esdtTransfers = last.esdt
    BY DEF CallInput
  <2>9. last.value # 0 \/ last.esdt # <<>> => vmOutput.returnCode = "OK"
    <3> SUFFICES ASSUME vmOutput.returnCode # "OK" PROVE last.value = 0 /\ last.esdt = <<>>
      OBVIOUS
    <3>1. vmOutput.outputAccounts = NoOutputAccounts
      BY DEF OutputKnown
    <3>2. callState.callee \in Address => LastTransfer(callState.callee) = NoTransfer
      BY <3>1 DEF LastTransfer, NoOutputAccounts
    <3>3. last = NoTransfer
      BY <2>1, <3>2 DEF ExtractLastTransfer, AnyAddress
    <3> QED  BY <3>3 DEF NoTransfer
  <2>10. cb \in {h.success, h.error} /\ (vmOutput.returnCode = "OK" => cb = h.success)
    BY DEF ChooseCallback
  <2>11. in \in VmInput
    <3> HIDE DEF h, last
    <3> QED  BY <2>3, <2>5, EmptyTypes, CallInputType
  <2>12. CASE cb = NoName
    BY <1>2, <2>6, <2>7, <2>12, UnmarkedEmpty
  <2>13. CASE cb # NoName
    <3> HIDE DEF in, last, cb, c
    <3>1. Answers(callState, callState.callee, cb, in)
      BY <2>2, <2>8, <2>9, <2>10 DEF Answers
    <3>2. c = Call("callContractCb", callState.callee, cb, in)
      BY DEF c, in, last, cb
    <3>3. commands' = <<c, Plain("mergeOutputs")>> \o Tail(commands)
      BY <2>7, <2>13
    <3>4. c \in Command
      BY <2>1, <2>3, <2>11, <3>2, CallTypes
    <3>5. c.op = "callContractCb" /\ c.to = callState.callee /\ c.func = cb /\ c.input = in
      BY <3>2 DEF Call
    <3>6. c.op \in CallOps /\ c.input.txHash = callState.vmInput.txHash
      BY <2>8, <3>5 DEF CallOps
    <3>7. MakesCall(c)
      BY <1>7, <2>6, <3>3, <3>4, <3>6
    <3> QED  BY <1>1, <2>2, <2>6, <2>8, <3>1, <3>5, <3>7 DEF CallsBack
  <2> QED  BY <2>12, <2>13
<1> QED  BY <1>3, <1>4, <1>5, <1>6, <1>8, <1>9 DEF AsyncStep

LEMMA CodeQuiet ==
  ASSUME TypeOK, CallsInProgress, CodeStep
  PROVE  Quiet \/ CallsDirectly \/ RegistersAsync
<1>1. /\ callState \in CallState /\ callState.callee \in AnyAddress
      /\ callState.instrs \in Seq(Instr) /\ commands \in Seq(Command)
  BY DEF TypeOK, CallState
<1>2. commands # <<>> /\ Top.op \in {"endWasm", "waitWasm"} /\ callStack' = callStack
  BY CodeShape DEF Leaves, Computes
<1>3. Top \in Command /\ Top = Head(commands) /\ Top.op \notin Marked
  BY <1>2, TopType DEF Top, Marked, EntryOps, AsyncOps, InputOps, CallOps
<1> DEFINE one == <<Top>>
<1>4. Unmarked(one) /\ one \in Seq(Command) /\ commands = one \o Tail(commands)
  <2>1. commands = <<Head(commands)>> \o Tail(commands)
    BY <1>1, <1>2, HeadTailProperties
  <2> QED  BY <1>3, <2>1, UnmarkedOne DEF Unmarked
<1>5. ASSUME NEW new \in Seq(Command), commands' = new \o commands
      PROVE  new \o one \in Seq(Command) /\ commands' = (new \o one) \o Tail(commands)
  BY <1>1, <1>2, <1>3, <1>5, PrependRewrites
<1> HIDE DEF one
<1>6. ASSUME NEW new, Unmarked(new), commands' = new \o commands, SameCall,
             Stopped(callState.instrs) => Stopped(callState'.instrs)
      PROVE  Quiet
  <2>1. new \in Seq(Command) /\ Unmarked(new \o one)
    BY <1>4, <1>6, UnmarkedConcat DEF Unmarked
  <2>2. PICK w : w = new \o one
    OBVIOUS
  <2>3. commands' = w \o Tail(commands) /\ Unmarked(w)
    BY <1>5, <1>6, <2>1, <2>2
  <2> QED  BY <1>2, <1>6, <2>3
           DEF Quiet, InstrsKept, QuietOps, EntryOps, AsyncOps, CallOps
<1>7. ASSUME commands' = commands, SameCall,
             Stopped(callState.instrs) => Stopped(callState'.instrs)
      PROVE  Quiet
  <2>1. commands' = one \o Tail(commands)
    BY <1>4, <1>7
  <2> QED  BY <1>2, <1>4, <1>7, <2>1
           DEF Quiet, InstrsKept, QuietOps, EntryOps, AsyncOps, CallOps
<1>8. ~Stopped(callState.instrs) <=> ~(NoInstrs \/ callState.instrs = <<"initModule">>)
  BY DEF Stopped, NoInstrs
<1>9. /\ InstrIs("code") \/ InstrIs("finishExecuteOnDestContext") \/ InstrIs("waitCommands")
         => ~Stopped(callState.instrs)
      /\ InstrIs("initModule") => callState.instrs = <<"initModule">>
  <2>1. InstrIs("initModule") => callState.instrs = <<"initModule">>
    BY DEF CallsInProgress, RunningFrame, InstrIs, SavedInstrs, RunningInstrs,
           OwnWorkInstrs, WaitsForCall
  <2> QED  BY <2>1 DEF InstrIs, Stopped
<1>10. CASE InitModule
  <2>1. callState'.instrs = <<>> /\ commands' = commands /\ SameCall
    <3>1. Tail(<<"initModule">>) = <<>>
      OBVIOUS
    <3> QED  BY <1>1, <1>9, <1>10, <3>1 DEF InitModule, CallState, SameCall
  <2> QED  BY <1>7, <2>1 DEF Stopped
<1>11. CASE WaitCommands \/ Return
  <2>1. SameCall /\ commands' = commands /\ ~Stopped(callState.instrs)
    BY <1>1, <1>9, <1>11 DEF WaitCommands, Return, CallState, SameCall
  <2> QED  BY <1>7, <2>1
<1>12. CASE FinishExecuteOnDestOk
  <2>1. MergedWithOutput(callState) \in CallState
    BY MergedType, <1>1
  <2>2. SameCall /\ commands' = commands /\ ~Stopped(callState.instrs)
    BY <1>1, <1>9, <1>12, <2>1
       DEF FinishExecuteOnDestOk, MergedWithOutput, CallState, SameCall
  <2> QED  BY <1>7, <2>2
<1>13. CASE Finish \/ CleanReturnData
  <2>1. SameCall /\ commands' = commands /\ callState'.instrs = callState.instrs
    BY <1>1, <1>13 DEF Finish, CleanReturnData, CallState, SameCall
  <2> QED  BY <1>7, <2>1
<1>14. CASE FinishExecuteOnDestException \/ Throw
  <2>1. /\ \E ec \in ExceptionCode : commands' = <<Exception(ec)>> \o commands
        /\ SameCall /\ Stopped(callState'.instrs)
    BY <1>1, <1>2, <1>14 DEF FinishExecuteOnDestException, Throw, ThrowException, ResolveError,
       ExceptionCode, CallState, SameCall, Stopped
  <2> QED  BY <1>6, <2>1, UnmarkedException
<1>15. ASSUME NEW cmds, NEW is, HostCommands(cmds, is), is \in Seq(Instr)
       PROVE  /\ SameCall /\ commands' = cmds \o commands
              /\ callState'.instrs # <<>> /\ Head(callState'.instrs) = "waitCommands"
              /\ ~Stopped(callState'.instrs)
  <2> DEFINE w  == <<"waitCommands">>
  <2>0. w \in Seq(Instr) /\ Len(w) = 1 /\ w[1] = "waitCommands"
    BY DEF Instr
  <2> HIDE DEF w
  <2>1. PICK ws : ws = w \o is
    OBVIOUS
  <2>2. /\ Len(is) \in Nat /\ ws \in Seq(Instr) /\ Len(ws) = Len(w) + Len(is)
        /\ \A i \in 1..(Len(w) + Len(is)) :
             ws[i] = IF i <= Len(w) THEN w[i] ELSE is[i - Len(w)]
    BY <1>15, <2>0, <2>1, ConcatProperties, LenProperties
  <2>3. Len(ws) # 0 /\ ws[1] = "waitCommands"
    BY <2>0, <2>2
  <2>4. ws # <<>> /\ Head(ws) = "waitCommands"
    BY <2>2, <2>3, EmptySeq
  <2>5. callState'.instrs = ws
    BY <1>1, <1>15, <2>1 DEF HostCommands, CallState, w
  <2>6. ~Stopped(ws)
    BY <2>4 DEF Stopped
  <2> QED  BY <1>1, <1>15, <2>4, <2>5, <2>6 DEF HostCommands, CallState, SameCall
<1>16. CASE TransferValue
  <2>1. PICK r \in Calls :
          HostCommands(IF r.esdt = <<>>
                       THEN TransferFunds(callState.callee, r.dest, r.value)
                       ELSE TransferESDTs(callState.callee, r.dest, r.esdt),
                       callState.instrs)
    BY <1>16 DEF TransferValue
  <2> DEFINE new == IF r.esdt = <<>>
                    THEN TransferFunds(callState.callee, r.dest, r.value)
                    ELSE TransferESDTs(callState.callee, r.dest, r.esdt)
  <2>2. /\ r.dest \in AnyAddress /\ r.value \in Amount /\ r.esdt \in Seq(ESDTTransfer)
    BY CallsAssumption DEF CallRequest, AnyAddress
  <2>3. Unmarked(new)
    BY <1>1, <2>2, UnmarkedTransfers
  <2>4. HostCommands(new, callState.instrs) /\ ~Stopped(callState.instrs)
    BY <1>9, <1>16, <2>1 DEF TransferValue, HostCall
  <2> HIDE DEF new
  <2>5. SameCall /\ commands' = new \o commands
    BY <1>1, <1>15, <2>4
  <2> QED  BY <1>6, <2>3, <2>4, <2>5
<1>17. CASE ExecuteOnDestContext
  <2>1. PICK r \in Calls :
          LET in == CallInput(callState.callee, r.value, "DirectCall", r.esdt, r.args)
          IN  HostCommands(<<Call("callContract", r.dest, r.func, in)>>,
                           <<"finishExecuteOnDestContext">> \o callState.instrs)
    BY <1>17 DEF ExecuteOnDestContext
  <2> DEFINE in  == CallInput(callState.callee, r.value, "DirectCall", r.esdt, r.args)
             c   == Call("callContract", r.dest, r.func, in)
             new == <<c>>
             is  == <<"finishExecuteOnDestContext">> \o callState.instrs
  <2>2. /\ r.dest \in AnyAddress /\ r.func \in Name /\ r.value \in Amount
        /\ r.esdt \in Seq(ESDTTransfer) /\ r.args \in CallArgs /\ "DirectCall" \in CallType
    BY CallsAssumption DEF CallRequest, AnyAddress, CallType
  <2>3. in \in VmInput
    BY <1>1, <2>2, CallInputType
  <2>4. in.txHash = callState.vmInput.txHash /\ in.callType = "DirectCall"
    BY DEF CallInput
  <2>5. InstrIs("code") /\ HostCommands(new, is)
    BY <1>17, <2>1 DEF ExecuteOnDestContext, HostCall
  <2>6. is \in Seq(Instr)
    <3>1. <<"finishExecuteOnDestContext">> \in Seq(Instr)
      BY DEF Instr
    <3> QED  BY <1>1, <3>1, ConcatProperties
  <2> HIDE DEF in, is
  <2>7. c \in Command /\ c.op = "callContract" /\ c.func = r.func /\ c.input = in
    BY <2>2, <2>3, CallTypes DEF Call
  <2> HIDE DEF c
  <2>8. new \in Seq(Command) /\ Len(new) = 1 /\ new[1] = c
    BY <2>7
  <2> HIDE DEF new
  <2>9. SameCall /\ commands' = new \o commands /\ ~Stopped(callState'.instrs)
    BY <1>15, <2>5, <2>6
  <2>10. PICK w : w = new \o one
    OBVIOUS
  <2>11. w \in Seq(Command) /\ commands' = w \o Tail(commands)
    BY <1>5, <2>8, <2>9, <2>10
  <2>12. Len(one) = 1 /\ one[1] = Top
    BY DEF one
  <2>13. Len(w) = 2 /\ w[1] = c /\ w[2] = Top
    <3>1. /\ Len(w) = Len(new) + Len(one)
          /\ \A i \in 1..(Len(new) + Len(one)) :
               w[i] = IF i <= Len(new) THEN new[i] ELSE one[i - Len(new)]
      BY <1>4, <2>8, <2>10, ConcatProperties
    <3> QED  BY <2>8, <2>12, <3>1
  <2>14. \A i \in 1..Len(w) : i # 1 => w[i].op \notin Marked
    BY <1>3, <2>13
  <2>15. Top.op = "endWasm"
    BY <2>5, CodeAtEndWasm
  <2>16. \E cs \in Seq(Command) :
           /\ Len(cs) # 0 /\ cs[1] = c /\ \A i \in 1..Len(cs) : i # 1 => cs[i].op \notin Marked
           /\ commands' = cs \o Tail(commands)
    <3>1. Len(w) # 0
      BY <2>13
    <3> QED  BY <2>11, <2>13, <2>14, <3>1
  <2>17. MakesCall(c)
    BY <1>2, <1>9, <2>4, <2>5, <2>7, <2>9, <2>15, <2>16 DEF MakesCall, CallOps, InstrsKept
  <2> QED  BY <1>2, <2>4, <2>5, <2>7, <2>9, <2>15, <2>17 DEF CallsDirectly
<1>18. ASSUME NEW cb \in CallbackPair, NEW is \in Seq(Instr), InstrIs("code"),
              CreateAsyncCallWith(cb, is)
       PROVE  RegistersAsync
  <2>1. PICK r \in Calls :
          HostCommands(<<Async("registerAsyncCall",
                               [dest |-> r.dest, func |-> r.func, args |-> r.args,
                                value |-> r.value, success |-> cb.success,
                                error |-> cb.error])>>, is)
    BY <1>18 DEF CreateAsyncCallWith
  <2> DEFINE call == [dest |-> r.dest, func |-> r.func, args |-> r.args, value |-> r.value,
                      success |-> cb.success, error |-> cb.error]
             c    == Async("registerAsyncCall", call)
             new  == <<c>>
  <2>2. r \in CallRequest
    BY CallsAssumption
  <2>3. call \in AsyncCall /\ call.func = r.func
    BY <2>2 DEF CallRequest, CallbackPair, AsyncCall
  <2>4. HostCommands(new, is)
    BY <2>1
  <2> HIDE DEF call
  <2>5. c \in Command /\ c.op = "registerAsyncCall" /\ c.call.func = r.func
    BY <2>3 DEF Async, Command
  <2> HIDE DEF c
  <2>6. /\ SameCall /\ commands' = new \o commands
        /\ callState'.instrs # <<>> /\ Head(callState'.instrs) = "waitCommands"
    BY <1>15, <2>4
  <2>7. commands' = (new \o one) \o Tail(commands)
    <3>1. new \in Seq(Command)
      BY <2>5
    <3> HIDE DEF new
    <3> QED  BY <1>5, <2>6, <3>1
  <2>8. new \o one = <<c, Top>>
    BY <1>3, <2>5, PairIsConcat DEF one
  <2>9. Top.op = "endWasm"
    BY <1>18, CodeAtEndWasm
  <2> QED  BY <1>2, <1>18, <2>5, <2>6, <2>7, <2>8, <2>9 DEF RegistersAsync
<1>19. CASE CreateAsyncCall
  <2>1. PICK cb \in Callbacks : CreateAsyncCallWith(cb, callState.instrs)
    BY <1>19 DEF CreateAsyncCall
  <2>2. cb \in CallbackPair /\ InstrIs("code")
    BY <1>19, CallsAssumption DEF CreateAsyncCall, HostCall
  <2> QED  BY <1>1, <1>18, <2>1, <2>2
<1>20. CASE ManagedAsyncCall
  <2> DEFINE cb == [success |-> "callBack", error |-> "callBack"]
  <2>1. cb \in CallbackPair
    BY CallsAssumption DEF CallbackPair, Name
  <2>2. InstrIs("code") /\ CreateAsyncCallWith(cb, <<>>) /\ <<>> \in Seq(Instr)
    BY <1>20 DEF ManagedAsyncCall, HostCall
  <2> HIDE DEF cb
  <2> QED  BY <1>18, <2>1, <2>2
<1> QED  BY <1>10, <1>11, <1>12, <1>13, <1>14, <1>16, <1>17, <1>19, <1>20 DEF CodeStep

(* -------------------- The order of the work is kept ---------------------- *)

LEMMA PlainQuiet ==
  ASSUME TypeOK, PopWorldState \/ DropWorldState \/ DoCheckAccountExists
  PROVE  Quiet
<1>1. /\ commands # <<>> /\ Top.op \in {"popWorldState", "dropWorldState", "checkAccountExists"}
      /\ SameCall /\ InstrsKept
      /\ \E new \in {<<>>, <<Exception("ExecutionFailed")>>} : commands' = new \o Tail(commands)
  BY DEF PopWorldState, DropWorldState, DoCheckAccountExists, TopIs, Top, Replace, SameCall,
         InstrsKept
<1>2. Top.op \notin QuietOps
  BY <1>1 DEF QuietOps, EntryOps, AsyncOps, CallOps
<1> QED  BY <1>1, <1>2, UnmarkedEmpty, UnmarkedException DEF Quiet, ExceptionCode

(* The commands whose place matters.                                         *)
PlacedOps == EnteringOps \cup AsyncOps
RestUnplaced == \A i \in 2..Len(commands) : commands[i].op \notin PlacedOps

LEMMA PlacesOnTop ==
  ASSUME TypeOK, WorkInOrder, commands # <<>>,
         Top.op \notin {"checkBool", "exception", "pushWorldState"}
  PROVE  RestUnplaced
<1>1. commands \in Seq(Command) /\ Len(commands) \in Nat \ {0} /\ Top = commands[1]
  BY EmptySeq, HeadTailProperties DEF TypeOK, Top
<1> SUFFICES ASSUME NEW i \in 2..Len(commands), commands[i].op \in PlacedOps PROVE FALSE
  BY DEF RestUnplaced
<1>2. i \in 1..Len(commands) /\ 1 \in 1..Len(commands) /\ 1 < i /\ i # 1
  BY <1>1
<1>3. EntryAt(commands, i)
  BY <1>2 DEF WorkInOrder, EntryFirst
<1>4. commands[i].op \notin CallOps \cup {"pushWorldState", "pushCallState"}
  BY <1>1, <1>2, <1>3 DEF EntryAt
<1>5. commands[i].op \notin AsyncOps
  BY <1>1, <1>2 DEF WorkInOrder, AsyncFirst
<1> QED  BY <1>4, <1>5 DEF PlacedOps, EnteringOps

LEMMA NothingPlaced ==
  ASSUME \A i \in 1..Len(commands') : commands'[i].op \notin PlacedOps,
         commands' \in Seq(Command)
  PROVE  WorkInOrder' /\ ~Entering'
<1>1. commands' # <<>> => 1 \in 1..Len(commands') /\ Top' = commands'[1]
  BY EmptySeq, HeadTailProperties DEF Top
<1>2. ~Entering'
  BY <1>1 DEF Entering, PlacedOps
<1>3. EntryFirst(commands') /\ AsyncFirst(commands')
  BY DEF EntryFirst, EntryAt, AsyncFirst, PlacedOps, EnteringOps
<1>4. AddsAreChecked(commands)'
  BY DEF AddsAreChecked, PlacedOps, AsyncOps
<1>5. ~\E i \in 1..Len(commands') : commands'[i].op \in AsyncOps
  BY DEF PlacedOps
<1> QED  BY <1>2, <1>3, <1>4, <1>5 DEF WorkInOrder

LEMMA RewritePlaces ==
  ASSUME TypeOK, commands # <<>>, RestUnplaced, NEW new \in Seq(Command),
         commands' = new \o Tail(commands)
  PROVE  /\ commands' \in Seq(Command)
         /\ Len(commands') \in Nat /\ Len(new) \in Nat /\ Len(new) <= Len(commands')
         /\ \A i \in 1..Len(new) : i \in 1..Len(commands') /\ commands'[i] = new[i]
         /\ \A i \in 1..Len(commands') : i > Len(new) => commands'[i].op \notin PlacedOps
<1>1. /\ commands' \in Seq(Command) /\ Len(commands') = Len(new) + Len(commands) - 1
      /\ Len(commands) \in Nat \ {0} /\ Len(new) \in Nat
      /\ \A i \in 1..Len(commands') :
           commands'[i] = IF i <= Len(new) THEN new[i] ELSE commands[i - Len(new) + 1]
  BY RewriteIndex DEF TypeOK
<1>2. ASSUME NEW i \in 1..Len(commands'), i > Len(new)
      PROVE  commands'[i].op \notin PlacedOps
  <2>1. commands'[i] = commands[i - Len(new) + 1] /\ i - Len(new) + 1 \in 2..Len(commands)
    BY <1>1, <1>2
  <2> QED  BY <2>1 DEF RestUnplaced
<1>3. /\ Len(commands') \in Nat /\ Len(new) <= Len(commands')
      /\ \A i \in 1..Len(new) : i \in 1..Len(commands')
  BY <1>1
<1>4. \A i \in 1..Len(new) : commands'[i] = new[i]
  BY <1>1, <1>3
<1> QED  BY <1>1, <1>2, <1>3, <1>4

(* Most rewrites leave no command whose place matters.                       *)
LEMMA RewriteUnplaced ==
  ASSUME TypeOK, commands # <<>>, RestUnplaced, NEW new \in Seq(Command),
         NoneOf(new, PlacedOps), commands' = new \o Tail(commands)
  PROVE  WorkInOrder' /\ ~Entering'
<1>1. \A i \in 1..Len(commands') : commands'[i].op \notin PlacedOps
  <2>1. /\ Len(commands') \in Nat /\ Len(new) \in Nat
        /\ \A i \in 1..Len(new) : commands'[i] = new[i]
        /\ \A i \in 1..Len(commands') : i > Len(new) => commands'[i].op \notin PlacedOps
    BY RewritePlaces
  <2> QED  BY <2>1 DEF NoneOf
<1> QED  BY <1>1, RewritePlaces, NothingPlaced

LEMMA UnmarkedUnplaced ==
  ASSUME NEW s, Unmarked(s) \/ CarriesOn(s)
  PROVE  NoneOf(s, PlacedOps) /\ s \in Seq(Command)
BY DEF Unmarked, CarriesOn, NoneOf, Marked, PlacedOps, EnteringOps, EntryOps, InputOps

LEMMA QuietInOrder ==
  ASSUME TypeOK, WorkInOrder, Quiet
  PROVE  WorkInOrder' /\ ~Entering' /\ ~Entering /\ ~TopIs("resetCallstate")
<1>1. commands # <<>> /\ Top.op \notin QuietOps
  BY DEF Quiet
<1>2. RestUnplaced /\ ~Entering /\ ~TopIs("resetCallstate")
  BY <1>1, PlacesOnTop
     DEF QuietOps, EntryOps, AsyncOps, CallOps, Entering, EnteringOps, TopIs, Top
<1>3. PICK new : Unmarked(new) /\ commands' = new \o Tail(commands)
  BY DEF Quiet
<1>4. NoneOf(new, PlacedOps) /\ new \in Seq(Command)
  BY <1>3, UnmarkedUnplaced
<1>5. WorkInOrder' /\ ~Entering'
  BY <1>1, <1>2, <1>3, <1>4, RewriteUnplaced
<1> QED  BY <1>2, <1>5

LEMMA EntersInOrder ==
  ASSUME TypeOK, WorkInOrder, EntersCall
  PROVE  WorkInOrder' /\ Entering' /\ Entering /\ ~TopIs("resetCallstate")
<1>1. commands # <<>> /\ Top.op \in CallOps
  BY DEF EntersCall
<1>2. RestUnplaced /\ Entering /\ ~TopIs("resetCallstate")
  BY <1>1, PlacesOnTop DEF CallOps, Entering, EnteringOps, TopIs, Top
<1>3. PICK body : CarriesOn(body) /\ commands' = (Entry \o body) \o Tail(commands)
  BY DEF EntersCall
<1>4. /\ Entry \in Seq(Command) /\ Len(Entry) = 3 /\ Entry[1].op = "pushWorldState"
      /\ Entry[2].op = "pushCallState" /\ Entry[3].op = "resetCallstate"
  BY EntryCounts DEF Entry, Plain
<1>5. body \in Seq(Command) /\ NoneOf(body, PlacedOps) /\ Len(body) \in Nat
  BY <1>3, UnmarkedUnplaced, LenProperties
<1>6. PICK new : new = Entry \o body
  OBVIOUS
<1>7. /\ new \in Seq(Command) /\ Len(new) = Len(Entry) + Len(body)
      /\ \A i \in 1..(Len(Entry) + Len(body)) :
           new[i] = IF i <= Len(Entry) THEN Entry[i] ELSE body[i - Len(Entry)]
  BY <1>4, <1>5, <1>6, ConcatProperties
<1>8. /\ new[1] = Entry[1] /\ new[2] = Entry[2] /\ new[3] = Entry[3] /\ Len(new) >= 3
      /\ \A i \in 1..Len(new) : i > 3 => new[i].op \notin PlacedOps
  <2>1. /\ Len(new) = 3 + Len(body) /\ Len(new) >= 3
        /\ 1 \in 1..(3 + Len(body)) /\ 2 \in 1..(3 + Len(body)) /\ 3 \in 1..(3 + Len(body))
    BY <1>4, <1>5, <1>7
  <2>2. new[1] = Entry[1] /\ new[2] = Entry[2] /\ new[3] = Entry[3]
    BY <1>4, <1>7, <2>1
  <2>3. ASSUME NEW i \in 1..Len(new), i > 3 PROVE new[i].op \notin PlacedOps
    <3>1. new[i] = body[i - 3] /\ i - 3 \in 1..Len(body)
      BY <1>4, <1>5, <1>7, <2>1, <2>3
    <3> QED  BY <1>5, <3>1 DEF NoneOf
  <2> QED  BY <2>1, <2>2, <2>3
<1>9. commands' = new \o Tail(commands)
  BY <1>3, <1>6
<1>10. /\ commands' \in Seq(Command) /\ Len(commands') \in Nat /\ Len(new) \in Nat
       /\ Len(new) <= Len(commands')
       /\ \A i \in 1..Len(new) : i \in 1..Len(commands') /\ commands'[i] = new[i]
       /\ \A i \in 1..Len(commands') : i > Len(new) => commands'[i].op \notin PlacedOps
  BY <1>1, <1>2, <1>7, <1>9, RewritePlaces
<1>11. /\ Len(commands') >= 3
       /\ commands'[1].op = "pushWorldState" /\ commands'[2].op = "pushCallState"
       /\ commands'[3].op = "resetCallstate"
       /\ \A i \in 1..Len(commands') : i > 3 => commands'[i].op \notin PlacedOps
  <2>1. Len(commands') >= 3 /\ 1 \in 1..Len(new) /\ 2 \in 1..Len(new) /\ 3 \in 1..Len(new)
    BY <1>8, <1>10
  <2>2. commands'[1] = new[1] /\ commands'[2] = new[2] /\ commands'[3] = new[3]
    BY <1>10, <2>1
  <2>3. ASSUME NEW i \in 1..Len(commands'), i > 3 PROVE commands'[i].op \notin PlacedOps
    <3>1. CASE i \in 1..Len(new)
      BY <1>8, <1>10, <2>3, <3>1
    <3>2. CASE i > Len(new)
      BY <1>10, <3>2
    <3> QED  BY <1>10, <3>1, <3>2
  <2> QED  BY <1>4, <1>8, <2>1, <2>2, <2>3
<1>12. Entering'
  <2>1. commands' # <<>> /\ Head(commands') = commands'[1]
    BY <1>10, <1>11, HeadTailProperties, EmptySeq
  <2> QED  BY <1>11, <2>1 DEF Entering, Top, EnteringOps
<1>13. \A i \in 1..Len(commands') : commands'[i].op \notin AsyncOps
  BY <1>10, <1>11 DEF PlacedOps, AsyncOps
<1>14. EntryFirst(commands')
  <2> SUFFICES ASSUME NEW i \in 1..Len(commands') PROVE EntryAt(commands', i)
    BY DEF EntryFirst
  <2>1. CASE i = 1
    BY <1>10, <1>11, <2>1 DEF EntryAt, CallOps
  <2>2. CASE i = 2
    BY <1>10, <1>11, <2>2 DEF EntryAt, CallOps
  <2>3. CASE i = 3
    BY <1>11, <2>3 DEF EntryAt, CallOps
  <2>4. CASE i > 3
    BY <1>11, <2>4 DEF EntryAt, PlacedOps, EnteringOps
  <2> QED  BY <1>10, <2>1, <2>2, <2>3, <2>4
<1>15. AsyncFirst(commands')
  BY <1>13 DEF AsyncFirst
<1>16. AddsAreChecked(commands)'
  BY <1>13 DEF AddsAreChecked, AsyncOps
<1> QED  BY <1>2, <1>12, <1>13, <1>14, <1>15, <1>16 DEF WorkInOrder

LEMMA HandsOnInOrder ==
  ASSUME TypeOK, WorkInOrder, HandsOn \/ BuiltinCalls
  PROVE  WorkInOrder' /\ ~Entering' /\ ~Entering /\ ~TopIs("resetCallstate")
<1>1. /\ commands # <<>>
      /\ Top.op \in {"callContractAux", "processBuiltinFunction", "determineIsSCCallAfter"}
  BY DEF HandsOn, BuiltinCalls
<1>2. RestUnplaced /\ ~Entering /\ ~TopIs("resetCallstate")
  BY <1>1, PlacesOnTop DEF CallOps, Entering, EnteringOps, TopIs, Top
<1>3. PICK new : CarriesOn(new) /\ commands' = new \o Tail(commands)
  BY DEF HandsOn, BuiltinCalls
<1> QED  BY <1>1, <1>2, <1>3, UnmarkedUnplaced, RewriteUnplaced

(* Steps that take the top command off.                                      *)
LEMMA TailInOrder ==
  ASSUME TypeOK, WorkInOrder, commands # <<>>, commands' = Tail(commands),
         Top.op \notin {"checkBool", "exception", "pushWorldState"}
  PROVE  WorkInOrder' /\ ~Entering'
<1>1. RestUnplaced
  BY PlacesOnTop
<1>2. PICK e : e = <<>>
  OBVIOUS
<1>3. e \in Seq(Command) /\ NoneOf(e, PlacedOps)
  BY <1>2, EmptyNone
<1>4. commands' = e \o Tail(commands)
  BY <1>2, HeadTailProperties, ConcatEmptySeq DEF TypeOK
<1> QED  BY <1>1, <1>3, <1>4, RewriteUnplaced

LEMMA ChecksInOrder ==
  ASSUME TypeOK, WorkInOrder, ChecksAsync
  PROVE  WorkInOrder' /\ ~Entering' /\ ~Entering /\ ~TopIs("resetCallstate")
<1>1. commands # <<>> /\ Top.op = "registerAsyncCall" /\ UNCHANGED <<callState, callStack>>
  BY DEF ChecksAsync
<1>2. RestUnplaced /\ ~Entering /\ ~TopIs("resetCallstate")
  BY <1>1, PlacesOnTop DEF CallOps, Entering, EnteringOps, TopIs, Top
<1>3. PICK new \in Seq(Command) :
        /\ Len(new) = 7 /\ \A i \in 1..6 : new[i].op = "checkBool"
        /\ ~new[6].ok <=> IsMultilevelAsync
        /\ new[7].op = "addAsyncCall" /\ commands' = new \o Tail(commands)
  BY DEF ChecksAsync
<1>4. /\ commands' \in Seq(Command) /\ Len(commands') >= 7 /\ Len(commands') \in Nat
      /\ \A i \in 1..7 : commands'[i] = new[i]
      /\ \A i \in 1..Len(commands') : i > 7 => commands'[i].op \notin PlacedOps
  BY <1>1, <1>2, <1>3, RewritePlaces
<1>5. /\ \A i \in 1..6 : commands'[i].op = "checkBool"
      /\ commands'[6] = new[6] /\ commands'[7].op = "addAsyncCall"
  <2>1. ASSUME NEW i \in 1..6 PROVE commands'[i].op = "checkBool"
    <3>1. i \in 1..7
      OBVIOUS
    <3> QED  BY <1>3, <1>4, <3>1
  <2>2. 6 \in 1..7 /\ 7 \in 1..7
    OBVIOUS
  <2> QED  BY <1>3, <1>4, <2>1, <2>2
<1>6. ~Entering'
  <2>1. commands' # <<>> /\ Head(commands') = commands'[1]
    BY <1>4, HeadTailProperties, EmptySeq
  <2>2. commands'[1].op = "checkBool"
    BY <1>5
  <2> QED  BY <2>1, <2>2 DEF Entering, Top, EnteringOps, CallOps
<1>7. \A i \in 1..Len(commands') :
        commands'[i].op \in PlacedOps => i = 7 /\ commands'[i].op = "addAsyncCall"
  <2> SUFFICES ASSUME NEW i \in 1..Len(commands'), commands'[i].op \in PlacedOps
               PROVE  i = 7 /\ commands'[i].op = "addAsyncCall"
    OBVIOUS
  <2>1. i \notin 1..6
    BY <1>5 DEF PlacedOps, EnteringOps, AsyncOps, CallOps
  <2>2. ~(i > 7)
    BY <1>4
  <2>3. i = 7
    BY <1>4, <2>1, <2>2
  <2> QED  BY <1>5, <2>3
<1>8. EntryFirst(commands')
  BY <1>7 DEF EntryFirst, EntryAt, PlacedOps, EnteringOps, CallOps
<1>9. AsyncFirst(commands')
  <2> SUFFICES ASSUME NEW i \in 1..Len(commands'), commands'[i].op \in AsyncOps
               PROVE  \A j \in 1..Len(commands') :
                        j < i => commands'[j].op \in {"checkBool", "exception"}
    BY DEF AsyncFirst
  <2>1. i = 7
    BY <1>7 DEF PlacedOps
  <2> QED  BY <1>4, <1>5, <2>1
<1>10. AddsAreChecked(commands)'
  <2>1. IsMultilevelAsync' <=> IsMultilevelAsync
    BY <1>1 DEF IsMultilevelAsync
  <2>2. ~new[6].ok => BlocksAsync(commands'[6])
    BY <1>5 DEF BlocksAsync
  <2>3. ~IsMultilevelAsync' \/ BlocksAsync(commands'[6])
    BY <1>3, <2>1, <2>2
  <2>4. 6 \in 1..Len(commands')
    BY <1>4
  <2> QED  BY <1>7, <2>3, <2>4 DEF AddsAreChecked, PlacedOps, AsyncOps
<1>11. InstrIs("waitCommands")'
  <2>1. 1 \in 1..Len(commands) /\ commands[1] = Top
    BY <1>1, EmptySeq, HeadTailProperties DEF TypeOK, Top
  <2>2. InstrIs("waitCommands")
    BY <1>1, <2>1 DEF WorkInOrder, AsyncOps
  <2> QED  BY <1>1, <2>2 DEF InstrIs
<1> QED  BY <1>2, <1>6, <1>8, <1>9, <1>10, <1>11 DEF WorkInOrder

LEMMA CallInOrder ==
  ASSUME TypeOK, WorkInOrder, NEW c, MakesCall(c),
         Top.op \in {"executeAsyncLocalCall", "executeAsyncLocalCallback", "endWasm"}
  PROVE  WorkInOrder' /\ Entering' /\ ~Entering /\ ~TopIs("resetCallstate")
<1>1. commands # <<>> /\ c \in Command /\ c.op \in CallOps
  BY DEF MakesCall
<1>2. RestUnplaced /\ ~Entering /\ ~TopIs("resetCallstate")
  BY <1>1, PlacesOnTop DEF CallOps, Entering, EnteringOps, TopIs, Top
<1>3. PICK new \in Seq(Command) :
        /\ Len(new) # 0 /\ new[1] = c
        /\ \A i \in 1..Len(new) : i # 1 => new[i].op \notin Marked
        /\ commands' = new \o Tail(commands)
  BY DEF MakesCall
<1>4. /\ commands' \in Seq(Command) /\ Len(commands') \in Nat /\ Len(new) \in Nat
      /\ Len(new) <= Len(commands')
      /\ \A i \in 1..Len(new) : i \in 1..Len(commands') /\ commands'[i] = new[i]
      /\ \A i \in 1..Len(commands') : i > Len(new) => commands'[i].op \notin PlacedOps
  BY <1>1, <1>2, <1>3, RewritePlaces
<1>5. \A op : op \notin Marked => op \notin PlacedOps
  BY DEF Marked, PlacedOps, EnteringOps, EntryOps, InputOps
<1>6. /\ commands'[1] = c /\ Len(commands') # 0
      /\ \A i \in 1..Len(commands') : i # 1 => commands'[i].op \notin PlacedOps
  <2>1. Len(new) \in Nat \ {0}
    BY <1>3, <1>4
  <2>2. 1 \in 1..Len(new)
    BY <2>1
  <2>3. commands'[1] = c /\ Len(commands') # 0
    BY <1>3, <1>4, <2>2
  <2>4. ASSUME NEW i \in 1..Len(commands'), i # 1 PROVE commands'[i].op \notin PlacedOps
    <3>1. CASE i > Len(new)
      BY <1>4, <3>1
    <3>2. CASE i \in 1..Len(new)
      BY <1>3, <1>4, <1>5, <2>4, <3>2
    <3> QED  BY <1>4, <3>1, <3>2
  <2> QED  BY <2>3, <2>4
<1>7. Entering'
  <2>1. commands' # <<>> /\ Head(commands') = commands'[1]
    BY <1>4, <1>6, HeadTailProperties, EmptySeq
  <2> QED  BY <1>1, <1>6, <2>1 DEF Entering, Top, EnteringOps
<1>8. \A i \in 1..Len(commands') : commands'[i].op \notin AsyncOps
  BY <1>1, <1>6 DEF PlacedOps, AsyncOps, CallOps
<1>9. EntryFirst(commands')
  BY <1>1, <1>6 DEF EntryFirst, EntryAt, PlacedOps, EnteringOps, CallOps
<1>10. AsyncFirst(commands') /\ AddsAreChecked(commands)'
  BY <1>8 DEF AsyncFirst, AddsAreChecked, AsyncOps
<1> QED  BY <1>2, <1>7, <1>8, <1>9, <1>10 DEF WorkInOrder

LEMMA RegistersInOrder ==
  ASSUME TypeOK, WorkInOrder, RegistersAsync
  PROVE  WorkInOrder' /\ ~Entering' /\ ~Entering /\ ~TopIs("resetCallstate")
<1>1. commands # <<>> /\ Top.op = "endWasm" /\ Top \in Command
  BY TopType DEF RegistersAsync
<1>2. RestUnplaced /\ ~Entering /\ ~TopIs("resetCallstate")
  BY <1>1, PlacesOnTop DEF CallOps, Entering, EnteringOps, TopIs, Top
<1>3. PICK c \in Command :
        c.op = "registerAsyncCall" /\ commands' = <<c, Top>> \o Tail(commands)
  BY DEF RegistersAsync
<1> DEFINE new == <<c, Top>>
<1>4. new \in Seq(Command) /\ Len(new) = 2 /\ new[1] = c /\ new[2] = Top
  BY <1>1
<1>5. commands' = new \o Tail(commands)
  BY <1>3
<1> HIDE DEF new
<1>6. /\ commands' \in Seq(Command) /\ Len(commands') \in Nat /\ 2 <= Len(commands')
      /\ \A i \in 1..2 : commands'[i] = new[i]
      /\ \A i \in 1..Len(commands') : i > 2 => commands'[i].op \notin PlacedOps
  BY <1>1, <1>2, <1>4, <1>5, RewritePlaces
<1>7. /\ commands'[1] = c
      /\ \A i \in 1..Len(commands') : i # 1 => commands'[i].op \notin PlacedOps
  BY <1>1, <1>4, <1>6 DEF PlacedOps, EnteringOps, AsyncOps, CallOps
<1>8. ~Entering'
  <2>1. commands' # <<>> /\ Head(commands') = commands'[1]
    BY <1>6, HeadTailProperties, EmptySeq
  <2> QED  BY <1>3, <1>7, <2>1 DEF Entering, Top, EnteringOps, CallOps
<1>9. EntryFirst(commands')
  BY <1>3, <1>7 DEF EntryFirst, EntryAt, PlacedOps, EnteringOps, CallOps
<1>10. AsyncFirst(commands') /\ AddsAreChecked(commands)'
  <2>1. \A i \in 1..Len(commands') :
          commands'[i].op \in AsyncOps => i = 1 /\ commands'[i].op = "registerAsyncCall"
    BY <1>3, <1>7 DEF PlacedOps
  <2>2. AsyncFirst(commands')
    BY <2>1 DEF AsyncFirst
  <2>3. AddsAreChecked(commands)'
    BY <2>1 DEF AddsAreChecked, AsyncOps
  <2> QED  BY <2>2, <2>3
<1>11. InstrIs("waitCommands")'
  BY DEF RegistersAsync, InstrIs
<1> QED  BY <1>2, <1>8, <1>9, <1>10, <1>11 DEF WorkInOrder

LEMMA TailIndex ==
  ASSUME NEW s \in Seq(Command), s # <<>>
  PROVE  /\ Tail(s) \in Seq(Command) /\ Len(s) \in Nat \ {0} /\ Len(Tail(s)) = Len(s) - 1
         /\ Head(s) = s[1]
         /\ \A i \in 1..Len(Tail(s)) : i + 1 \in 2..Len(s) /\ Tail(s)[i] = s[i + 1]
<1>1. Len(s) \in Nat \ {0}
  BY EmptySeq
<1>2. /\ Tail(s) \in Seq(Command) /\ Len(Tail(s)) = Len(s) - 1
      /\ \A i \in 1..Len(Tail(s)) : Tail(s)[i] = s[i + 1]
  BY HeadTailProperties
<1> QED  BY <1>1, <1>2, HeadTailProperties

LEMMA PopsTop ==
  ASSUME TypeOK, commands # <<>>, Replace(<<>>)
  PROVE  commands' = Tail(commands)
<1>1. Tail(commands) \in Seq(Command)
  BY TailIndex DEF TypeOK
<1> QED  BY <1>1, ConcatEmptySeq DEF Replace

(* The top of the commands, by index.                                        *)
LEMMA TopIndex ==
  ASSUME commands \in Seq(Command)
  PROVE  /\ commands # <<>> <=> 1 \in 1..Len(commands)
         /\ commands # <<>> => Top = commands[1]
         /\ \A op : TopIs(op) <=> commands # <<>> /\ commands[1].op = op
<1>1. commands # <<>> => Top = commands[1] /\ Len(commands) \in Nat \ {0}
  BY TailIndex DEF Top
<1>2. commands = <<>> => Len(commands) = 0
  BY EmptySeq
<1> QED  BY <1>1, <1>2 DEF TopIs, Top

LEMMA PushWorldInOrder ==
  ASSUME TypeOK, WorkInOrder, PushWorldState
  PROVE  WorkInOrder' /\ Entering' /\ Entering /\ ~TopIs("resetCallstate")
<1>1. /\ commands # <<>> /\ Top.op = "pushWorldState" /\ commands \in Seq(Command)
      /\ commands' = Tail(commands)
  BY PopsTop DEF PushWorldState, TopIs, Top, TypeOK
<1>2. Entering /\ ~TopIs("resetCallstate")
  BY <1>1 DEF Entering, EnteringOps, TopIs, Top
<1>3. /\ commands' \in Seq(Command) /\ Len(commands) \in Nat \ {0}
      /\ Len(commands') = Len(commands) - 1 /\ commands[1].op = "pushWorldState"
      /\ \A i \in 1..Len(commands') : i + 1 \in 2..Len(commands) /\ commands'[i] = commands[i + 1]
  BY <1>1, TailIndex DEF Top
<1>4. 2 \in 1..Len(commands) /\ commands[2].op = "pushCallState"
  <2>1. EntryAt(commands, 1)
    BY <1>3 DEF WorkInOrder, EntryFirst
  <2>2. 1 + 1 \in 1..Len(commands) /\ commands[1 + 1].op = "pushCallState"
    BY <1>3, <2>1 DEF EntryAt
  <2>3. 1 + 1 = 2
    OBVIOUS
  <2> QED  BY <2>2, <2>3
<1>5. 3 \in 1..Len(commands) /\ commands[3].op = "resetCallstate"
  <2>1. EntryAt(commands, 2)
    BY <1>4 DEF WorkInOrder, EntryFirst
  <2>2. 2 + 1 \in 1..Len(commands) /\ commands[2 + 1].op = "resetCallstate"
    BY <1>4, <2>1 DEF EntryAt
  <2>3. 2 + 1 = 3
    OBVIOUS
  <2> QED  BY <2>2, <2>3
<1>6. 1 \in 1..Len(commands') /\ commands'[1] = commands[2]
  <2>1. 1 \in 1..Len(commands')
    BY <1>3, <1>4
  <2>2. commands'[1] = commands[1 + 1]
    BY <1>3, <2>1
  <2>3. 1 + 1 = 2
    OBVIOUS
  <2> QED  BY <2>1, <2>2, <2>3
<1>7. 2 \in 1..Len(commands') /\ commands'[2] = commands[3]
  <2>1. 2 \in 1..Len(commands')
    BY <1>3, <1>5
  <2>2. commands'[2] = commands[2 + 1]
    BY <1>3, <2>1
  <2>3. 2 + 1 = 3
    OBVIOUS
  <2> QED  BY <2>1, <2>2, <2>3
<1>8. ASSUME NEW i \in 1..Len(commands'), i # 1
      PROVE  commands'[i].op \notin PlacedOps
  <2>1. /\ commands'[i] = commands[i + 1] /\ i + 1 \in 1..Len(commands)
        /\ i + 1 # 1 /\ i + 1 # 2 /\ 1 < i + 1
    BY <1>3, <1>8
  <2>2. EntryAt(commands, i + 1)
    BY <2>1 DEF WorkInOrder, EntryFirst
  <2>3. commands[i + 1].op \notin AsyncOps
    <3>1. 1 \in 1..Len(commands) /\ commands[1].op \notin {"checkBool", "exception"}
      BY <1>3
    <3> QED  BY <2>1, <3>1 DEF WorkInOrder, AsyncFirst
  <2> QED  BY <2>1, <2>2, <2>3 DEF EntryAt, PlacedOps, EnteringOps
<1>9. Entering'
  <2>1. commands' # <<>> /\ Head(commands') = commands'[1]
    BY <1>3, <1>6, HeadTailProperties, EmptySeq
  <2> QED  BY <1>4, <1>6, <2>1 DEF Entering, Top, EnteringOps
<1>10. \A i \in 1..Len(commands') : commands'[i].op \notin AsyncOps
  BY <1>4, <1>6, <1>8 DEF PlacedOps, AsyncOps
<1>11. EntryFirst(commands')
  <2> SUFFICES ASSUME NEW i \in 1..Len(commands') PROVE EntryAt(commands', i)
    BY DEF EntryFirst
  <2>1. CASE i = 1
    <3>1. 1 + 1 = 2
      OBVIOUS
    <3> QED  BY <1>4, <1>5, <1>6, <1>7, <2>1, <3>1 DEF EntryAt, CallOps
  <2>2. CASE i # 1
    BY <1>8, <2>2 DEF EntryAt, PlacedOps, EnteringOps
  <2> QED  BY <2>1, <2>2
<1>12. AsyncFirst(commands') /\ AddsAreChecked(commands)'
  BY <1>10 DEF AsyncFirst, AddsAreChecked, AsyncOps
<1> QED  BY <1>2, <1>9, <1>10, <1>11, <1>12 DEF WorkInOrder

(* Checks and exceptions in front of an async call that is being registered. *)
LEMMA ChecksKeepOrder ==
  ASSUME TypeOK, WorkInOrder, commands # <<>>, Top.op \in {"checkBool", "exception"},
         UNCHANGED <<callState, callStack>>, NEW k \in {0, 1}, NEW d \in {0, 1},
         commands' \in Seq(Command), Len(commands') = Len(commands) - 1 - d + k,
         \A i \in 1..Len(commands') : i > k =>
           i - k + 1 + d \in 2..Len(commands) /\ commands'[i] = commands[i - k + 1 + d],
         k = 1 /\ 1 \in 1..Len(commands') => commands'[1].op = "exception",
         k = 0 => ~BlocksAsync(commands[1]) /\ d = 0
  PROVE  WorkInOrder' /\ ~Entering' /\ ~Entering /\ ~TopIs("resetCallstate")
<1>1. /\ Len(commands) \in Nat \ {0} /\ commands[1] = Top /\ 1 \in 1..Len(commands)
      /\ ~Entering /\ ~TopIs("resetCallstate") /\ Len(commands') \in Nat
  BY TailIndex, LenProperties DEF TypeOK, Top, Entering, EnteringOps, CallOps, TopIs
<1>2. ASSUME NEW i \in 2..Len(commands) PROVE commands[i].op \notin EnteringOps
  <2>1. EntryAt(commands, i) /\ i # 1
    BY <1>1 DEF WorkInOrder, EntryFirst
  <2> QED  BY <1>1, <2>1 DEF EntryAt, EnteringOps
<1>3. ASSUME NEW i \in 1..Len(commands'), i > k
      PROVE  /\ i - k + 1 + d \in 2..Len(commands) /\ commands'[i] = commands[i - k + 1 + d]
             /\ commands'[i].op \notin EnteringOps
  BY <1>2, <1>3
<1>4. ASSUME NEW i \in 1..Len(commands'), ~(i > k)
      PROVE  k = 1 /\ i = 1 /\ commands'[i].op = "exception"
  BY <1>4
<1>5. \A i \in 1..Len(commands') : commands'[i].op \notin EnteringOps
  BY <1>3, <1>4 DEF EnteringOps, CallOps
<1>6. ~Entering' /\ EntryFirst(commands')
  <2>1. commands' # <<>> => 1 \in 1..Len(commands') /\ Top' = commands'[1]
    BY EmptySeq, HeadTailProperties DEF Top
  <2> QED  BY <1>5, <2>1 DEF Entering, EntryFirst, EntryAt, EnteringOps
<1>7. ASSUME NEW i \in 1..Len(commands'), commands'[i].op \in AsyncOps
      PROVE  i > k /\ i - k + 1 + d \in 2..Len(commands)
             /\ commands'[i] = commands[i - k + 1 + d]
  BY <1>3, <1>4, <1>7 DEF AsyncOps
<1>8. AsyncFirst(commands')
  <2> SUFFICES ASSUME NEW i \in 1..Len(commands'), commands'[i].op \in AsyncOps,
                      NEW j \in 1..Len(commands'), j < i
               PROVE  commands'[j].op \in {"checkBool", "exception"}
    BY DEF AsyncFirst
  <2>1. CASE j > k
    <3>1. /\ commands'[j] = commands[j - k + 1 + d] /\ j - k + 1 + d \in 2..Len(commands)
          /\ j - k + 1 + d < i - k + 1 + d
      BY <1>3, <2>1
    <3>2. PICK x \in 2..Len(commands) : x = i - k + 1 + d /\ commands'[i] = commands[x]
      BY <1>7
    <3>3. PICK y \in 2..Len(commands) : y = j - k + 1 + d /\ commands'[j] = commands[y]
      BY <3>1
    <3>4. /\ x \in 1..Len(commands) /\ y \in 1..Len(commands) /\ y < x
          /\ commands[x].op \in AsyncOps
      BY <1>1, <3>1, <3>2, <3>3
    <3>5. commands[y].op \in {"checkBool", "exception"}
      BY <3>4 DEF WorkInOrder, AsyncFirst
    <3> QED  BY <3>3, <3>5
  <2>2. CASE ~(j > k)
    BY <1>4, <2>2
  <2> QED  BY <2>1, <2>2
<1>9. AddsAreChecked(commands)'
  <2>1. IsMultilevelAsync' <=> IsMultilevelAsync
    BY DEF IsMultilevelAsync
  <2> SUFFICES ASSUME NEW i \in 1..Len(commands'), commands'[i].op = "addAsyncCall",
                      IsMultilevelAsync
               PROVE  \E j \in 1..Len(commands') : j < i /\ BlocksAsync(commands'[j])
    BY <2>1 DEF AddsAreChecked
  <2> DEFINE o == i - k + 1 + d
  <2>2. /\ i > k /\ o \in 1..Len(commands) /\ o > 1 /\ commands[o].op = "addAsyncCall"
    BY <1>7 DEF AsyncOps
  <2>3. PICK j \in 1..Len(commands) : j < o /\ BlocksAsync(commands[j])
    BY <2>2 DEF WorkInOrder, AddsAreChecked
  <2>4. CASE k = 1
    <3>1. 1 \in 1..Len(commands') /\ 1 < i
      BY <2>2, <2>4
    <3>2. commands'[1].op = "exception"
      BY <2>4, <3>1
    <3> QED  BY <3>1, <3>2 DEF BlocksAsync
  <2>5. CASE k = 0
    <3>1. d = 0 /\ j # 1
      BY <2>3, <2>5
    <3>2. j - 1 \in 1..Len(commands') /\ j - 1 < i /\ j - 1 > k
      BY <1>1, <2>2, <2>3, <2>5, <3>1
    <3>3. commands'[j - 1] = commands[(j - 1) - k + 1 + d]
      BY <3>2
    <3>4. (j - 1) - k + 1 + d = j
      BY <2>5, <3>1
    <3> QED  BY <2>3, <3>2, <3>3, <3>4
  <2> QED  BY <2>4, <2>5
<1>10. (\E i \in 1..Len(commands') : commands'[i].op \in AsyncOps) => InstrIs("waitCommands")'
  <2> SUFFICES ASSUME NEW i \in 1..Len(commands'), commands'[i].op \in AsyncOps
               PROVE  InstrIs("waitCommands")'
    OBVIOUS
  <2>1. i - k + 1 + d \in 1..Len(commands) /\ commands[i - k + 1 + d].op \in AsyncOps
    BY <1>7
  <2>2. InstrIs("waitCommands")
    BY <2>1 DEF WorkInOrder
  <2> QED  BY <2>2 DEF InstrIs
<1> QED  BY <1>1, <1>6, <1>8, <1>9, <1>10 DEF WorkInOrder

LEMMA RevertInOrder ==
  ASSUME TypeOK, WorkInOrder, ExceptionRevert
  PROVE  WorkInOrder' /\ ~Entering' /\ ~Entering /\ ~TopIs("resetCallstate")
<1>1. /\ commands \in Seq(Command) /\ commands # <<>> /\ Top.op = "exception"
      /\ Len(commands) > 1 /\ commands[2].op = "endWasm"
  BY DEF ExceptionRevert, TopIs, Top, TypeOK
<1>2. ~Entering /\ ~TopIs("resetCallstate")
  BY <1>1 DEF Entering, EnteringOps, CallOps, TopIs, Top
<1>3. /\ Len(commands) \in Nat \ {0} /\ commands[1].op = "exception"
      /\ Tail(commands) \in Seq(Command) /\ Len(Tail(commands)) = Len(commands) - 1
      /\ \A i \in 1..Len(Tail(commands)) :
           i + 1 \in 2..Len(commands) /\ Tail(commands)[i] = commands[i + 1]
  BY <1>1, TailIndex DEF Top
<1>4. RestUnplaced
  <2> SUFFICES ASSUME NEW i \in 2..Len(commands), commands[i].op \in PlacedOps PROVE FALSE
    BY DEF RestUnplaced
  <2>1. i \in 1..Len(commands) /\ i # 1 /\ 2 \in 1..Len(commands)
    BY <1>1, <1>3
  <2>2. commands[i].op \notin EnteringOps
    <3>1. EntryAt(commands, i)
      BY <2>1 DEF WorkInOrder, EntryFirst
    <3> QED  BY <1>3, <2>1, <3>1 DEF EntryAt, EnteringOps
  <2>3. commands[i].op \in AsyncOps /\ i # 2
    BY <1>1, <2>2 DEF PlacedOps, AsyncOps
  <2>4. commands[2].op \in {"checkBool", "exception"}
    <3>1. 2 < i
      BY <2>1, <2>3
    <3> QED  BY <2>1, <2>3, <3>1 DEF WorkInOrder, AsyncFirst
  <2> QED  BY <1>1, <2>4
<1> DEFINE new == <<Plain("popCallState"), Plain("popWorldState")>>
<1>5. new \in Seq(Command) /\ Len(new) = 2
  BY PlainType DEF PlainOp
<1>6. NoneOf(new, PlacedOps)
  BY DEF NoneOf, Plain, PlacedOps, EnteringOps, AsyncOps, CallOps
<1>7. commands' = new \o Tail(Tail(commands))
  BY DEF ExceptionRevert
<1> HIDE DEF new
<1>8. PICK t : t = Tail(commands)
  OBVIOUS
<1>9. t \in Seq(Command) /\ t # <<>> /\ commands' = new \o Tail(t)
  <2>1. t \in Seq(Command) /\ Len(t) # 0
    BY <1>1, <1>3, <1>8
  <2> QED  BY <1>7, <1>8, <2>1, EmptySeq
<1>10. /\ commands' \in Seq(Command) /\ Len(commands') = Len(new) + Len(t) - 1
       /\ Len(t) \in Nat \ {0}
       /\ \A i \in 1..Len(commands') :
            commands'[i] = IF i <= Len(new) THEN new[i] ELSE t[i - Len(new) + 1]
  BY <1>5, <1>9, RewriteIndex
<1>11. ASSUME NEW i \in 1..Len(commands') PROVE commands'[i].op \notin PlacedOps
  <2>1. CASE i <= 2
    <3>1. i \in 1..Len(new) /\ commands'[i] = new[i]
      BY <1>5, <1>10, <2>1
    <3> QED  BY <1>6, <3>1 DEF NoneOf
  <2>2. CASE i > 2
    <3>1. i - 2 + 1 \in 1..Len(t) /\ commands'[i] = t[i - 2 + 1]
      BY <1>5, <1>10, <2>2
    <3>2. PICK j \in 1..Len(t) : commands'[i] = t[j]
      BY <3>1
    <3>3. j + 1 \in 2..Len(commands) /\ t[j] = commands[j + 1]
      BY <1>3, <1>8
    <3> QED  BY <1>4, <3>2, <3>3 DEF RestUnplaced
  <2> QED  BY <1>10, <2>1, <2>2
<1> QED  BY <1>2, <1>10, <1>11, NothingPlaced

LEMMA CheckInOrder ==
  ASSUME TypeOK, WorkInOrder, DoCheckBool \/ ExceptionSkip
  PROVE  WorkInOrder' /\ ~Entering' /\ ~Entering /\ ~TopIs("resetCallstate")
<1>1. /\ commands \in Seq(Command) /\ commands # <<>>
      /\ Top.op \in {"checkBool", "exception"} /\ UNCHANGED <<callState, callStack>>
  BY DEF DoCheckBool, ExceptionSkip, TopIs, Top, TypeOK
<1>2. /\ Len(commands) \in Nat \ {0} /\ commands[1] = Top
      /\ Tail(commands) \in Seq(Command) /\ Len(Tail(commands)) = Len(commands) - 1
      /\ \A i \in 1..Len(Tail(commands)) :
           i + 1 \in 2..Len(commands) /\ Tail(commands)[i] = commands[i + 1]
  BY <1>1, TailIndex DEF Top
<1>3. CASE DoCheckBool /\ Top.ok
  <2>1. commands' = Tail(commands) /\ Top.op = "checkBool"
    BY <1>1, <1>3, PopsTop DEF DoCheckBool, TopIs, Top
  <2>2. ~BlocksAsync(commands[1])
    BY <1>2, <1>3, <2>1 DEF BlocksAsync
  <2> QED
    <3>1. PICK k : k = 0
      OBVIOUS
    <3>2. /\ k \in {0, 1} /\ commands' \in Seq(Command)
          /\ Len(commands') = Len(commands) - 1 - k + k
          /\ \A i \in 1..Len(commands') : i > k =>
               /\ i - k + 1 + k \in 2..Len(commands)
               /\ commands'[i] = commands[i - k + 1 + k]
          /\ k # 1
      <4>1. /\ commands' \in Seq(Command)
            /\ Len(commands') = Len(commands) - 1 - k + k
        BY <1>2, <2>1, <3>1
      <4>2. ASSUME NEW i \in 1..Len(commands')
            PROVE  i - k + 1 + k \in 2..Len(commands)
                   /\ commands'[i] = commands[i - k + 1 + k]
        <5>1. i + 1 \in 2..Len(commands) /\ commands'[i] = commands[i + 1]
          BY <1>2, <2>1
        <5>2. i - k + 1 + k = i + 1
          BY <3>1
        <5> QED  BY <5>1, <5>2
      <4> QED  BY <3>1, <4>1, <4>2
    <3> QED  BY <1>1, <2>2, <3>1, <3>2, ChecksKeepOrder
<1>4. ASSUME NEW c \in Command, c.op = "exception", NEW t \in Seq(Command),
             NEW d \in {0, 1}, t # <<>>, commands' = <<c>> \o Tail(t),
             Len(t) = Len(commands) - d,
             \A i \in 1..Len(t) : i + d \in 1..Len(commands) /\ t[i] = commands[i + d]
      PROVE  WorkInOrder' /\ ~Entering' /\ ~Entering /\ ~TopIs("resetCallstate")
  <2> DEFINE new == <<c>>
  <2>1. new \in Seq(Command) /\ Len(new) = 1 /\ new[1] = c
    OBVIOUS
  <2>2. commands' = new \o Tail(t)
    BY <1>4
  <2> HIDE DEF new
  <2>3. /\ commands' \in Seq(Command) /\ Len(commands') = Len(new) + Len(t) - 1
        /\ Len(t) \in Nat \ {0}
        /\ \A i \in 1..Len(commands') :
             commands'[i] = IF i <= Len(new) THEN new[i] ELSE t[i - Len(new) + 1]
    BY <1>4, <2>1, <2>2, RewriteIndex
  <2>4. PICK k : k = 1
    OBVIOUS
  <2>5. k \in {0, 1} /\ Len(commands') = Len(commands) - 1 - d + k /\ k # 0
    <3>1. /\ Len(commands) \in Nat /\ Len(t) \in Nat /\ Len(t) = Len(commands) - d
          /\ Len(commands') = Len(t)
      <4>1. Len(new) = 1 /\ Len(t) \in Nat /\ Len(commands') = Len(new) + Len(t) - 1
        BY <2>1, <2>3
      <4>2. Len(commands') = Len(t)
        BY <4>1
      <4>3. Len(t) = Len(commands) - d
        BY <1>4
      <4> QED  BY <1>2, <4>1, <4>2, <4>3
    <3> QED  BY <2>4, <3>1
  <2>6. ASSUME NEW i \in 1..Len(commands'), i > k
        PROVE  i - k + 1 + d \in 2..Len(commands) /\ commands'[i] = commands[i - k + 1 + d]
    <3>1. i \in 1..Len(t) /\ commands'[i] = t[i - 1 + 1] /\ i >= 2
      BY <2>1, <2>3, <2>4, <2>6
    <3>2. i - 1 + 1 = i /\ i - k + 1 + d = i + d
      BY <2>4
    <3>3. i + d \in 1..Len(commands) /\ t[i] = commands[i + d]
      BY <1>4, <3>1
    <3>4. i + d \in 2..Len(commands)
      BY <3>1, <3>3
    <3> QED  BY <3>1, <3>2, <3>3, <3>4
  <2>7. 1 \in 1..Len(commands') => commands'[1].op = "exception"
    BY <1>4, <2>1, <2>3
  <2> QED  BY <1>1, <2>3, <2>5, <2>6, <2>7, ChecksKeepOrder
<1>5. CASE DoCheckBool /\ ~Top.ok
  <2>1. commands' = <<Exception("ExecutionFailed")>> \o Tail(commands)
    BY <1>5 DEF DoCheckBool, Replace
  <2>2. Exception("ExecutionFailed") \in Command /\ Exception("ExecutionFailed").op = "exception"
    BY ExceptionType DEF Exception, ExceptionCode
  <2>3. PICK d : d = 0
    OBVIOUS
  <2>4. /\ d \in {0, 1} /\ Len(commands) = Len(commands) - d
        /\ \A i \in 1..Len(commands) :
             i + d \in 1..Len(commands) /\ commands[i] = commands[i + d]
    <3>1. \A i \in 1..Len(commands) : i + d = i
      BY <2>3
    <3> QED  BY <1>2, <2>3, <3>1
  <2> QED  BY <1>1, <1>4, <2>1, <2>2, <2>4
<1>6. CASE ExceptionSkip
  <2>1. /\ commands' = <<Top>> \o Tail(Tail(commands)) /\ Len(commands) > 1
        /\ Top.op = "exception" /\ Top \in Command
    BY <1>1, <1>6, TopType DEF ExceptionSkip, TopIs, Top
  <2>2. PICK t : t = Tail(commands)
    OBVIOUS
  <2>3. PICK d : d = 1
    OBVIOUS
  <2>4. t \in Seq(Command) /\ t # <<>> /\ commands' = <<Top>> \o Tail(t)
    <3>1. t \in Seq(Command) /\ Len(t) # 0
      BY <1>2, <2>1, <2>2
    <3> QED  BY <2>1, <2>2, <3>1, EmptySeq
  <2>5. /\ d \in {0, 1} /\ Len(t) = Len(commands) - d
        /\ \A i \in 1..Len(t) : i + d \in 1..Len(commands) /\ t[i] = commands[i + d]
    BY <1>2, <2>2, <2>3
  <2> QED  BY <1>4, <2>1, <2>4, <2>5
<1> QED  BY <1>3, <1>5, <1>6

LEMMA MoreInOrder ==
  ASSUME TypeOK, WorkInOrder
  PROVE  /\ PushCallState => WorkInOrder' /\ ~Entering' /\ Entering /\ ~TopIs("resetCallstate")
         /\ PopCallState \/ MkCall \/ AddAsyncCall \/ DropAsyncLocalCall =>
              WorkInOrder' /\ ~Entering' /\ ~Entering /\ ~TopIs("resetCallstate")
         /\ ResetCallstate =>
              WorkInOrder' /\ ~Entering' /\ ~Entering /\ TopIs("resetCallstate")
<1>1. ASSUME PushCallState \/ PopCallState \/ ResetCallstate \/ MkCall \/ AddAsyncCall
               \/ DropAsyncLocalCall
      PROVE  /\ WorkInOrder' /\ ~Entering'
             /\ Entering <=> PushCallState
             /\ TopIs("resetCallstate") <=> ResetCallstate
  <2>1. /\ commands # <<>> /\ Replace(<<>>)
        /\ Top.op \in {"pushCallState", "popCallState", "resetCallstate", "mkCall",
                       "addAsyncCall", "dropAsyncLocalCall"}
        /\ PushCallState <=> Top.op = "pushCallState"
        /\ ResetCallstate <=> Top.op = "resetCallstate"
    BY <1>1 DEF PushCallState, PopCallState, ResetCallstate, MkCall, AddAsyncCall,
                DropAsyncLocalCall, TopIs, Top
  <2>2. commands' = Tail(commands)
    BY <2>1, PopsTop
  <2>3. WorkInOrder' /\ ~Entering'
    BY <2>1, <2>2, TailInOrder
  <2> QED  BY <2>1, <2>3 DEF Entering, EnteringOps, CallOps, TopIs, Top
<1>2. /\ PopCallState \/ MkCall \/ AddAsyncCall \/ DropAsyncLocalCall =>
           ~PushCallState /\ ~ResetCallstate
      /\ PushCallState => ~ResetCallstate
  BY DEF PushCallState, PopCallState, ResetCallstate, MkCall, AddAsyncCall,
         DropAsyncLocalCall, TopIs
<1> QED  BY <1>1, <1>2

LEMMA CallTxInOrder ==
  ASSUME TypeOK, CallTx
  PROVE  WorkInOrder' /\ Entering' /\ ~Entering /\ ~TopIs("resetCallstate")
<1>1. commands = <<>> /\ \E c \in Command : c.op = "callContract" /\ commands' = <<c>>
  <2>1. PICK from \in Senders, r \in Calls :
          commands' = <<Call("callContract", r.dest, r.func,
                             [caller |-> from, callValue |-> r.value,
                              callType |-> "DirectCall", esdtTransfers |-> r.esdt,
                              callArgs |-> r.args, txHash |-> txCount + 1])>>
    BY DEF CallTx
  <2> DEFINE in == [caller |-> from, callValue |-> r.value, callType |-> "DirectCall",
                    esdtTransfers |-> r.esdt, callArgs |-> r.args, txHash |-> txCount + 1]
             c  == Call("callContract", r.dest, r.func, in)
  <2>2. /\ r.dest \in AnyAddress /\ r.func \in Name /\ r.value \in Amount
        /\ r.esdt \in Seq(ESDTTransfer) /\ r.args \in CallArgs /\ from \in AnyAddress
    BY CallsAssumption DEF CallRequest, AnyAddress
  <2>3. in \in VmInput
    BY <2>2 DEF TypeOK, VmInput, CallType
  <2>4. commands' = <<c>> /\ c.op = "callContract"
    BY <2>1 DEF Call
  <2> HIDE DEF in
  <2>5. c \in Command
    BY <2>2, <2>3, CallTypes
  <2> QED  BY <2>4, <2>5 DEF CallTx, Idle
<1>2. PICK c \in Command : c.op = "callContract" /\ commands' = <<c>>
  BY <1>1
<1>3. Len(commands') = 1 /\ commands'[1] = c /\ commands' # <<>> /\ Head(commands') = c
  BY <1>2
<1>4. \A i \in 1..Len(commands') : i = 1 /\ commands'[i].op = "callContract"
  BY <1>2, <1>3
<1>5. EntryFirst(commands') /\ AsyncFirst(commands') /\ AddsAreChecked(commands)'
  BY <1>4 DEF EntryFirst, EntryAt, AsyncFirst, AddsAreChecked, AsyncOps
<1>6. ~\E i \in 1..Len(commands') : commands'[i].op \in AsyncOps
  BY <1>4 DEF AsyncOps
<1>7. Entering' /\ ~Entering /\ ~TopIs("resetCallstate")
  BY <1>1, <1>2, <1>3 DEF Entering, Top, EnteringOps, CallOps, TopIs
<1> QED  BY <1>5, <1>6, <1>7 DEF WorkInOrder

(* -------------------- What becomes of pending inputs --------------------- *)

(* Commands with inputs, and async calls to be made, come from those there   *)
(* were, or from the calls a contract can make.                              *)
Passes(c, d) ==
  c = d \/ (d.op \in InputOps /\ d = Top /\ Inherits(c, d) /\ c.op \notin CallOps)
InputPassed(c) == c.op \in InputOps => \E j \in 1..Len(commands) : Passes(c, commands[j])
AsyncPassed(c) ==
  c.op \in AsyncOps =>
    \/ \E j \in 1..Len(commands) :
         commands[j].op \in AsyncOps /\ c.call.func = commands[j].call.func
    \/ \E r \in Calls : c.call.func = r.func
AllPassed == \A i \in 1..Len(commands') : InputPassed(commands'[i]) /\ AsyncPassed(commands'[i])

(* Work that prepares a call, or concerns none.                              *)
Prepares ==
  /\ AllPassed /\ SameCall
  /\ (Entering' <=> Entering) /\ ~TopIs("resetCallstate")
  /\ Stopped(callState.instrs) => Stopped(callState'.instrs)
  /\ Entering => callState' = callState

LEMMA OldPassed ==
  ASSUME NEW j \in 1..Len(commands)
  PROVE  InputPassed(commands[j]) /\ AsyncPassed(commands[j])
BY DEF InputPassed, AsyncPassed, Passes

LEMMA RewritePasses ==
  ASSUME TypeOK, commands # <<>>, NEW new \in Seq(Command), commands' = new \o Tail(commands),
         \A i \in 1..Len(new) : InputPassed(new[i]) /\ AsyncPassed(new[i])
  PROVE  AllPassed
<1>1. /\ commands' \in Seq(Command) /\ Len(commands') = Len(new) + Len(commands) - 1
      /\ Len(commands) \in Nat \ {0} /\ Len(new) \in Nat
      /\ \A i \in 1..Len(commands') :
           commands'[i] = IF i <= Len(new) THEN new[i] ELSE commands[i - Len(new) + 1]
  BY RewriteIndex DEF TypeOK
<1> SUFFICES ASSUME NEW i \in 1..Len(commands')
             PROVE  InputPassed(commands'[i]) /\ AsyncPassed(commands'[i])
  BY DEF AllPassed
<1>2. CASE i <= Len(new)
  <2>1. i \in 1..Len(new) /\ commands'[i] = new[i]
    BY <1>1, <1>2
  <2> QED  BY <2>1
<1>3. CASE i > Len(new)
  <2>1. i - Len(new) + 1 \in 1..Len(commands) /\ commands'[i] = commands[i - Len(new) + 1]
    BY <1>1, <1>3
  <2> QED  BY <2>1, OldPassed
<1> QED  BY <1>1, <1>2, <1>3

LEMMA TailPasses ==
  ASSUME TypeOK, commands # <<>>, Replace(<<>>)
  PROVE  AllPassed
<1>1. PICK e : e = <<>>
  OBVIOUS
<1>2. e \in Seq(Command) /\ Len(e) = 0 /\ commands' = e \o Tail(commands)
  BY <1>1, EmptyNone DEF Replace
<1>3. \A i \in 1..Len(e) : InputPassed(e[i]) /\ AsyncPassed(e[i])
  BY <1>2
<1> QED  BY <1>2, <1>3, RewritePasses

LEMMA UnmarkedPasses ==
  ASSUME TypeOK, commands # <<>>, NEW new, Unmarked(new), commands' = new \o Tail(commands)
  PROVE  AllPassed
<1>1. new \in Seq(Command)
      /\ \A i \in 1..Len(new) : new[i].op \notin InputOps /\ new[i].op \notin AsyncOps
  BY DEF Unmarked, NoneOf, Marked
<1>2. \A i \in 1..Len(new) : InputPassed(new[i]) /\ AsyncPassed(new[i])
  BY <1>1 DEF InputPassed, AsyncPassed
<1> QED  BY <1>1, <1>2, RewritePasses

LEMMA CarriesOnPasses ==
  ASSUME TypeOK, commands # <<>>, Top.op \in InputOps, NEW new, CarriesOn(new),
         AllInherit(new), commands' = new \o Tail(commands)
  PROVE  AllPassed
<1>1. /\ new \in Seq(Command) /\ 1 \in 1..Len(commands) /\ Top = commands[1]
      /\ \A i \in 1..Len(new) : new[i].op \notin AsyncOps \cup CallOps
  BY TopIndex DEF CarriesOn, NoneOf, TypeOK
<1>2. \A i \in 1..Len(new) : InputPassed(new[i]) /\ AsyncPassed(new[i])
  BY <1>1 DEF InputPassed, AsyncPassed, Passes, AllInherit
<1> QED  BY <1>1, <1>2, RewritePasses

LEMMA QuietPrepares ==
  ASSUME TypeOK, WorkInOrder, Quiet
  PROVE  Prepares
<1>1. PICK new : Unmarked(new) /\ commands' = new \o Tail(commands)
  BY DEF Quiet
<1>2. AllPassed
  BY <1>1, UnmarkedPasses DEF Quiet
<1>3. (Entering' <=> Entering) /\ ~Entering /\ ~TopIs("resetCallstate")
  BY QuietInOrder DEF Entering
<1> QED  BY <1>2, <1>3 DEF Prepares, Quiet, InstrsKept

LEMMA EntersPrepares ==
  ASSUME TypeOK, WorkInOrder, EntersCall
  PROVE  Prepares
<1>1. commands # <<>> /\ Top.op \in InputOps
  BY DEF EntersCall, InputOps
<1>2. PICK body : /\ CarriesOn(body) /\ AllInherit(body)
                  /\ commands' = (Entry \o body) \o Tail(commands)
  BY DEF EntersCall
<1>3. CarriesOn(body) /\ body \in Seq(Command) /\ Entry \in Seq(Command) /\ Len(Entry) = 3
      /\ Entry[1].op = "pushWorldState" /\ Entry[2].op = "pushCallState"
      /\ Entry[3].op = "resetCallstate"
  BY <1>2, EntryCounts DEF CarriesOn, Entry, Plain
<1>4. PICK new : new = Entry \o body
  OBVIOUS
<1>5. /\ new \in Seq(Command) /\ Len(new) = Len(Entry) + Len(body)
      /\ Len(body) \in Nat
      /\ \A i \in 1..(Len(Entry) + Len(body)) :
           new[i] = IF i <= Len(Entry) THEN Entry[i] ELSE body[i - Len(Entry)]
  BY <1>3, <1>4, ConcatProperties, LenProperties
<1>6. ASSUME NEW i \in 1..Len(new)
      PROVE  InputPassed(new[i]) /\ AsyncPassed(new[i])
  <2>1. CASE i <= 3
    <3>1. i \in {1, 2, 3} /\ new[i] = Entry[i]
      BY <1>3, <1>5, <2>1
    <3>2. new[i].op \in {"pushWorldState", "pushCallState", "resetCallstate"}
      BY <1>3, <3>1
    <3> QED  BY <3>2 DEF InputPassed, AsyncPassed, InputOps, AsyncOps, CallOps
  <2>2. CASE i > 3
    <3>1. new[i] = body[i - 3] /\ i - 3 \in 1..Len(body)
      BY <1>3, <1>5, <2>2
    <3>2. PICK j \in 1..Len(body) : new[i] = body[j]
      BY <3>1
    <3>3. /\ body[j].op \in InputOps => Inherits(body[j], Top)
          /\ body[j].op \notin AsyncOps \cup CallOps
      BY <1>2 DEF AllInherit, CarriesOn, NoneOf
    <3>4. 1 \in 1..Len(commands) /\ Top = commands[1]
      BY <1>1, TopIndex DEF TypeOK
    <3> QED  BY <1>1, <3>2, <3>3, <3>4 DEF InputPassed, AsyncPassed, Passes
  <2> QED  BY <1>3, <1>5, <2>1, <2>2
<1>7. AllPassed
  <2>1. commands' = new \o Tail(commands)
    BY <1>2, <1>4
  <2> QED  BY <1>1, <1>5, <1>6, <2>1, RewritePasses
<1>8. (Entering' <=> Entering) /\ ~TopIs("resetCallstate")
  BY EntersInOrder DEF Entering
<1> QED  BY <1>7, <1>8 DEF Prepares, EntersCall, SameCall

LEMMA HandsOnPrepares ==
  ASSUME TypeOK, WorkInOrder, HandsOn
  PROVE  Prepares
<1>1. commands # <<>> /\ Top.op \in InputOps
  BY DEF HandsOn, InputOps
<1>2. AllPassed
  BY <1>1, CarriesOnPasses DEF HandsOn
<1>3. (Entering' <=> Entering) /\ ~TopIs("resetCallstate")
  BY HandsOnInOrder DEF Entering
<1> QED  BY <1>2, <1>3 DEF Prepares, HandsOn, SameCall

LEMMA ChecksPrepares ==
  ASSUME TypeOK, WorkInOrder, ChecksAsync
  PROVE  Prepares
<1>1. commands # <<>> /\ Top.op = "registerAsyncCall"
  BY DEF ChecksAsync
<1>2. PICK new \in Seq(Command) :
        /\ Len(new) = 7 /\ \A i \in 1..6 : new[i].op = "checkBool"
        /\ new[7].op = "addAsyncCall" /\ new[7].call = Top.call
        /\ commands' = new \o Tail(commands)
  BY DEF ChecksAsync
<1>3. ASSUME NEW i \in 1..Len(new) PROVE InputPassed(new[i]) /\ AsyncPassed(new[i])
  <2>1. CASE i \in 1..6
    <3>1. new[i].op = "checkBool"
      BY <1>2, <2>1
    <3> QED  BY <3>1 DEF InputPassed, AsyncPassed, InputOps, AsyncOps, CallOps
  <2>2. CASE i = 7
    <3>1. 1 \in 1..Len(commands) /\ Top = commands[1] /\ commands[1].op \in AsyncOps
      BY <1>1, TopIndex DEF TypeOK, AsyncOps
    <3>2. new[i].op \notin InputOps /\ new[i].call.func = commands[1].call.func
      BY <1>2, <2>2, <3>1 DEF InputOps, CallOps
    <3> QED  BY <3>1, <3>2 DEF InputPassed, AsyncPassed
  <2>3. i \in 1..6 \/ i = 7
    BY <1>2
  <2> QED  BY <2>1, <2>2, <2>3
<1>4. AllPassed
  BY <1>1, <1>2, <1>3, RewritePasses
<1>5. (Entering' <=> Entering) /\ ~TopIs("resetCallstate")
  BY ChecksInOrder DEF Entering
<1> QED  BY <1>4, <1>5 DEF Prepares, ChecksAsync, SameCall

LEMMA RegistersPrepares ==
  ASSUME TypeOK, WorkInOrder, RegistersAsync
  PROVE  Prepares
<1>1. commands # <<>> /\ Top.op = "endWasm" /\ Top \in Command
  BY TopType DEF RegistersAsync
<1>2. PICK c \in Command : /\ c.op = "registerAsyncCall" /\ \E r \in Calls : c.call.func = r.func
                           /\ commands' = <<c, Top>> \o Tail(commands)
  BY DEF RegistersAsync
<1> DEFINE new == <<c, Top>>
<1>3. new \in Seq(Command) /\ Len(new) = 2 /\ new[1] = c /\ new[2] = Top
  BY <1>1
<1>4. commands' = new \o Tail(commands)
  BY <1>2
<1> HIDE DEF new
<1>5. ASSUME NEW i \in 1..Len(new) PROVE InputPassed(new[i]) /\ AsyncPassed(new[i])
  <2>1. CASE i = 1
    BY <1>2, <1>3, <2>1 DEF InputPassed, AsyncPassed, InputOps, CallOps
  <2>2. CASE i = 2
    BY <1>1, <1>3, <2>2 DEF InputPassed, AsyncPassed, InputOps, AsyncOps, CallOps
  <2> QED  BY <1>3, <2>1, <2>2
<1>6. AllPassed
  BY <1>1, <1>3, <1>4, <1>5, RewritePasses
<1>7. (Entering' <=> Entering) /\ ~Entering /\ ~TopIs("resetCallstate")
  BY RegistersInOrder DEF Entering
<1>8. ~Stopped(callState.instrs)
  BY DEF RegistersAsync, InstrIs, Stopped
<1> QED  BY <1>6, <1>7, <1>8 DEF Prepares, RegistersAsync, SameCall

LEMMA PushWorldPrepares ==
  ASSUME TypeOK, WorkInOrder, PushWorldState
  PROVE  Prepares
<1>1. commands # <<>> /\ AllPassed
  BY TailPasses DEF PushWorldState, TopIs
<1>2. (Entering' <=> Entering) /\ ~TopIs("resetCallstate")
  BY PushWorldInOrder DEF Entering
<1> QED  BY <1>1, <1>2 DEF Prepares, PushWorldState, SameCall

LEMMA ExceptionPrepares ==
  ASSUME TypeOK, WorkInOrder, DoCheckBool \/ ExceptionSkip \/ ExceptionRevert
  PROVE  Prepares
<1>1. (Entering' <=> Entering) /\ ~TopIs("resetCallstate")
  BY CheckInOrder, RevertInOrder DEF Entering
<1>2. /\ commands # <<>> /\ commands \in Seq(Command) /\ UNCHANGED <<callState, callStack>>
  BY DEF DoCheckBool, ExceptionSkip, ExceptionRevert, TopIs, TypeOK
<1>3. CASE DoCheckBool
  <2>1. PICK new \in {<<>>, <<Exception("ExecutionFailed")>>} : commands' = new \o Tail(commands)
    BY <1>3 DEF DoCheckBool, Replace
  <2>2. Unmarked(new)
    BY <2>1, UnmarkedEmpty, UnmarkedException DEF ExceptionCode
  <2>3. AllPassed
    BY <1>2, <2>1, <2>2, UnmarkedPasses
  <2> QED  BY <1>1, <1>2, <2>3 DEF Prepares, SameCall
<1>4. ASSUME NEW new, Unmarked(new), NEW t \in Seq(Command), t # <<>>,
             commands' = new \o Tail(t),
             \A i \in 1..Len(t) : i + 1 \in 1..Len(commands) /\ t[i] = commands[i + 1]
      PROVE  AllPassed
  <2>1. /\ new \in Seq(Command)
        /\ \A i \in 1..Len(new) : new[i].op \notin InputOps /\ new[i].op \notin AsyncOps
    BY <1>4 DEF Unmarked, NoneOf, Marked
  <2>2. /\ commands' \in Seq(Command) /\ Len(commands') = Len(new) + Len(t) - 1
        /\ Len(t) \in Nat \ {0} /\ Len(new) \in Nat
        /\ \A i \in 1..Len(commands') :
             commands'[i] = IF i <= Len(new) THEN new[i] ELSE t[i - Len(new) + 1]
    BY <1>4, <2>1, RewriteIndex
  <2> SUFFICES ASSUME NEW i \in 1..Len(commands')
               PROVE  InputPassed(commands'[i]) /\ AsyncPassed(commands'[i])
    BY DEF AllPassed
  <2>3. CASE i <= Len(new)
    <3>1. i \in 1..Len(new) /\ commands'[i] = new[i]
      BY <2>2, <2>3
    <3> QED  BY <2>1, <3>1 DEF InputPassed, AsyncPassed
  <2>4. CASE i > Len(new)
    <3>1. i - Len(new) + 1 \in 1..Len(t) /\ commands'[i] = t[i - Len(new) + 1]
      BY <2>2, <2>4
    <3>2. PICK j \in 1..Len(t) : commands'[i] = t[j]
      BY <3>1
    <3>3. PICK l \in 1..Len(commands) : commands'[i] = commands[l]
      BY <1>4, <3>2
    <3> QED  BY <3>3, OldPassed
  <2> QED  BY <2>2, <2>3, <2>4
<1>5. CASE ExceptionSkip \/ ExceptionRevert
  <2>1. /\ Tail(commands) \in Seq(Command) /\ Len(Tail(commands)) = Len(commands) - 1
        /\ Len(commands) \in Nat
        /\ \A i \in 1..Len(Tail(commands)) :
             i + 1 \in 2..Len(commands) /\ Tail(commands)[i] = commands[i + 1]
    BY <1>2, TailIndex
  <2>2. PICK t : t = Tail(commands)
    OBVIOUS
  <2>3. Len(commands) > 1
    BY <1>5 DEF ExceptionSkip, ExceptionRevert
  <2>4. t \in Seq(Command) /\ t # <<>>
        /\ \A i \in 1..Len(t) : i + 1 \in 1..Len(commands) /\ t[i] = commands[i + 1]
    <3>1. t \in Seq(Command) /\ Len(t) # 0
      BY <2>1, <2>2, <2>3
    <3>2. t # <<>>
      BY <3>1, EmptySeq
    <3>3. \A i \in 1..Len(t) : i + 1 \in 1..Len(commands) /\ t[i] = commands[i + 1]
      BY <2>1, <2>2
    <3> QED  BY <3>1, <3>2, <3>3
  <2>5. \E new : Unmarked(new) /\ commands' = new \o Tail(t)
    <3>1. CASE ExceptionSkip
      <4>1. Top \in Command /\ Top.op = "exception" /\ commands' = <<Top>> \o Tail(t)
        BY <1>2, <2>2, <3>1, TopType DEF ExceptionSkip, TopIs, Top
      <4> QED  BY <4>1, UnmarkedOne DEF Marked, EntryOps, AsyncOps, InputOps, CallOps
    <3>2. CASE ExceptionRevert
      <4> DEFINE new == <<Plain("popCallState"), Plain("popWorldState")>>
      <4>1. new \in Seq(Command)
        BY PlainType DEF PlainOp
      <4>2. NoneOf(new, Marked)
        BY DEF NoneOf, Plain, Marked, EntryOps, AsyncOps, InputOps, CallOps
      <4>3. commands' = new \o Tail(t)
        BY <2>2, <3>2 DEF ExceptionRevert
      <4> HIDE DEF new
      <4> QED  BY <4>1, <4>2, <4>3 DEF Unmarked
    <3> QED  BY <1>5, <3>1, <3>2
  <2>6. AllPassed
    BY <1>4, <2>4, <2>5
  <2> QED  BY <1>1, <1>2, <2>6 DEF Prepares, SameCall
<1> QED  BY <1>3, <1>5

(* A frame below is there while a call runs, and only then.                  *)
LEMMA BelowTheTop ==
  ASSUME TypeOK, CallsInProgress, WorkInOrder, commands # <<>>, Top.op \notin EntryOps
  PROVE  /\ \A i \in 1..Len(commands) : commands[i].op \notin EntryOps
         /\ Top.op \notin BodyOps \cup CallOps =>
              \A i \in 1..Len(commands) : commands[i].op \notin InputOps
<1>1. /\ commands \in Seq(Command) /\ 1 \in 1..Len(commands) /\ Top = commands[1]
      /\ Len(commands) \in Nat
  BY TopIndex, LenProperties DEF TypeOK
<1>2. PICK m \in 0..Len(commands), n \in 0..Len(commands) : LaidOut(commands, m, n)
  BY DEF CallsInProgress, CommandsLaidOut
<1>3. m = 0
  BY <1>1, <1>2 DEF LaidOut
<1>4. \A i \in 1..Len(commands) : commands[i].op \notin EntryOps
  BY <1>1, <1>2, <1>3 DEF LaidOut
<1>5. ASSUME Top.op \notin BodyOps \cup CallOps, NEW i \in 1..Len(commands)
      PROVE  commands[i].op \notin InputOps
  <2>1. n = 0
    BY <1>1, <1>2, <1>3, <1>5 DEF LaidOut
  <2>2. commands[i].op \notin BodyOps
    BY <1>1, <1>2, <1>3, <2>1 DEF LaidOut
  <2>3. commands[i].op \notin CallOps
    <3>1. EntryAt(commands, i)
      BY DEF WorkInOrder, EntryFirst
    <3> QED  BY <1>1, <1>5, <3>1 DEF EntryAt
  <2> QED  BY <2>2, <2>3 DEF InputOps, BodyOps
<1> QED  BY <1>4, <1>5

LEMMA CallIsSaved ==
  ASSUME TypeOK, CallsInProgress, WorkInOrder, StacksMatchCommands, commands # <<>>,
         Top.op \in BodyOps \cup {"endWasm"}
  PROVE  callStack # <<>> /\ Len(callStack) \in Nat \ {0}
<1>1. /\ commands \in Seq(Command) /\ 1 \in 1..Len(commands) /\ Top = commands[1]
      /\ Len(commands) \in Nat /\ DOMAIN commands = 1..Len(commands)
  BY TopIndex, LenProperties DEF TypeOK
<1>2. Top.op \notin EntryOps
  BY OpsApart
<1>3. PICK m \in 0..Len(commands), n \in 0..Len(commands) : LaidOut(commands, m, n)
  BY DEF CallsInProgress, CommandsLaidOut
<1>4. PICK i \in 1..Len(commands) : commands[i].op = "endWasm"
  <2>1. CASE n > 0
    <3>1. n + 1 \in 1..Len(commands) /\ commands[n + 1].op = "endWasm"
      BY <1>1, <1>3, <2>1 DEF LaidOut
    <3> QED  BY <3>1
  <2>2. CASE n = 0
    <3>1. commands[1].op \notin BodyOps
      BY <1>1, <1>3, <2>2 DEF LaidOut
    <3> QED  BY <1>1, <3>1
  <2> QED  BY <2>1, <2>2
<1>5. Count(commands, PushCall) = 0
  BY <1>1, <1>2, BelowTheTop, CountNone DEF PushCall, EntryOps
<1>6. Count(commands, PopCall) \in Nat \ {0}
  <2>1. i \in PlacesOf(commands, PopCall)
    BY <1>1, <1>4 DEF PlacesOf, PopCall
  <2>2. IsFiniteSet(PlacesOf(commands, PopCall)) /\ Count(commands, PopCall) \in Nat
    BY <1>1, PlacesFinite
  <2>3. Cardinality(PlacesOf(commands, PopCall)) # 0
    BY <2>1, <2>2, FS_EmptySet
  <2> QED  BY <2>2, <2>3 DEF Count
<1>7. Len(callStack) + Count(commands, PushCall) = Count(commands, PopCall)
  BY StacksMatched DEF Matched
<1>8. callStack \in Seq(CallState) /\ Len(callStack) \in Nat
  BY LenProperties DEF TypeOK
<1>9. Len(callStack) # 0
  BY <1>5, <1>6, <1>7, <1>8
<1> QED  BY <1>8, <1>9, EmptySeq

(* ---------------------------- Every step --------------------------------- *)

LEMMA OutputStaysKnown ==
  ASSUME OutputKnown, [Next]_vars
  PROVE  OutputKnown'
<1>1. NoVMOutput.outputAccounts = NoOutputAccounts
  BY DEF NoVMOutput
<1>2. \/ vmOutput' \in {vmOutput, NoVMOutput}
      \/ \E ec : vmOutput' = Failure(ec)
      \/ vmOutput'.returnCode = "OK"
  <2>1. CASE StackStep \/ CheckStep \/ TransferStep
    BY <2>1 DEF StackStep, PushWorldState, PopWorldState, DropWorldState, PushCallState,
       PopCallState, ResetCallstate, CheckStep, DoCheckAccountExists, DoCheckBool,
       ExceptionSkip, ExceptionRevert, TransferStep, TransferFundsSelf, TransferFundsMove,
       TransferFundsOutOfFunds, DoTransferESDTs, DoCheckESDTBalance, DoAddToESDTBalance,
       DoAppendToOutAccount
  <2>2. CASE CallStep
    BY <2>2 DEF CallStep, DoCallContract, CallContractAux, CallContractAuxBuiltin,
       CallContractAuxErrCallback, CallContractAuxNotContract, DoCallContractCb,
       NewWasmInstance, WaitWasm, MkCall, MkCallFuncNotFound, EndWasm, SetVMOutput,
       DoProcessBuiltinFunction, DetermineIsSCCallAfter
  <2>3. CASE AsyncStep
    BY <2>3 DEF AsyncStep, RegisterAsyncCall, AddAsyncCall, AsyncExecute,
       ExecuteAsyncLocalCalls, DropAsyncLocalCall, ExecuteAsyncLocalCall,
       ExecuteAsyncLocalCallback, MergeOutputs
  <2>4. CASE CodeStep
    BY <2>4 DEF CodeStep, InitModule, WaitCommands, FinishExecuteOnDestOk,
       FinishExecuteOnDestException, Return, Throw, Finish, CleanReturnData, TransferValue,
       ExecuteOnDestContext, CreateAsyncCall, ManagedAsyncCall, CreateAsyncCallWith,
       HostCommands
  <2> QED  BY <2>1, <2>2, <2>3, <2>4 DEF Next, Step, CallTx, Finished, vars
<1> QED  BY <1>1, <1>2 DEF OutputKnown, Failure

StepKind ==
  \/ Prepares \/ BuiltinCalls \/ MkCall \/ AddAsyncCall \/ DropAsyncLocalCall
  \/ CallsAsync \/ CallsBack \/ CallsDirectly
  \/ PushCallState \/ PopCallState \/ ResetCallstate

LEMMA StepsHaveKind ==
  ASSUME TypeOK, CallsInProgress, WorkInOrder, OutputKnown, Step
  PROVE  WorkInOrder' /\ StepKind
<1>1. CASE Quiet
  BY <1>1, QuietInOrder, QuietPrepares DEF StepKind
<1>2. CASE StackStep
  <2>1. CASE PushWorldState
    BY <2>1, PushWorldInOrder, PushWorldPrepares DEF StepKind
  <2>2. CASE PopWorldState \/ DropWorldState
    BY <1>1, <2>2, PlainQuiet
  <2>3. CASE PushCallState \/ PopCallState \/ ResetCallstate
    BY <2>3, MoreInOrder DEF StepKind
  <2> QED  BY <1>2, <2>1, <2>2, <2>3 DEF StackStep
<1>3. CASE CheckStep
  <2>1. CASE DoCheckAccountExists
    BY <1>1, <2>1, PlainQuiet
  <2>2. CASE DoCheckBool \/ ExceptionSkip \/ ExceptionRevert
    BY <2>2, CheckInOrder, RevertInOrder, ExceptionPrepares DEF StepKind
  <2> QED  BY <1>3, <2>1, <2>2 DEF CheckStep
<1>4. CASE TransferStep
  BY <1>1, <1>4, TransferQuiet
<1>5. CASE CallStep
  <2>1. CASE EntersCall
    BY <2>1, EntersInOrder, EntersPrepares DEF StepKind
  <2>2. CASE HandsOn
    BY <2>2, HandsOnInOrder, HandsOnPrepares DEF StepKind
  <2>3. CASE BuiltinCalls
    BY <2>3, HandsOnInOrder DEF StepKind
  <2>4. CASE MkCall
    BY <2>4, MoreInOrder DEF StepKind
  <2> QED  BY <1>1, <1>5, <2>1, <2>2, <2>3, <2>4, CallQuiet
<1>6. CASE CallsAsync \/ CallsBack \/ CallsDirectly
  <2>1. PICK c : MakesCall(c)
    BY <1>6 DEF CallsAsync, CallsBack, CallsDirectly
  <2>2. Top.op \in {"executeAsyncLocalCall", "executeAsyncLocalCallback", "endWasm"}
    BY <1>6 DEF CallsAsync, CallsBack, CallsDirectly
  <2> QED  BY <1>6, <2>1, <2>2, CallInOrder DEF StepKind
<1>7. CASE AsyncStep
  <2>1. CASE ChecksAsync
    BY <2>1, ChecksInOrder, ChecksPrepares DEF StepKind
  <2>2. CASE AddAsyncCall \/ DropAsyncLocalCall
    BY <2>2, MoreInOrder DEF StepKind
  <2> QED  BY <1>1, <1>6, <1>7, <2>1, <2>2, AsyncQuiet
<1>8. CASE CodeStep
  <2>1. CASE RegistersAsync
    BY <2>1, RegistersInOrder, RegistersPrepares DEF StepKind
  <2> QED  BY <1>1, <1>6, <1>8, <2>1, CodeQuiet
<1> QED  BY <1>2, <1>3, <1>4, <1>5, <1>7, <1>8 DEF Step

LEMMA PushedFrames ==
  ASSUME TypeOK, PushCallState
  PROVE  /\ callStack' \in Seq(CallState) /\ callStack' # <<>> /\ Head(callStack') = callState
         /\ Len(callStack) \in Nat /\ Len(callStack') = Len(callStack) + 1
         /\ callStack'[1] = callState
         /\ \A i \in 2..Len(callStack') :
              i - 1 \in 1..Len(callStack) /\ callStack'[i] = callStack[i - 1]
<1> DEFINE one == <<callState>>
<1>1. /\ one \in Seq(CallState) /\ Len(one) = 1 /\ one[1] = callState
      /\ callStack \in Seq(CallState) /\ Len(callStack) \in Nat
  BY LenProperties DEF TypeOK
<1>2. callStack' = one \o callStack
  BY DEF PushCallState
<1> HIDE DEF one
<1>3. /\ callStack' \in Seq(CallState) /\ Len(callStack') = Len(one) + Len(callStack)
      /\ \A i \in 1..(Len(one) + Len(callStack)) :
           callStack'[i] = IF i <= Len(one) THEN one[i] ELSE callStack[i - Len(one)]
  BY <1>1, <1>2, ConcatProperties
<1>4. callStack'[1] = callState /\ Len(callStack') = Len(callStack) + 1
  BY <1>1, <1>3
<1>5. callStack' # <<>> /\ Head(callStack') = callState
  <2>1. callStack' \in Seq(CallState) /\ Len(callStack') # 0
    BY <1>1, <1>3
  <2> QED  BY <1>4, <2>1, EmptySeq, HeadTailProperties
<1>6. ASSUME NEW i \in 2..Len(callStack')
      PROVE  i - 1 \in 1..Len(callStack) /\ callStack'[i] = callStack[i - 1]
  BY <1>1, <1>3
<1> QED  BY <1>1, <1>3, <1>4, <1>5, <1>6

LEMMA PoppedFrames ==
  ASSUME TypeOK, PopCallState
  PROVE  /\ callStack # <<>> /\ Len(callStack) \in Nat \ {0} /\ callState' = callStack[1]
         /\ callStack' \in Seq(CallState) /\ Len(callStack') = Len(callStack) - 1
         /\ \A i \in 1..Len(callStack') :
              i + 1 \in 2..Len(callStack) /\ callStack'[i] = callStack[i + 1]
         /\ callStack' # <<>> => /\ Len(callStack) > 1 /\ Head(callStack') = callStack[2]
                                 /\ 1 \in 1..Len(callStack')
<1>1. /\ callStack \in Seq(CallState) /\ callStack # <<>> /\ callState' = Head(callStack)
      /\ callStack' = Tail(callStack)
  BY DEF PopCallState, TypeOK
<1>2. Len(callStack) \in Nat \ {0}
  BY <1>1, EmptySeq
<1>3. /\ Head(callStack) = callStack[1]
      /\ callStack' \in Seq(CallState) /\ Len(callStack') = Len(callStack) - 1
      /\ \A i \in 1..Len(callStack') : callStack'[i] = callStack[i + 1]
  BY <1>1, HeadTailProperties
<1>4. ASSUME callStack' # <<>>
      PROVE  /\ Len(callStack) > 1 /\ Head(callStack') = callStack[2]
             /\ 1 \in 1..Len(callStack')
  <2>1. Len(callStack') \in Nat \ {0} /\ Head(callStack') = callStack'[1]
    BY <1>3, <1>4, EmptySeq, HeadTailProperties
  <2>2. 1 \in 1..Len(callStack') /\ Len(callStack) > 1
    BY <1>2, <1>3, <2>1
  <2>3. callStack'[1] = callStack[1 + 1]
    BY <1>3, <2>2
  <2>4. 1 + 1 = 2
    OBVIOUS
  <2> QED  BY <2>1, <2>2, <2>3, <2>4
<1> QED  BY <1>1, <1>2, <1>3, <1>4

(* The call state is reset right after it is pushed.                          *)
LEMMA ResetFollows ==
  ASSUME TypeOK, WorkInOrder, PushCallState
  PROVE  TopIs("resetCallstate")'
<1>0. commands # <<>> /\ Replace(<<>>)
  BY DEF PushCallState, TopIs
<1>1. 1 \in 1..Len(commands) /\ commands[1].op = "pushCallState"
  BY TopIndex DEF PushCallState, TopIs, Top, TypeOK
<1>2. EntryAt(commands, 1)
  BY <1>1 DEF WorkInOrder, EntryFirst
<1>3. 1 + 1 \in 1..Len(commands) /\ commands[1 + 1].op = "resetCallstate"
  BY <1>1, <1>2 DEF EntryAt
<1>4. /\ commands' \in Seq(Command) /\ Len(commands') = Len(commands) - 1
      /\ Len(commands) \in Nat
      /\ \A i \in 1..Len(commands') : commands'[i] = commands[i + 1]
  BY <1>0, PopsTop, TailIndex DEF TypeOK
<1>5. 1 \in 1..Len(commands')
  BY <1>3, <1>4
<1>6. commands'[1].op = "resetCallstate"
  BY <1>3, <1>4, <1>5
<1>7. commands' # <<>> /\ Head(commands') = commands'[1]
  <2>1. Len(commands') # 0
    BY <1>4, <1>5
  <2> QED  BY <1>4, <2>1, EmptySeq, HeadTailProperties
<1> QED  BY <1>6, <1>7 DEF TopIs

(* The frame below, by index.                                                *)
LEMMA FrameBelow ==
  ASSUME callStack \in Seq(CallState)
  PROVE  /\ callStack # <<>> <=> 1 \in 1..Len(callStack)
         /\ callStack # <<>> => Head(callStack) = callStack[1]
<1>1. callStack # <<>> => Len(callStack) \in Nat \ {0} /\ Head(callStack) = callStack[1]
  BY EmptySeq, HeadTailProperties
<1>2. callStack = <<>> => Len(callStack) = 0
  BY EmptySeq
<1> QED  BY <1>1, <1>2

LEMMA OnlyCall ==
  ASSUME TypeOK, CallsInProgress, WorkInOrder, NEW c, MakesCall(c),
         Top.op \in {"executeAsyncLocalCall", "executeAsyncLocalCallback", "endWasm"}
  PROVE  \A i \in 1..Len(commands') :
           /\ commands'[i].op \in InputOps => commands'[i] = c
           /\ commands'[i].op \notin AsyncOps
<1>1. /\ commands # <<>> /\ c.op \in CallOps
      /\ Top.op \notin EntryOps \cup BodyOps \cup CallOps
  BY DEF MakesCall, EntryOps, BodyOps, CallOps
<1>2. \A i \in 1..Len(commands) : commands[i].op \notin InputOps
  BY <1>1, BelowTheTop
<1>3. RestUnplaced
  BY <1>1, PlacesOnTop
<1>4. PICK new \in Seq(Command) :
        /\ Len(new) # 0 /\ new[1] = c
        /\ \A i \in 1..Len(new) : i # 1 => new[i].op \notin Marked
        /\ commands' = new \o Tail(commands)
  BY DEF MakesCall
<1>5. /\ commands' \in Seq(Command) /\ Len(commands') = Len(new) + Len(commands) - 1
      /\ Len(commands) \in Nat \ {0} /\ Len(new) \in Nat
      /\ \A i \in 1..Len(commands') :
           commands'[i] = IF i <= Len(new) THEN new[i] ELSE commands[i - Len(new) + 1]
  BY <1>1, <1>4, RewriteIndex DEF TypeOK
<1> SUFFICES ASSUME NEW i \in 1..Len(commands')
             PROVE  /\ commands'[i].op \in InputOps => commands'[i] = c
                    /\ commands'[i].op \notin AsyncOps
  OBVIOUS
<1>6. CASE i <= Len(new)
  <2>1. commands'[i] = new[i] /\ i \in 1..Len(new)
    BY <1>5, <1>6
  <2>2. CASE i = 1
    BY <1>1, <1>4, <2>1, <2>2 DEF AsyncOps, CallOps
  <2>3. CASE i # 1
    BY <1>4, <2>1, <2>3 DEF Marked
  <2> QED  BY <2>2, <2>3
<1>7. CASE i > Len(new)
  <2>1. i - Len(new) + 1 \in 2..Len(commands) /\ commands'[i] = commands[i - Len(new) + 1]
    BY <1>5, <1>7
  <2>2. PICK j \in 2..Len(commands) : commands'[i] = commands[j]
    BY <2>1
  <2>3. j \in 1..Len(commands)
    BY <1>5
  <2> QED  BY <1>2, <1>3, <2>2, <2>3 DEF RestUnplaced, PlacedOps
<1> QED  BY <1>5, <1>6, <1>7

(* ------------------------ Callbacks answer calls ------------------------- *)

LEMMA PassedAnswers ==
  ASSUME CallbacksInOrder, NEW c, InputPassed(c), c.op \in InputOps, IsCallBack(c.input)
  PROVE  IF Entering THEN Answers(callState, c.to, c.func, c.input)
                     ELSE HasParent(c.to, c.func, c.input)
<1>1. PICK j \in 1..Len(commands) : Passes(c, commands[j])
  BY DEF InputPassed
<1> DEFINE d == commands[j]
<1>2. d.op \in InputOps /\ d.to = c.to /\ d.func = c.func /\ d.input = c.input
  BY <1>1 DEF Passes, Inherits
<1>3. CommandAnswers(d)
  BY DEF CallbacksInOrder
<1> HIDE DEF d
<1> QED  BY <1>2, <1>3 DEF CommandAnswers

LEMMA CallbacksStep ==
  ASSUME TypeOK, CallsInProgress, WorkInOrder, CallbacksInOrder, StepKind, OutputKnown'
  PROVE  CallbacksInOrder'
<1>1. ASSUME \A i \in 1..Len(commands') : CommandAnswers(commands[i])',
             IsCallBack(callState'.vmInput) /\ ~TopIs("resetCallstate")' =>
               HasParent(callState.callee, callState.function, callState.vmInput)',
             \A i \in 1..Len(callStack') : IsCallBack(callStack'[i].vmInput) =>
               /\ i + 1 \in 1..Len(callStack')
               /\ Answers(callStack'[i + 1], callStack'[i].callee, callStack'[i].function,
                          callStack'[i].vmInput)
      PROVE  CallbacksInOrder'
  BY <1>1 DEF CallbacksInOrder, OutputKnown
<1>2. ASSUME AllPassed, callStack' = callStack, Entering' <=> Entering,
             Entering => callState' = callState
      PROVE  \A i \in 1..Len(commands') : CommandAnswers(commands[i])'
  <2> SUFFICES ASSUME NEW i \in 1..Len(commands'), commands'[i].op \in InputOps,
                      IsCallBack(commands'[i].input)
               PROVE  CommandAnswers(commands[i])'
    BY DEF CommandAnswers
  <2>1. PICK c : c = commands'[i]
    OBVIOUS
  <2>2. InputPassed(c)
    BY <1>2, <2>1 DEF AllPassed
  <2>3. IF Entering THEN Answers(callState, c.to, c.func, c.input)
                    ELSE HasParent(c.to, c.func, c.input)
    BY <2>1, <2>2, PassedAnswers
  <2>4. IF Entering' THEN Answers(callState', c.to, c.func, c.input)
                     ELSE HasParent(c.to, c.func, c.input)'
    BY <1>2, <2>3 DEF HasParent
  <2> QED  BY <2>1, <2>4 DEF CommandAnswers
<1>3. ASSUME callStack' = callStack
      PROVE  \A i \in 1..Len(callStack') : IsCallBack(callStack'[i].vmInput) =>
               /\ i + 1 \in 1..Len(callStack')
               /\ Answers(callStack'[i + 1], callStack'[i].callee, callStack'[i].function,
                          callStack'[i].vmInput)
  BY <1>3 DEF CallbacksInOrder
<1>4. ASSUME SameCall, ~TopIs("resetCallstate")
      PROVE  IsCallBack(callState'.vmInput) /\ ~TopIs("resetCallstate")' =>
               HasParent(callState.callee, callState.function, callState.vmInput)'
  BY <1>4 DEF SameCall, HasParent, CallbacksInOrder
<1>5. CASE Prepares
  BY <1>1, <1>2, <1>3, <1>4, <1>5 DEF Prepares, SameCall
<1>6. CASE BuiltinCalls
  <2>1. callStack' = callStack /\ callState' = callState /\ ~Entering /\ ~Entering'
        /\ ~TopIs("resetCallstate") /\ commands # <<>>
    BY <1>6, HandsOnInOrder DEF BuiltinCalls
  <2>2. PICK new : /\ CarriesOn(new) /\ commands' = new \o Tail(commands)
                   /\ \A i \in 1..Len(new) : new[i].op \in InputOps =>
                        new[i].op = "mkCall" /\ new[i].input.callType = "DirectCall"
    BY <1>6 DEF BuiltinCalls
  <2>3. /\ Len(commands') = Len(new) + Len(commands) - 1
        /\ Len(commands) \in Nat \ {0} /\ Len(new) \in Nat
        /\ \A i \in 1..Len(commands') :
             commands'[i] = IF i <= Len(new) THEN new[i] ELSE commands[i - Len(new) + 1]
    BY <2>1, <2>2, RewriteIndex DEF TypeOK, CarriesOn
  <2>4. ASSUME NEW i \in 1..Len(commands') PROVE CommandAnswers(commands[i])'
    <3>1. CASE i <= Len(new)
      <4>1. commands'[i] = new[i] /\ i \in 1..Len(new)
        BY <2>3, <3>1
      <4> QED  BY <2>2, <4>1 DEF CommandAnswers, IsCallBack
    <3>2. CASE i > Len(new)
      <4>1. commands'[i] = commands[i - Len(new) + 1] /\ i - Len(new) + 1 \in 1..Len(commands)
        BY <2>3, <3>2
      <4>2. PICK j \in 1..Len(commands) : commands'[i] = commands[j]
        BY <4>1
      <4>3. CommandAnswers(commands[j])
        BY DEF CallbacksInOrder
      <4> QED  BY <2>1, <4>2, <4>3 DEF CommandAnswers, HasParent
    <3> QED  BY <2>3, <3>1, <3>2
  <2> QED  BY <1>1, <1>3, <1>4, <2>1, <2>4 DEF SameCall
<1>7. CASE MkCall \/ AddAsyncCall \/ DropAsyncLocalCall
  <2>1. /\ ~Entering /\ ~Entering' /\ ~TopIs("resetCallstate")
        /\ commands # <<>> /\ Replace(<<>>) /\ callStack' = callStack
        /\ callState \in CallState
    BY <1>7, MoreInOrder DEF MkCall, AddAsyncCall, DropAsyncLocalCall, TopIs, TypeOK
  <2>2. AllPassed
    BY <2>1, TailPasses
  <2>3. CASE AddAsyncCall \/ DropAsyncLocalCall
    <3>1. /\ callState'.callee = callState.callee /\ callState'.function = callState.function
          /\ callState'.vmInput = callState.vmInput
      BY <2>1, <2>3 DEF AddAsyncCall, DropAsyncLocalCall, CallState
    <3>2. IsCallBack(callState'.vmInput) =>
            HasParent(callState.callee, callState.function, callState.vmInput)'
      BY <2>1, <3>1 DEF CallbacksInOrder, HasParent
    <3> QED  BY <1>1, <1>2, <1>3, <2>1, <2>2, <3>2
  <2>4. CASE MkCall
    <3>1. /\ callState'.callee = Top.to /\ callState'.function = Top.func
          /\ callState'.vmInput = Top.input /\ Top.op = "mkCall"
      BY <2>1, <2>4 DEF MkCall, CallState, TopIs, Top
    <3>2. CommandAnswers(Top)
      BY <2>1, TopIndex DEF CallbacksInOrder, TypeOK
    <3>3. IsCallBack(callState'.vmInput) =>
            HasParent(callState.callee, callState.function, callState.vmInput)'
      BY <2>1, <3>1, <3>2 DEF CommandAnswers, InputOps, HasParent
    <3> QED  BY <1>1, <1>2, <1>3, <2>1, <2>2, <3>3
  <2> QED  BY <1>7, <2>3, <2>4
<1>8. CASE CallsAsync \/ CallsBack \/ CallsDirectly
  <2>1. PICK c : /\ MakesCall(c)
                 /\ IsCallBack(c.input) => Answers(callState, c.to, c.func, c.input)
    <3>1. CASE CallsBack
      BY <3>1 DEF CallsBack
    <3>2. CASE CallsAsync \/ CallsDirectly
      BY <3>2 DEF CallsAsync, CallsDirectly, IsCallBack
    <3> QED  BY <1>8, <3>1, <3>2
  <2>2. Top.op \in {"executeAsyncLocalCall", "executeAsyncLocalCallback", "endWasm"}
    BY <1>8 DEF CallsAsync, CallsBack, CallsDirectly
  <2>3. Entering' /\ ~TopIs("resetCallstate") /\ SameCall /\ callStack' = callStack
    BY <2>1, <2>2, CallInOrder DEF MakesCall, SameCall
  <2>4. \A i \in 1..Len(commands') : commands'[i].op \in InputOps => commands'[i] = c
    BY <2>1, <2>2, OnlyCall
  <2>5. IsCallBack(c.input) => Answers(callState', c.to, c.func, c.input)
    BY <2>1, <2>3 DEF Answers, SameCall
  <2>6. \A i \in 1..Len(commands') : CommandAnswers(commands[i])'
    BY <2>3, <2>4, <2>5 DEF CommandAnswers
  <2> QED  BY <1>1, <1>3, <1>4, <2>3, <2>6
<1>9. CASE PushCallState
  <2>1. /\ Entering /\ ~Entering' /\ ~TopIs("resetCallstate")
        /\ commands # <<>> /\ Replace(<<>>) /\ callState' = callState
    BY <1>9, MoreInOrder DEF PushCallState, TopIs
  <2>2. AllPassed
    BY <2>1, TailPasses
  <2>3. callStack' # <<>> /\ Head(callStack') = callState
    BY <1>9, PushedFrames
  <2>4. ASSUME NEW i \in 1..Len(commands') PROVE CommandAnswers(commands[i])'
    <3> SUFFICES ASSUME commands'[i].op \in InputOps, IsCallBack(commands'[i].input)
                 PROVE  HasParent(commands[i].to, commands[i].func, commands[i].input)'
      BY <2>1 DEF CommandAnswers
    <3>1. PICK c : c = commands'[i]
      OBVIOUS
    <3>2. InputPassed(c)
      BY <2>2, <3>1 DEF AllPassed
    <3>3. Answers(callState, c.to, c.func, c.input)
      BY <2>1, <3>1, <3>2, PassedAnswers
    <3> QED  BY <2>3, <3>1, <3>3 DEF HasParent
  <2>5. TopIs("resetCallstate")'
    BY <1>9, ResetFollows
  <2>6. ASSUME NEW i \in 1..Len(callStack'), IsCallBack(callStack'[i].vmInput)
        PROVE  /\ i + 1 \in 1..Len(callStack')
               /\ Answers(callStack'[i + 1], callStack'[i].callee, callStack'[i].function,
                          callStack'[i].vmInput)
    <3>1. CASE i = 1
      <4>1. HasParent(callState.callee, callState.function, callState.vmInput)
        BY <1>9, <2>1, <2>6, <3>1, PushedFrames DEF CallbacksInOrder
      <4>2. 1 \in 1..Len(callStack) /\ Head(callStack) = callStack[1]
        BY <4>1, FrameBelow DEF HasParent, TypeOK
      <4>3. 2 \in 2..Len(callStack')
        BY <1>9, <4>2, PushedFrames
      <4>4. callStack'[2] = callStack[2 - 1] /\ callStack'[1] = callState
        BY <1>9, <4>3, PushedFrames
      <4>5. 2 - 1 = 1 /\ 1 + 1 = 2
        OBVIOUS
      <4>6. callStack'[2] = Head(callStack)
        BY <4>2, <4>4, <4>5
      <4>7. Answers(callStack'[2], callStack'[1].callee, callStack'[1].function,
                    callStack'[1].vmInput)
        BY <4>1, <4>4, <4>6 DEF HasParent
      <4> QED  BY <3>1, <4>3, <4>5, <4>7
    <3>2. CASE i # 1
      <4>1. i \in 2..Len(callStack')
        BY <3>2
      <4>2. PICK j \in 1..Len(callStack) : j = i - 1 /\ callStack'[i] = callStack[j]
        BY <1>9, <4>1, PushedFrames
      <4>3. /\ j + 1 \in 1..Len(callStack)
            /\ Answers(callStack[j + 1], callStack[j].callee, callStack[j].function,
                       callStack[j].vmInput)
        BY <2>6, <4>2 DEF CallbacksInOrder
      <4>4. i + 1 \in 2..Len(callStack') /\ (i + 1) - 1 = j + 1
        BY <1>9, <4>1, <4>2, <4>3, PushedFrames
      <4>5. callStack'[i + 1] = callStack[(i + 1) - 1]
        BY <1>9, <4>4, PushedFrames
      <4>6. callStack'[i + 1] = callStack[j + 1]
        BY <4>4, <4>5
      <4> QED  BY <4>2, <4>3, <4>4, <4>6
    <3> QED  BY <3>1, <3>2
  <2> QED  BY <1>1, <2>4, <2>5, <2>6
<1>10. CASE PopCallState
  <2>1. /\ ~Entering /\ ~Entering' /\ commands # <<>> /\ Replace(<<>>)
        /\ Top.op = "popCallState"
    BY <1>10, MoreInOrder DEF PopCallState, TopIs, Top
  <2>2. \A i \in 1..Len(commands') : CommandAnswers(commands[i])'
    <3>1. \A i \in 1..Len(commands) : commands[i].op \notin InputOps
      BY <2>1, BelowTheTop DEF EntryOps, BodyOps, CallOps
    <3>2. \A i \in 1..Len(commands') : i + 1 \in 2..Len(commands) /\ commands'[i] = commands[i + 1]
      BY <2>1, PopsTop, TailIndex DEF TypeOK
    <3>3. Len(commands) \in Nat
      BY LenProperties DEF TypeOK
    <3>4. \A i \in 1..Len(commands') : commands'[i].op \notin InputOps
      BY <3>1, <3>2, <3>3
    <3> QED  BY <3>4 DEF CommandAnswers
  <2>3. ASSUME NEW i \in 1..Len(callStack), IsCallBack(callStack[i].vmInput)
        PROVE  /\ i + 1 \in 1..Len(callStack)
               /\ Answers(callStack[i + 1], callStack[i].callee, callStack[i].function,
                          callStack[i].vmInput)
    BY <2>3 DEF CallbacksInOrder
  <2>4. IsCallBack(callState'.vmInput) =>
          HasParent(callState.callee, callState.function, callState.vmInput)'
    <3> SUFFICES ASSUME IsCallBack(callState'.vmInput)
                 PROVE  HasParent(callState.callee, callState.function, callState.vmInput)'
      OBVIOUS
    <3>1. callState' = callStack[1] /\ 1 \in 1..Len(callStack)
      BY <1>10, PoppedFrames
    <3>2. /\ 1 + 1 \in 1..Len(callStack)
          /\ Answers(callStack[1 + 1], callState'.callee, callState'.function,
                     callState'.vmInput)
      BY <2>3, <3>1
    <3>3. 1 + 1 = 2
      OBVIOUS
    <3>4. callStack' # <<>>
      <4>1. Len(callStack') # 0
        BY <1>10, <3>2, PoppedFrames
      <4> QED  BY <4>1, EmptySeq
    <3>5. Head(callStack') = callStack[1 + 1]
      BY <1>10, <3>3, <3>4, PoppedFrames
    <3> QED  BY <3>2, <3>4, <3>5 DEF HasParent
  <2>5. ASSUME NEW i \in 1..Len(callStack'), IsCallBack(callStack'[i].vmInput)
        PROVE  /\ i + 1 \in 1..Len(callStack')
               /\ Answers(callStack'[i + 1], callStack'[i].callee, callStack'[i].function,
                          callStack'[i].vmInput)
    <3>1. PICK j \in 1..Len(callStack) : j = i + 1 /\ callStack'[i] = callStack[j]
      BY <1>10, PoppedFrames
    <3>2. /\ j + 1 \in 1..Len(callStack)
          /\ Answers(callStack[j + 1], callStack[j].callee, callStack[j].function,
                     callStack[j].vmInput)
      BY <2>3, <2>5, <3>1
    <3>3. i + 1 \in 1..Len(callStack') /\ (i + 1) + 1 = j + 1
      BY <1>10, <3>1, <3>2, PoppedFrames
    <3>4. callStack'[i + 1] = callStack[(i + 1) + 1]
      BY <1>10, <3>3, PoppedFrames
    <3>5. callStack'[i + 1] = callStack[j + 1]
      BY <3>3, <3>4
    <3> QED  BY <3>1, <3>2, <3>3, <3>5
  <2> QED  BY <1>1, <2>2, <2>4, <2>5
<1>11. CASE ResetCallstate
  <2>1. /\ ~Entering /\ ~Entering' /\ commands # <<>> /\ Replace(<<>>)
        /\ callState' = DefaultCallState /\ callStack' = callStack
    BY <1>11, MoreInOrder DEF ResetCallstate, TopIs
  <2>2. AllPassed
    BY <2>1, TailPasses
  <2>3. ~IsCallBack(callState'.vmInput)
    BY <2>1 DEF DefaultCallState, DefaultVmInput, IsCallBack
  <2> QED  BY <1>1, <1>2, <1>3, <2>1, <2>2, <2>3
<1> QED  BY <1>5, <1>6, <1>7, <1>8, <1>9, <1>10, <1>11 DEF StepKind

(* The call a transaction starts with.                                       *)
LEMMA CallTxCall ==
  ASSUME TypeOK, CallTx
  PROVE  /\ commands = <<>> /\ NoInstrs /\ UNCHANGED <<callState, callStack, vmOutput>>
         /\ txCount' = txCount + 1
         /\ \E c : /\ commands' = <<c>> /\ c.op = "callContract"
                   /\ c.input.callType = "DirectCall" /\ c.input.txHash = txCount'
                   /\ \E r \in Calls : c.func = r.func
<1>1. PICK from \in Senders, r \in Calls :
        commands' = <<Call("callContract", r.dest, r.func,
                           [caller |-> from, callValue |-> r.value,
                            callType |-> "DirectCall", esdtTransfers |-> r.esdt,
                            callArgs |-> r.args, txHash |-> txCount + 1])>>
  BY DEF CallTx
<1> DEFINE c == Call("callContract", r.dest, r.func,
                     [caller |-> from, callValue |-> r.value, callType |-> "DirectCall",
                      esdtTransfers |-> r.esdt, callArgs |-> r.args,
                      txHash |-> txCount + 1])
<1>2. /\ c.op = "callContract" /\ c.input.callType = "DirectCall"
      /\ c.input.txHash = txCount + 1 /\ c.func = r.func
  BY DEF Call
<1>3. commands' = <<c>> /\ txCount' = txCount + 1
  BY <1>1 DEF CallTx
<1> HIDE DEF c
<1> QED  BY <1>2, <1>3 DEF CallTx, Idle

LEMMA CallbacksStayInOrder == Spec => [](WorkInOrder /\ CallbacksInOrder)
<1> DEFINE Inv == WorkInOrder /\ CallbacksInOrder
<1>1. Init => Inv
  <2> SUFFICES ASSUME Init PROVE Inv
    OBVIOUS
  <2>1. commands = <<>> /\ Len(commands) = 0 /\ callStack = <<>> /\ Len(callStack) = 0
    BY EmptySeq DEF Init
  <2>2. \A i \in 1..Len(commands) : FALSE
    BY <2>1
  <2>3. \A i \in 1..Len(callStack) : FALSE
    BY <2>1
  <2>4. WorkInOrder
    BY <2>2 DEF WorkInOrder, EntryFirst, AsyncFirst, AddsAreChecked
  <2>5. ~IsCallBack(callState.vmInput) /\ vmOutput.outputAccounts = NoOutputAccounts
    BY DEF Init, DefaultCallState, DefaultVmInput, IsCallBack, NoVMOutput
  <2> QED  BY <2>2, <2>3, <2>4, <2>5 DEF CallbacksInOrder
<1>2. TypeOK /\ CallsInProgress /\ Inv /\ [Next]_vars => Inv'
  <2> SUFFICES ASSUME TypeOK, CallsInProgress, WorkInOrder, CallbacksInOrder, [Next]_vars
               PROVE  Inv'
    OBVIOUS
  <2>1. CASE UNCHANGED vars \/ Finished
    <3>1. UNCHANGED <<commands, callState, callStack, vmOutput>>
      BY <2>1 DEF Finished, vars
    <3>2. WorkInOrder'
      BY <3>1 DEF WorkInOrder, AddsAreChecked, IsMultilevelAsync, InstrIs
    <3>3. CallbacksInOrder'
      BY <3>1 DEF CallbacksInOrder, CommandAnswers, Entering, Top, TopIs, HasParent
    <3> QED  BY <3>2, <3>3
  <2>2. OutputKnown /\ OutputKnown'
    <3>1. OutputKnown
      BY DEF CallbacksInOrder, OutputKnown
    <3> QED  BY <3>1, OutputStaysKnown
  <2>3. CASE CallTx
    <3>1. WorkInOrder' /\ Entering' /\ ~TopIs("resetCallstate")
      BY <2>3, CallTxInOrder
    <3>2. /\ UNCHANGED <<callState, callStack>>
          /\ \E c : commands' = <<c>> /\ c.input.callType = "DirectCall"
      BY <2>3, CallTxCall
    <3>3. \A i \in 1..Len(commands') : CommandAnswers(commands[i])'
      BY <3>2 DEF CommandAnswers, IsCallBack
    <3>4. IsCallBack(callState'.vmInput) =>
            HasParent(callState.callee, callState.function, callState.vmInput)'
      BY <3>1, <3>2 DEF CallbacksInOrder, HasParent
    <3>5. \A i \in 1..Len(callStack') : IsCallBack(callStack'[i].vmInput) =>
            /\ i + 1 \in 1..Len(callStack')
            /\ Answers(callStack'[i + 1], callStack'[i].callee, callStack'[i].function,
                       callStack'[i].vmInput)
      BY <3>2 DEF CallbacksInOrder
    <3> QED  BY <2>2, <3>1, <3>3, <3>4, <3>5 DEF CallbacksInOrder, OutputKnown
  <2>4. CASE Step
    BY <2>2, <2>4, StepsHaveKind, CallbacksStep
  <2> QED  BY <2>1, <2>3, <2>4 DEF Next
<1> QED  BY <1>1, <1>2, TypeCorrect, CallsStayInProgress, PTL DEF Spec

(* While a callback runs, the first async call of the frame below is the one *)
(* it answers, so managedGetCallbackClosure returns its closure; its name is *)
(* a callback of that call, and value is only reported to the callback of a  *)
(* call that succeeded: whatever the calls, the contracts and the ledger.    *)
THEOREM CallbacksAnswer == Spec => []CallbackAnswersParentCall
<1>1. TypeOK /\ CallsInProgress /\ CallbacksInOrder => CallbackAnswersParentCall
  <2> SUFFICES ASSUME TypeOK, CallsInProgress, CallbacksInOrder, InstrIs("code"),
                      callState.vmInput.callType = "AsynchronousCallBack"
               PROVE  HasParent(callState.callee, callState.function, callState.vmInput)
    BY DEF CallbackAnswersParentCall, HasParent, Answers
  <2>1. ~TopIs("resetCallstate")
    BY CodeAtEndWasm DEF TopIs, Top
  <2> QED  BY <2>1 DEF CallbacksInOrder, IsCallBack
<1> QED  BY <1>1, TypeCorrect, CallsStayInProgress, CallbacksStayInOrder, PTL

(* ---------------------------- The hash of a call ------------------------- *)

LEMMA StepKeepsCount == ASSUME Step PROVE txCount' = txCount
<1>1. CASE StackStep \/ CheckStep \/ TransferStep
  BY <1>1 DEF StackStep, PushWorldState, PopWorldState, DropWorldState, PushCallState,
     PopCallState, ResetCallstate, CheckStep, DoCheckAccountExists, DoCheckBool,
     ExceptionSkip, ExceptionRevert, TransferStep, TransferFundsSelf, TransferFundsMove,
     TransferFundsOutOfFunds, DoTransferESDTs, DoCheckESDTBalance, DoAddToESDTBalance,
     DoAppendToOutAccount, driver
<1>2. CASE CallStep
  BY <1>2 DEF CallStep, DoCallContract, CallContractAux, CallContractAuxBuiltin,
     CallContractAuxErrCallback, CallContractAuxNotContract, DoCallContractCb,
     NewWasmInstance, WaitWasm, MkCall, MkCallFuncNotFound, EndWasm, SetVMOutput,
     DoProcessBuiltinFunction, DetermineIsSCCallAfter, driver
<1>3. CASE AsyncStep
  BY <1>3 DEF AsyncStep, RegisterAsyncCall, AddAsyncCall, AsyncExecute,
     ExecuteAsyncLocalCalls, DropAsyncLocalCall, ExecuteAsyncLocalCall,
     ExecuteAsyncLocalCallback, MergeOutputs, driver
<1>4. CASE CodeStep
  BY <1>4 DEF CodeStep, InitModule, WaitCommands, FinishExecuteOnDestOk,
     FinishExecuteOnDestException, Return, Throw, Finish, CleanReturnData, TransferValue,
     ExecuteOnDestContext, CreateAsyncCall, ManagedAsyncCall, CreateAsyncCallWith,
     HostCommands, driver
<1> QED  BY <1>1, <1>2, <1>3, <1>4 DEF Step

(* Instructions that wait, or run code, have started.                        *)
LEMMA HasStarted ==
  /\ \A is : is # <<>> /\ Head(is) \in {"code", "waitCommands"} => ~Stopped(is)
  /\ InstrIs("code") \/ InstrIs("waitCommands") => ~Stopped(callState.instrs)
<1>1. ASSUME NEW is, is # <<>>, Head(is) \in {"code", "waitCommands"}, Stopped(is)
      PROVE  FALSE
  <2>1. is = <<"initModule">>
    BY <1>1 DEF Stopped
  <2>2. Head(is) = "initModule"
    BY <2>1
  <2> QED  BY <1>1, <2>2
<1> QED  BY <1>1 DEF InstrIs

LEMMA PassedHash ==
  ASSUME NoBuiltins, HashesInOrder, txCount' = txCount, NEW c,
         InputPassed(c), AsyncPassed(c)
  PROVE  CommandHash(c)'
<1>1. ASSUME c.op \in InputOps
      PROVE  /\ c.input.txHash = txCount
             /\ c.op \notin {"processBuiltinFunction", "determineIsSCCallAfter"}
             /\ c.op \in {"callContract", "callContractAux"} => ~IsBuiltin(c.func)
  <2>1. PICK j \in 1..Len(commands) : Passes(c, commands[j])
    BY <1>1 DEF InputPassed
  <2>2. PICK d : d = commands[j]
    OBVIOUS
  <2>3. CommandHash(d) /\ Passes(c, d)
    BY <2>1, <2>2 DEF HashesInOrder
  <2>4. CASE c = d
    BY <1>1, <2>3, <2>4 DEF CommandHash
  <2>5. CASE c # d
    BY <1>1, <2>3, <2>5 DEF CommandHash, Passes, Inherits, CallOps
  <2> QED  BY <2>4, <2>5
<1>2. ASSUME c.op \in AsyncOps
      PROVE  ~IsBuiltin(c.call.func)
  <2>1. CASE \E r \in Calls : c.call.func = r.func
    BY <2>1 DEF NoBuiltins
  <2>2. ASSUME NEW j \in 1..Len(commands), commands[j].op \in AsyncOps,
               c.call.func = commands[j].call.func
        PROVE  ~IsBuiltin(c.call.func)
    <3>1. CommandHash(commands[j])
      BY DEF HashesInOrder
    <3> QED  BY <2>2, <3>1 DEF CommandHash
  <2> QED  BY <1>2, <2>1, <2>2 DEF AsyncPassed
<1>3. c.op \in {"callContract", "callContractAux"} => c.op \in InputOps
  BY DEF InputOps, CallOps
<1> QED  BY <1>1, <1>2, <1>3 DEF CommandHash

(* Frames whose calls, instructions and hash are kept.                       *)
LEMMA KeptHash ==
  ASSUME HashesInOrder, txCount' = txCount, SameCall,
         Stopped(callState.instrs) => Stopped(callState'.instrs)
  PROVE  /\ FrameHash(callState)'
         /\ \A i \in 1..Len(callStack') : FrameHash(callStack[i])'
         /\ IF callStack' = <<>> THEN callState'.asyncCalls = <<>>
                                 ELSE callStack'[Len(callStack')].asyncCalls = <<>>
<1>1. FrameHash(callState)'
  BY DEF HashesInOrder, FrameHash, SameCall, Inactive
<1>2. \A i \in 1..Len(callStack') : FrameHash(callStack[i])'
  BY DEF HashesInOrder, FrameHash, SameCall, Inactive
<1> QED  BY <1>1, <1>2 DEF HashesInOrder, SameCall

LEMMA HashesStep ==
  ASSUME NoBuiltins, TypeOK, CallsInProgress, StacksMatchCommands, WorkInOrder,
         HashesInOrder, StepKind, txCount' = txCount
  PROVE  HashesInOrder'
<1>1. ASSUME \A i \in 1..Len(commands') : CommandHash(commands[i])',
             FrameHash(callState)', \A i \in 1..Len(callStack') : FrameHash(callStack[i])',
             IF callStack' = <<>> THEN callState'.asyncCalls = <<>>
                                  ELSE callStack'[Len(callStack')].asyncCalls = <<>>
      PROVE  HashesInOrder'
  BY <1>1 DEF HashesInOrder
<1>2. ASSUME AllPassed
      PROVE  \A i \in 1..Len(commands') : CommandHash(commands[i])'
  <2> SUFFICES ASSUME NEW i \in 1..Len(commands') PROVE CommandHash(commands[i])'
    OBVIOUS
  <2>1. PICK c : c = commands'[i]
    OBVIOUS
  <2>2. InputPassed(c) /\ AsyncPassed(c)
    BY <1>2, <2>1 DEF AllPassed
  <2>3. CommandHash(c)'
    BY <2>2, PassedHash
  <2> QED  BY <2>1, <2>3 DEF CommandHash
<1>3. ASSUME callStack' = callStack
      PROVE  \A i \in 1..Len(callStack') : FrameHash(callStack[i])'
  BY <1>3 DEF HashesInOrder, FrameHash
<1>4. CASE Prepares
  BY <1>1, <1>2, <1>4, KeptHash DEF Prepares
<1>5. CASE BuiltinCalls
  <2>1. Top.op = "determineIsSCCallAfter" /\ commands # <<>>
    BY <1>5 DEF BuiltinCalls
  <2>2. CommandHash(Top)
    BY <2>1, TopIndex DEF HashesInOrder, TypeOK
  <2> QED  BY <2>1, <2>2 DEF CommandHash, InputOps
<1>6. CASE MkCall \/ AddAsyncCall \/ DropAsyncLocalCall
  <2>1. commands # <<>> /\ Replace(<<>>) /\ callStack' = callStack /\ callState \in CallState
    BY <1>6 DEF MkCall, AddAsyncCall, DropAsyncLocalCall, TopIs, TypeOK
  <2>2. \A i \in 1..Len(commands') : CommandHash(commands[i])'
    BY <1>2, <2>1, TailPasses
  <2>3. CommandHash(Top) /\ Top \in Command
    BY <2>1, TopIndex, TopType DEF HashesInOrder, TypeOK
  <2>4. callState.asyncCalls \in Seq(AsyncCall) /\ FrameHash(callState)
    BY <2>1 DEF CallState, HashesInOrder
  <2>5. FrameHash(callState)'
    <3>1. CASE MkCall
      <4>1. /\ callState'.vmInput = Top.input /\ callState'.asyncCalls = <<>>
            /\ Top.op = "mkCall"
        BY <2>1, <3>1 DEF MkCall, CallState, TopIs, Top
      <4>2. Len(callState'.asyncCalls) = 0
        BY <4>1
      <4>3. callState'.vmInput.txHash = txCount'
        BY <2>3, <4>1 DEF CommandHash, InputOps
      <4> QED  BY <4>2, <4>3 DEF FrameHash
    <3>2. CASE AddAsyncCall
      <4>1. /\ callState'.vmInput = callState.vmInput /\ Top.op = "addAsyncCall"
            /\ callState'.asyncCalls = Append(callState.asyncCalls, Top.call)
        BY <2>1, <3>2 DEF AddAsyncCall, CallState, TopIs, Top
      <4>2. InstrIs("waitCommands")
        BY <2>1, <4>1, TopIndex DEF WorkInOrder, AsyncOps, TypeOK
      <4>3. callState.vmInput.txHash = txCount
        BY <2>4, <4>2, HasStarted DEF FrameHash, Inactive
      <4>4. Top.call \in AsyncCall /\ ~IsBuiltin(Top.call.func)
        BY <2>3, <4>1, FieldTypes DEF CommandHash, AsyncOps
      <4>5. /\ Len(callState'.asyncCalls) = Len(callState.asyncCalls) + 1
            /\ Len(callState.asyncCalls) \in Nat
            /\ \A i \in 1..Len(callState.asyncCalls) :
                 callState'.asyncCalls[i] = callState.asyncCalls[i]
            /\ callState'.asyncCalls[Len(callState.asyncCalls) + 1] = Top.call
        BY <2>4, <4>1, <4>4, AppendProperties, LenProperties
      <4>6. \A i \in 1..Len(callState'.asyncCalls) :
              i \in 1..Len(callState.asyncCalls) \/ i = Len(callState.asyncCalls) + 1
        BY <4>5
      <4>7. \A i \in 1..Len(callState'.asyncCalls) :
              ~IsBuiltin(callState'.asyncCalls[i].func)
        BY <2>4, <4>4, <4>5, <4>6 DEF FrameHash
      <4> QED  BY <4>1, <4>3, <4>7 DEF FrameHash
    <3>3. CASE DropAsyncLocalCall
      <4>1. /\ callState'.vmInput = callState.vmInput /\ callState.asyncCalls # <<>>
            /\ callState'.asyncCalls = Tail(callState.asyncCalls)
        BY <2>1, <3>3 DEF DropAsyncLocalCall, CallState
      <4>2. callState.vmInput.txHash = txCount
        BY <2>4, <4>1 DEF FrameHash, Inactive
      <4>3. /\ Len(callState'.asyncCalls) = Len(callState.asyncCalls) - 1
            /\ Len(callState.asyncCalls) \in Nat
            /\ \A i \in 1..Len(callState'.asyncCalls) :
                 callState'.asyncCalls[i] = callState.asyncCalls[i + 1]
        BY <2>4, <4>1, HeadTailProperties, LenProperties
      <4>4. \A i \in 1..Len(callState'.asyncCalls) : i + 1 \in 1..Len(callState.asyncCalls)
        BY <4>3
      <4>5. \A i \in 1..Len(callState'.asyncCalls) :
              ~IsBuiltin(callState'.asyncCalls[i].func)
        BY <2>4, <4>3, <4>4 DEF FrameHash
      <4> QED  BY <4>1, <4>2, <4>5 DEF FrameHash
    <3> QED  BY <1>6, <3>1, <3>2, <3>3
  <2>6. callStack # <<>>
    <3>1. CASE DropAsyncLocalCall
      BY <3>1 DEF DropAsyncLocalCall, HashesInOrder
    <3>2. CASE MkCall \/ AddAsyncCall
      <4>1. Top.op \in BodyOps \cup {"endWasm"}
        BY <3>2 DEF MkCall, AddAsyncCall, TopIs, Top, BodyOps
      <4> QED  BY <2>1, <4>1, CallIsSaved
    <3> QED  BY <1>6, <3>1, <3>2
  <2>7. callStack'[Len(callStack')].asyncCalls = <<>> /\ callStack' # <<>>
    BY <2>1, <2>6 DEF HashesInOrder
  <2> QED  BY <1>1, <1>3, <2>1, <2>2, <2>5, <2>7
<1>7. CASE CallsAsync \/ CallsBack \/ CallsDirectly
  <2>1. PICK c : /\ MakesCall(c)
                 /\ c.op = "callContract" => ~IsBuiltin(c.func)
    <3>1. CASE CallsAsync
      <4>1. /\ callState.asyncCalls # <<>>
            /\ \E c : MakesCall(c) /\ c.func = Head(callState.asyncCalls).func
        BY <3>1 DEF CallsAsync
      <4>2. callState.asyncCalls \in Seq(AsyncCall)
        BY DEF TypeOK, CallState
      <4>3. 1 \in 1..Len(callState.asyncCalls)
        <5>1. Len(callState.asyncCalls) \in Nat \ {0}
          BY <4>1, <4>2, EmptySeq
        <5> QED  BY <5>1
      <4>4. Head(callState.asyncCalls) = callState.asyncCalls[1]
        BY <4>1, <4>2, HeadTailProperties
      <4>5. ~IsBuiltin(Head(callState.asyncCalls).func)
        BY <4>3, <4>4 DEF HashesInOrder, FrameHash
      <4> QED  BY <4>1, <4>5
    <3>2. CASE CallsBack
      <4>1. \E c : MakesCall(c) /\ c.op = "callContractCb"
        BY <3>2 DEF CallsBack
      <4> QED  BY <4>1
    <3>3. CASE CallsDirectly
      <4>1. \E c : MakesCall(c) /\ \E r \in Calls : c.func = r.func
        BY <3>3 DEF CallsDirectly
      <4> QED  BY <4>1 DEF NoBuiltins
    <3> QED  BY <1>7, <3>1, <3>2, <3>3
  <2>2. /\ Top.op \in {"executeAsyncLocalCall", "executeAsyncLocalCallback", "endWasm"}
        /\ ~Inactive(callState)
    BY <1>7, HasStarted DEF CallsAsync, CallsBack, CallsDirectly, Inactive
  <2>3. /\ SameCall /\ c.input.txHash = callState.vmInput.txHash /\ c.op \in CallOps
        /\ Stopped(callState.instrs) => Stopped(callState'.instrs)
    BY <2>1 DEF MakesCall, InstrsKept
  <2>4. callState.vmInput.txHash = txCount
    BY <2>2 DEF HashesInOrder, FrameHash
  <2>5. \A i \in 1..Len(commands') :
          /\ commands'[i].op \in InputOps => commands'[i] = c
          /\ commands'[i].op \notin AsyncOps
    BY <2>1, <2>2, OnlyCall
  <2>6. ASSUME NEW i \in 1..Len(commands')
        PROVE  CommandHash(commands[i])'
    <3>1. CASE commands'[i] = c
      <4>1. c.op \in {"callContract", "callContractCb"}
        BY <2>3 DEF CallOps
      <4>2. c.op \notin AsyncOps
        BY <4>1 DEF AsyncOps
      <4> QED  BY <2>1, <2>3, <2>4, <3>1, <4>1, <4>2 DEF CommandHash
    <3>2. CASE commands'[i] # c
      <4>1. commands'[i].op \notin InputOps /\ commands'[i].op \notin AsyncOps
        BY <2>5, <3>2
      <4> QED  BY <4>1 DEF CommandHash, InputOps, CallOps
    <3> QED  BY <3>1, <3>2
  <2> QED  BY <1>1, <2>3, <2>6, KeptHash
<1>8. CASE PushCallState
  <2>1. /\ commands # <<>> /\ Replace(<<>>) /\ callState' = callState
    BY <1>8 DEF PushCallState, TopIs
  <2>2. \A i \in 1..Len(commands') : CommandHash(commands[i])'
    BY <1>2, <2>1, TailPasses
  <2>3. FrameHash(callState)'
    BY <2>1 DEF HashesInOrder, FrameHash
  <2>4. ASSUME NEW i \in 1..Len(callStack')
        PROVE  FrameHash(callStack[i])'
    <3>1. CASE i = 1
      BY <1>8, <2>1, <2>3, <3>1, PushedFrames DEF FrameHash
    <3>2. CASE i # 1
      <4>1. i \in 2..Len(callStack')
        BY <3>2
      <4>2. PICK j \in 1..Len(callStack) : callStack'[i] = callStack[j]
        BY <1>8, <4>1, PushedFrames
      <4> QED  BY <4>2 DEF HashesInOrder, FrameHash
    <3> QED  BY <3>1, <3>2
  <2>5. callStack' # <<>> /\ callStack'[Len(callStack')].asyncCalls = <<>>
    <3>1. CASE callStack = <<>>
      <4>1. Len(callStack') = 1
        BY <1>8, <3>1, PushedFrames, EmptySeq
      <4> QED  BY <1>8, <3>1, <4>1, PushedFrames DEF HashesInOrder
    <3>2. CASE callStack # <<>>
      <4>1. 1 \in 1..Len(callStack)
        BY <3>2, FrameBelow DEF TypeOK
      <4>2. Len(callStack') \in 2..Len(callStack') /\ Len(callStack') - 1 = Len(callStack)
        BY <1>8, <4>1, PushedFrames
      <4>3. callStack'[Len(callStack')] = callStack[Len(callStack') - 1]
        BY <1>8, <4>2, PushedFrames
      <4>4. callStack'[Len(callStack')] = callStack[Len(callStack)]
        BY <4>2, <4>3
      <4> QED  BY <1>8, <3>2, <4>4, PushedFrames DEF HashesInOrder
    <3> QED  BY <3>1, <3>2
  <2> QED  BY <1>1, <2>2, <2>3, <2>4, <2>5
<1>9. CASE PopCallState
  <2>1. /\ commands # <<>> /\ Replace(<<>>)
    BY <1>9 DEF PopCallState, TopIs
  <2>2. \A i \in 1..Len(commands') : CommandHash(commands[i])'
    BY <1>2, <2>1, TailPasses
  <2>3. callState' = callStack[1] /\ 1 \in 1..Len(callStack) /\ callStack # <<>>
    BY <1>9, PoppedFrames
  <2>4. FrameHash(callState)'
    BY <2>3 DEF HashesInOrder, FrameHash
  <2>5. ASSUME NEW i \in 1..Len(callStack')
        PROVE  FrameHash(callStack[i])'
    <3>1. PICK j \in 1..Len(callStack) : callStack'[i] = callStack[j]
      BY <1>9, PoppedFrames
    <3> QED  BY <3>1 DEF HashesInOrder, FrameHash
  <2>6. CASE callStack' = <<>>
    <3>1. Len(callStack') = 0
      BY <2>6, EmptySeq
    <3>2. Len(callStack) = 1
      BY <1>9, <3>1, PoppedFrames
    <3>3. callState'.asyncCalls = <<>>
      BY <2>3, <3>2 DEF HashesInOrder
    <3> QED  BY <1>1, <2>2, <2>4, <2>5, <2>6, <3>3
  <2>7. CASE callStack' # <<>>
    <3>1. Len(callStack') \in 1..Len(callStack') /\ Len(callStack') + 1 = Len(callStack)
      BY <1>9, <2>7, PoppedFrames
    <3>2. callStack'[Len(callStack')] = callStack[Len(callStack') + 1]
      BY <1>9, <3>1, PoppedFrames
    <3>3. callStack'[Len(callStack')] = callStack[Len(callStack)]
      BY <3>1, <3>2
    <3>4. callStack'[Len(callStack')].asyncCalls = <<>>
      BY <2>3, <3>3 DEF HashesInOrder
    <3> QED  BY <1>1, <2>2, <2>4, <2>5, <2>7, <3>4
  <2> QED  BY <2>6, <2>7
<1>10. CASE ResetCallstate
  <2>1. /\ commands # <<>> /\ Replace(<<>>)
        /\ callState' = DefaultCallState /\ callStack' = callStack
    BY <1>10 DEF ResetCallstate, TopIs
  <2>2. \A i \in 1..Len(commands') : CommandHash(commands[i])'
    BY <1>2, <2>1, TailPasses
  <2>3. callState'.asyncCalls = <<>> /\ callState'.instrs = <<>>
    BY <2>1 DEF DefaultCallState
  <2>4. Len(callState'.asyncCalls) = 0
    BY <2>3
  <2>5. FrameHash(callState)'
    BY <2>3, <2>4 DEF FrameHash, Inactive, Stopped
  <2>6. callStack # <<>> => callStack'[Len(callStack')].asyncCalls = <<>>
    BY <2>1 DEF HashesInOrder
  <2> QED  BY <1>1, <1>3, <2>1, <2>2, <2>3, <2>5, <2>6
<1> QED  BY <1>4, <1>5, <1>6, <1>7, <1>8, <1>9, <1>10 DEF StepKind

LEMMA CallTxHashes ==
  ASSUME NoBuiltins, TypeOK, StacksMatchCommands, HashesInOrder, CallTx
  PROVE  HashesInOrder'
<1>1. /\ commands = <<>> /\ NoInstrs /\ UNCHANGED <<callState, callStack>>
      /\ txCount' = txCount + 1
  BY CallTxCall
<1>2. PICK c : /\ commands' = <<c>> /\ c.op = "callContract" /\ c.input.txHash = txCount'
               /\ ~IsBuiltin(c.func)
  BY CallTxCall DEF NoBuiltins
<1>3. callStack = <<>> /\ Len(callStack) = 0
  BY <1>1, NothingSaved
<1>4. callState.asyncCalls = <<>> /\ Len(callState.asyncCalls) = 0
  BY <1>3 DEF HashesInOrder
<1>5. FrameHash(callState)'
  BY <1>1, <1>4 DEF FrameHash, Inactive, NoInstrs, Stopped
<1>6. \A i \in 1..Len(commands') : CommandHash(commands[i])'
  <2>1. \A i \in 1..Len(commands') : commands'[i] = c
    BY <1>2
  <2>2. CommandHash(c)'
    BY <1>2 DEF CommandHash, AsyncOps
  <2> QED  BY <2>1, <2>2 DEF CommandHash
<1>7. \A i \in 1..Len(callStack') : FrameHash(callStack[i])'
  BY <1>1, <1>3
<1> QED  BY <1>1, <1>3, <1>4, <1>5, <1>6, <1>7 DEF HashesInOrder

LEMMA HashesStayInOrder == ASSUME NoBuiltins PROVE Spec => []HashesInOrder
<1>1. Init => HashesInOrder
  <2> SUFFICES ASSUME Init PROVE HashesInOrder
    OBVIOUS
  <2>1. commands = <<>> /\ Len(commands) = 0 /\ callStack = <<>> /\ Len(callStack) = 0
    BY EmptySeq DEF Init
  <2>2. /\ callState.asyncCalls = <<>> /\ Len(callState.asyncCalls) = 0
        /\ callState.instrs = <<>>
    BY EmptySeq DEF Init, DefaultCallState
  <2>3. FrameHash(callState)
    BY <2>2 DEF FrameHash, Inactive, Stopped
  <2> QED  BY <2>1, <2>2, <2>3 DEF HashesInOrder
<1>2. /\ TypeOK /\ CallsInProgress /\ StacksMatchCommands
      /\ WorkInOrder /\ CallbacksInOrder /\ HashesInOrder /\ [Next]_vars
      => HashesInOrder'
  <2> SUFFICES ASSUME TypeOK, CallsInProgress, StacksMatchCommands, WorkInOrder,
                      CallbacksInOrder, HashesInOrder, [Next]_vars
               PROVE  HashesInOrder'
    OBVIOUS
  <2>1. CASE UNCHANGED vars \/ Finished
    <3>1. UNCHANGED <<commands, callState, callStack, txCount>>
      BY <2>1 DEF Finished, vars, driver
    <3> QED  BY <3>1 DEF HashesInOrder, CommandHash, FrameHash
  <2>2. CASE CallTx
    BY <2>2, CallTxHashes
  <2>3. CASE Step
    <3>1. OutputKnown
      BY DEF CallbacksInOrder, OutputKnown
    <3> QED  BY <2>3, <3>1, StepsHaveKind, StepKeepsCount, HashesStep
  <2> QED  BY <2>1, <2>2, <2>3 DEF Next
<1> QED
  BY <1>1, <1>2, TypeCorrect, CallsStayInProgress, StacksMatch, CallbacksStayInOrder,
     PTL DEF Spec

(* All the code that runs for a transaction reads its hash, through direct   *)
(* calls, async calls and callbacks at any depth, if no contract can call    *)
(* the builtin ESDTTransfer: determineIsSCCallAfter reads the hash of the    *)
(* call it makes from a call state that was just reset.                      *)
THEOREM HashIsHandedDown == ASSUME NoBuiltins PROVE Spec => []CodeSeesTxHash
<1>1. HashesInOrder => CodeSeesTxHash
  BY HasStarted DEF HashesInOrder, FrameHash, Inactive, CodeSeesTxHash
<1> QED  BY <1>1, HashesStayInOrder, PTL

(* --------------------------- One async level ----------------------------- *)

LEMMA InputsStayAsync == ASSUME AllPassed, InputsAsync PROVE InputsAsync'
<1> SUFFICES ASSUME NEW i \in 1..Len(commands'), commands'[i].op \in InputOps
             PROVE  IsCallAsync(commands'[i].input.callType)
  BY DEF InputsAsync
<1>1. PICK c : c = commands'[i]
  OBVIOUS
<1>2. InputPassed(c) /\ c.op \in InputOps
  BY <1>1 DEF AllPassed
<1>3. PICK j \in 1..Len(commands) : Passes(c, commands[j])
  BY <1>2 DEF InputPassed
<1>4. PICK d : d = commands[j]
  OBVIOUS
<1>5. d.op \in InputOps /\ d.input = c.input
  BY <1>2, <1>3, <1>4 DEF Passes, Inherits
<1>6. IsCallAsync(d.input.callType)
  BY <1>4, <1>5 DEF InputsAsync
<1> QED  BY <1>1, <1>5, <1>6

(* An async call that is added leaves no frame below executing its own.      *)
LEMMA AddedToOneLevel ==
  ASSUME TypeOK, WorkInOrder, OneAsyncLevel, commands # <<>>, Top.op = "addAsyncCall"
  PROVE  /\ ~Stopped(callState.instrs)
         /\ \A i \in 1..Len(callStack) : ~ExecutesAsyncCalls(callStack[i])
<1>1. 1 \in 1..Len(commands) /\ commands[1].op = "addAsyncCall"
  BY TopIndex DEF TypeOK
<1>2. ~Stopped(callState.instrs)
  <2>1. InstrIs("waitCommands")
    BY <1>1 DEF WorkInOrder, AsyncOps
  <2> QED  BY <2>1, HasStarted
<1>3. ~IsMultilevelAsync
  <2>1. ~\E j \in 1..Len(commands) : j < 1
    OBVIOUS
  <2> QED  BY <1>1, <2>1 DEF WorkInOrder, AddsAreChecked
<1>4. ~TopIs("resetCallstate")
  BY DEF TopIs, Top
<1>5. ASSUME NEW i \in 1..Len(callStack), ExecutesAsyncCalls(callStack[i])
      PROVE  FALSE
  <2>1. CASE i = 1
    <3>1. callStack # <<>> /\ Head(callStack) = callStack[1]
      BY <2>1, FrameBelow DEF TypeOK
    <3>2. IsCallAsync(callState.vmInput.callType) \/ Inactive(callState)
      BY <1>4, <1>5, <2>1, <3>1 DEF OneAsyncLevel, RunsAsync
    <3> QED  BY <1>2, <1>3, <3>2 DEF Inactive, IsMultilevelAsync
  <2>2. CASE i # 1
    <3>1. Len(callStack) \in Nat
      BY LenProperties DEF TypeOK
    <3>2. PICK j \in 1..Len(callStack) : i = j + 1
      <4>1. i - 1 \in 1..Len(callStack) /\ i = (i - 1) + 1
        BY <2>2, <3>1
      <4> QED  BY <4>1
    <3>3. IsCallAsync(callStack[j].vmInput.callType)
      BY <1>5, <3>2 DEF OneAsyncLevel, SavedAsync
    <3> QED  BY <1>3, <3>3 DEF IsMultilevelAsync
  <2> QED  BY <2>1, <2>2
<1> QED  BY <1>2, <1>5

(* Work that keeps the frames.                                               *)
LEMMA KeepsOneLevel ==
  ASSUME OneAsyncLevel, SameCall, ~TopIs("resetCallstate")
  PROVE  SavedAsync' /\ NoneBelowSaved' /\ NoneBelow'
<1>1. SavedAsync' /\ NoneBelowSaved'
  BY DEF OneAsyncLevel, SavedAsync, NoneBelowSaved, SameCall
<1>2. NoneBelow'
  BY DEF OneAsyncLevel, NoneBelow, SameCall
<1> QED  BY <1>1, <1>2

LEMMA PushOneLevel ==
  ASSUME TypeOK, WorkInOrder, OneAsyncLevel, PushCallState
  PROVE  OneAsyncLevel'
<1>1. /\ Entering /\ ~Entering' /\ ~TopIs("resetCallstate")
      /\ commands # <<>> /\ Replace(<<>>) /\ TopIs("resetCallstate")'
  BY MoreInOrder, ResetFollows DEF PushCallState, TopIs
<1>2. /\ callStack' # <<>> /\ Head(callStack') = callState
      /\ callStack'[1] = callState /\ Len(callStack') = Len(callStack) + 1
      /\ Len(callStack) \in Nat
      /\ \A i \in 2..Len(callStack') :
           i - 1 \in 1..Len(callStack) /\ callStack'[i] = callStack[i - 1]
  BY PushedFrames
<1>3. \A i \in 2..Len(callStack') : \E j \in 1..Len(callStack) :
        i = j + 1 /\ callStack'[i] = callStack[j]
  <2>1. \A i \in 2..Len(callStack') : i = (i - 1) + 1
    BY <1>2
  <2> QED  BY <1>2, <2>1
<1>4. EntersAsync' /\ NoneBelow'
  BY <1>1 DEF EntersAsync, NoneBelow
<1>5. RunsAsync'
  <2>1. ExecutesAsyncCalls(callState) => InputsAsync'
    BY <1>1, TailPasses, InputsStayAsync DEF OneAsyncLevel, EntersAsync
  <2> QED  BY <1>1, <1>2, <2>1 DEF RunsAsync, ExecutesAsyncCalls
<1>6. SavedAsync'
  <2> SUFFICES ASSUME NEW i \in 1..Len(callStack'), i + 1 \in 1..Len(callStack'),
                      ExecutesAsyncCalls(callStack'[i + 1])
               PROVE  IsCallAsync(callStack'[i].vmInput.callType)
    BY DEF SavedAsync, ExecutesAsyncCalls
  <2>1. PICK k \in 1..Len(callStack) : i + 1 = k + 1 /\ callStack'[i + 1] = callStack[k]
    <3>1. i + 1 \in 2..Len(callStack')
      BY <1>2
    <3> QED  BY <1>3, <3>1
  <2>2. k = i /\ ExecutesAsyncCalls(callStack[k])
    BY <1>2, <2>1
  <2>3. CASE i = 1
    <3>1. callStack # <<>> /\ Head(callStack) = callStack[1] /\ k = 1
      BY <2>2, <2>3, FrameBelow DEF TypeOK
    <3>2. ExecutesAsyncCalls(Head(callStack))
      BY <2>2, <3>1
    <3> QED  BY <1>1, <1>2, <2>3, <3>1, <3>2 DEF OneAsyncLevel, RunsAsync
  <2>4. CASE i # 1
    <3>1. i \in 2..Len(callStack')
      BY <2>4
    <3>2. PICK j \in 1..Len(callStack) : i = j + 1 /\ callStack'[i] = callStack[j]
      BY <1>3, <3>1
    <3>3. ExecutesAsyncCalls(callStack[j + 1]) /\ j + 1 \in 1..Len(callStack)
      BY <2>2, <3>2
    <3> QED  BY <3>2, <3>3 DEF OneAsyncLevel, SavedAsync
  <2> QED  BY <2>3, <2>4
<1>7. NoneBelowSaved'
  <2> SUFFICES ASSUME NEW i \in 1..Len(callStack'), NEW j \in 1..Len(callStack'),
                      i < j, callStack'[i].asyncCalls # <<>>
               PROVE  ~ExecutesAsyncCalls(callStack'[j])
    BY DEF NoneBelowSaved, ExecutesAsyncCalls
  <2>1. PICK l \in 1..Len(callStack) : j = l + 1 /\ callStack'[j] = callStack[l]
    <3>1. j \in 2..Len(callStack')
      BY <1>2
    <3> QED  BY <1>3, <3>1
  <2>2. CASE i = 1
    BY <1>1, <1>2, <2>1, <2>2 DEF OneAsyncLevel, NoneBelow
  <2>3. CASE i # 1
    <3>1. i \in 2..Len(callStack')
      BY <2>3
    <3>2. PICK k \in 1..Len(callStack) : i = k + 1 /\ callStack'[i] = callStack[k]
      BY <1>3, <3>1
    <3>3. k < l
      BY <2>1, <3>2
    <3> QED  BY <2>1, <3>2, <3>3 DEF OneAsyncLevel, NoneBelowSaved
  <2> QED  BY <2>2, <2>3
<1> QED  BY <1>4, <1>5, <1>6, <1>7 DEF OneAsyncLevel

LEMMA PopOneLevel ==
  ASSUME TypeOK, CallsInProgress, WorkInOrder, OneAsyncLevel, PopCallState
  PROVE  OneAsyncLevel'
<1>1. /\ ~Entering /\ ~Entering' /\ commands # <<>> /\ Replace(<<>>)
      /\ Top.op = "popCallState"
  BY MoreInOrder DEF PopCallState, TopIs, Top
<1>2. InputsAsync'
  <2>1. \A i \in 1..Len(commands) : commands[i].op \notin InputOps
    BY <1>1, BelowTheTop DEF EntryOps, BodyOps, CallOps
  <2>2. InputsAsync
    BY <2>1 DEF InputsAsync
  <2> QED  BY <1>1, <2>2, TailPasses, InputsStayAsync
<1>3. /\ callState' = callStack[1] /\ Len(callStack) \in Nat \ {0}
      /\ Len(callStack') = Len(callStack) - 1
      /\ \A i \in 1..Len(callStack') :
           i + 1 \in 2..Len(callStack) /\ callStack'[i] = callStack[i + 1]
      /\ callStack' # <<>> => Len(callStack) > 1 /\ Head(callStack') = callStack[2]
  BY PoppedFrames
<1>4. \A i \in 1..Len(callStack') : \E j \in 2..Len(callStack) :
        j = i + 1 /\ callStack'[i] = callStack[j]
  BY <1>3
<1>5. EntersAsync'
  BY <1>1 DEF EntersAsync
<1>6. RunsAsync'
  <2> SUFFICES ASSUME callStack' # <<>>, ExecutesAsyncCalls(Head(callStack'))
               PROVE  IsCallAsync(callState'.vmInput.callType)
    BY <1>2 DEF RunsAsync, ExecutesAsyncCalls
  <2>1. 1 \in 1..Len(callStack) /\ 1 + 1 \in 1..Len(callStack) /\ 1 + 1 = 2
    BY <1>3
  <2>2. ExecutesAsyncCalls(callStack[1 + 1])
    BY <1>3, <2>1
  <2> QED  BY <1>3, <2>1, <2>2 DEF OneAsyncLevel, SavedAsync
<1>7. SavedAsync'
  <2> SUFFICES ASSUME NEW i \in 1..Len(callStack'), i + 1 \in 1..Len(callStack'),
                      ExecutesAsyncCalls(callStack'[i + 1])
               PROVE  IsCallAsync(callStack'[i].vmInput.callType)
    BY DEF SavedAsync, ExecutesAsyncCalls
  <2>1. PICK j \in 2..Len(callStack) : j = i + 1 /\ callStack'[i] = callStack[j]
    BY <1>4
  <2>2. PICK k \in 2..Len(callStack) : k = (i + 1) + 1 /\ callStack'[i + 1] = callStack[k]
    BY <1>4
  <2>3. /\ j \in 1..Len(callStack) /\ j + 1 \in 1..Len(callStack)
        /\ ExecutesAsyncCalls(callStack[j + 1])
    BY <1>3, <2>1, <2>2
  <2> QED  BY <2>1, <2>3 DEF OneAsyncLevel, SavedAsync
<1>8. NoneBelow'
  <2> SUFFICES ASSUME callState'.asyncCalls # <<>>, NEW i \in 1..Len(callStack')
               PROVE  ~ExecutesAsyncCalls(callStack'[i])
    BY DEF NoneBelow, ExecutesAsyncCalls
  <2>1. PICK j \in 2..Len(callStack) : callStack'[i] = callStack[j]
    BY <1>4
  <2>2. 1 \in 1..Len(callStack) /\ j \in 1..Len(callStack) /\ 1 < j
    BY <1>3
  <2> QED  BY <1>3, <2>1, <2>2 DEF OneAsyncLevel, NoneBelowSaved
<1>9. NoneBelowSaved'
  <2> SUFFICES ASSUME NEW i \in 1..Len(callStack'), NEW j \in 1..Len(callStack'),
                      i < j, callStack'[i].asyncCalls # <<>>
               PROVE  ~ExecutesAsyncCalls(callStack'[j])
    BY DEF NoneBelowSaved, ExecutesAsyncCalls
  <2>1. PICK k \in 2..Len(callStack) : k = i + 1 /\ callStack'[i] = callStack[k]
    BY <1>4
  <2>2. PICK l \in 2..Len(callStack) : l = j + 1 /\ callStack'[j] = callStack[l]
    BY <1>4
  <2>3. k \in 1..Len(callStack) /\ l \in 1..Len(callStack) /\ k < l
    BY <1>3, <2>1, <2>2
  <2> QED  BY <2>1, <2>2, <2>3 DEF OneAsyncLevel, NoneBelowSaved
<1> QED  BY <1>5, <1>6, <1>7, <1>8, <1>9 DEF OneAsyncLevel

LEMMA OneLevelStep ==
  ASSUME TypeOK, CallsInProgress, WorkInOrder, HashesInOrder, OneAsyncLevel, StepKind
  PROVE  OneAsyncLevel'
<1>1. CASE Prepares
  <2>1. /\ AllPassed /\ SameCall /\ (Entering' <=> Entering) /\ ~TopIs("resetCallstate")
        /\ Stopped(callState.instrs) => Stopped(callState'.instrs)
        /\ Entering => callState' = callState
    BY <1>1 DEF Prepares
  <2>2. InputsAsync => InputsAsync'
    BY <2>1, InputsStayAsync
  <2>3. EntersAsync'
    BY <2>1, <2>2 DEF OneAsyncLevel, EntersAsync, ExecutesAsyncCalls
  <2>4. RunsAsync'
    <3>1. Inactive(callState) => Inactive(callState)'
      BY <2>1 DEF Inactive, SameCall
    <3> QED  BY <2>1, <2>2, <3>1 DEF OneAsyncLevel, RunsAsync, ExecutesAsyncCalls, SameCall
  <2> QED  BY <2>1, <2>3, <2>4, KeepsOneLevel DEF OneAsyncLevel
<1>2. CASE BuiltinCalls
  <2>1. Top.op = "determineIsSCCallAfter" /\ commands # <<>>
    BY <1>2 DEF BuiltinCalls
  <2>2. CommandHash(Top)
    BY <2>1, TopIndex DEF HashesInOrder, TypeOK
  <2> QED  BY <2>1, <2>2 DEF CommandHash, InputOps
<1>3. CASE MkCall \/ AddAsyncCall \/ DropAsyncLocalCall
  <2>1. /\ ~Entering /\ ~Entering' /\ ~TopIs("resetCallstate")
        /\ commands # <<>> /\ Replace(<<>>) /\ callStack' = callStack
        /\ callState \in CallState
    BY <1>3, MoreInOrder DEF MkCall, AddAsyncCall, DropAsyncLocalCall, TopIs, TypeOK
  <2>2. InputsAsync => InputsAsync'
    BY <2>1, TailPasses, InputsStayAsync
  <2>3. EntersAsync' /\ SavedAsync' /\ NoneBelowSaved'
    BY <2>1 DEF EntersAsync, OneAsyncLevel, SavedAsync, NoneBelowSaved
  <2>4. ASSUME callState'.vmInput = callState.vmInput, ~Inactive(callState)
        PROVE  RunsAsync'
    BY <2>1, <2>2, <2>4 DEF OneAsyncLevel, RunsAsync, ExecutesAsyncCalls
  <2>5. CASE MkCall
    <3>1. /\ callState'.vmInput = Top.input /\ callState'.asyncCalls = <<>>
          /\ Top.op = "mkCall" /\ Top = commands[1] /\ 1 \in 1..Len(commands)
      BY <2>1, <2>5, TopIndex DEF MkCall, CallState, TopIs, Top, TypeOK
    <3>2. NoneBelow'
      BY <3>1 DEF NoneBelow
    <3>3. InputsAsync => IsCallAsync(callState'.vmInput.callType)
      BY <3>1 DEF InputsAsync, InputOps
    <3>4. RunsAsync'
      BY <2>1, <2>2, <3>3 DEF OneAsyncLevel, RunsAsync, ExecutesAsyncCalls
    <3> QED  BY <2>3, <3>2, <3>4 DEF OneAsyncLevel
  <2>6. CASE AddAsyncCall
    <3>1. callState'.vmInput = callState.vmInput /\ Top.op = "addAsyncCall"
      BY <2>1, <2>6 DEF AddAsyncCall, CallState, TopIs, Top
    <3>2. /\ ~Inactive(callState)
          /\ \A i \in 1..Len(callStack) : ~ExecutesAsyncCalls(callStack[i])
      BY <2>1, <3>1, AddedToOneLevel DEF Inactive
    <3>3. RunsAsync'
      BY <2>4, <3>1, <3>2
    <3>4. NoneBelow'
      BY <2>1, <3>2 DEF NoneBelow
    <3> QED  BY <2>3, <3>3, <3>4 DEF OneAsyncLevel
  <2>7. CASE DropAsyncLocalCall
    <3>1. callState'.vmInput = callState.vmInput /\ callState.asyncCalls # <<>>
      BY <2>1, <2>7 DEF DropAsyncLocalCall, CallState
    <3>2. RunsAsync'
      BY <2>4, <3>1 DEF Inactive
    <3>3. NoneBelow'
      BY <2>1, <3>1 DEF OneAsyncLevel, NoneBelow
    <3> QED  BY <2>3, <3>2, <3>3 DEF OneAsyncLevel
  <2> QED  BY <1>3, <2>5, <2>6, <2>7
<1>4. CASE CallsAsync \/ CallsBack \/ CallsDirectly
  <2>1. PICK c : /\ MakesCall(c)
                 /\ ExecutesAsyncCalls(callState)' => IsCallAsync(c.input.callType)
    <3>1. CASE CallsAsync
      <4>1. \E c : MakesCall(c) /\ c.input.callType = "AsynchronousCall"
        BY <3>1 DEF CallsAsync
      <4> QED  BY <4>1 DEF IsCallAsync
    <3>2. CASE CallsBack
      <4>1. \E c : MakesCall(c) /\ c.input.callType = "AsynchronousCallBack"
        BY <3>2 DEF CallsBack
      <4> QED  BY <4>1 DEF IsCallAsync
    <3>3. CASE CallsDirectly
      <4>1. ~Stopped(callState'.instrs) /\ \E c : MakesCall(c)
        BY <3>3 DEF CallsDirectly
      <4>2. ~ExecutesAsyncCalls(callState)'
        BY <4>1 DEF ExecutesAsyncCalls, Stopped
      <4> QED  BY <4>1, <4>2
    <3> QED  BY <1>4, <3>1, <3>2, <3>3
  <2>2. /\ Top.op \in {"executeAsyncLocalCall", "executeAsyncLocalCallback", "endWasm"}
        /\ ~Inactive(callState)
    BY <1>4, HasStarted DEF CallsAsync, CallsBack, CallsDirectly, Inactive
  <2>3. Entering' /\ ~TopIs("resetCallstate") /\ SameCall
    BY <2>1, <2>2, CallInOrder DEF MakesCall
  <2>4. \A i \in 1..Len(commands') : commands'[i].op \in InputOps => commands'[i] = c
    BY <2>1, <2>2, OnlyCall
  <2>5. EntersAsync'
    BY <2>1, <2>4 DEF EntersAsync, InputsAsync
  <2>6. RunsAsync'
    BY <2>2, <2>3 DEF OneAsyncLevel, RunsAsync, ExecutesAsyncCalls, SameCall
  <2> QED  BY <2>3, <2>5, <2>6, KeepsOneLevel DEF OneAsyncLevel
<1>5. CASE PushCallState
  BY <1>5, PushOneLevel
<1>6. CASE PopCallState
  BY <1>6, PopOneLevel
<1>7. CASE ResetCallstate
  <2>1. /\ ~Entering /\ ~Entering' /\ commands # <<>> /\ Replace(<<>>)
        /\ callState' = DefaultCallState /\ callStack' = callStack
    BY <1>7, MoreInOrder DEF ResetCallstate, TopIs
  <2>2. InputsAsync => InputsAsync'
    BY <2>1, TailPasses, InputsStayAsync
  <2>3. EntersAsync' /\ SavedAsync' /\ NoneBelowSaved'
    BY <2>1 DEF EntersAsync, OneAsyncLevel, SavedAsync, NoneBelowSaved
  <2>4. callState'.asyncCalls = <<>> /\ callState'.instrs = <<>>
    BY <2>1 DEF DefaultCallState
  <2>5. NoneBelow'
    BY <2>4 DEF NoneBelow
  <2>6. Inactive(callState)'
    BY <2>4 DEF Inactive, Stopped
  <2>7. RunsAsync'
    BY <2>1, <2>2, <2>6 DEF OneAsyncLevel, RunsAsync, ExecutesAsyncCalls
  <2> QED  BY <2>3, <2>5, <2>7 DEF OneAsyncLevel
<1> QED  BY <1>1, <1>2, <1>3, <1>4, <1>5, <1>6, <1>7 DEF StepKind

LEMMA OneLevelInvariant == ASSUME NoBuiltins PROVE Spec => []OneAsyncLevel
<1>1. ASSUME callStack = <<>>, callState.asyncCalls = <<>>
      PROVE  OneAsyncLevel
  <2>1. Len(callStack) = 0
    BY <1>1, EmptySeq
  <2> QED  BY <1>1, <2>1 DEF OneAsyncLevel, EntersAsync, RunsAsync, SavedAsync, NoneBelow,
                            NoneBelowSaved, ExecutesAsyncCalls
<1>2. Init => OneAsyncLevel
  BY <1>1 DEF Init, DefaultCallState
<1>3. /\ TypeOK /\ CallsInProgress /\ StacksMatchCommands
      /\ WorkInOrder /\ CallbacksInOrder /\ HashesInOrder /\ OneAsyncLevel /\ [Next]_vars
      => OneAsyncLevel'
  <2> SUFFICES ASSUME TypeOK, CallsInProgress, StacksMatchCommands, WorkInOrder,
                      CallbacksInOrder, HashesInOrder, OneAsyncLevel, [Next]_vars
               PROVE  OneAsyncLevel'
    OBVIOUS
  <2>1. CASE UNCHANGED vars \/ Finished
    <3>1. UNCHANGED <<commands, callState, callStack>>
      BY <2>1 DEF Finished, vars
    <3> QED  BY <3>1 DEF OneAsyncLevel, EntersAsync, RunsAsync, SavedAsync, NoneBelow,
                        NoneBelowSaved, ExecutesAsyncCalls, InputsAsync, Entering, Top,
                        TopIs, Inactive
  <2>2. CASE CallTx
    <3>1. UNCHANGED <<callState, callStack>> /\ callStack = <<>>
      BY <2>2, CallTxCall, NothingSaved
    <3>2. callState.asyncCalls = <<>>
      BY <3>1 DEF HashesInOrder
    <3>3. Len(callStack') = 0
      BY <3>1, EmptySeq
    <3> QED  BY <3>1, <3>2, <3>3 DEF OneAsyncLevel, EntersAsync, RunsAsync, SavedAsync,
                                    NoneBelow, NoneBelowSaved, ExecutesAsyncCalls
  <2>3. CASE Step
    <3>1. OutputKnown
      BY DEF CallbacksInOrder, OutputKnown
    <3> QED  BY <2>3, <3>1, StepsHaveKind, OneLevelStep
  <2> QED  BY <2>1, <2>2, <2>3 DEF Next
<1> QED
  BY <1>2, <1>3, TypeCorrect, CallsStayInProgress, StacksMatch, CallbacksStayInOrder,
     HashesStayInOrder, PTL DEF Spec

(* Code that runs on behalf of a caller that executes its async calls, at    *)
(* whatever depth, has registered no async call itself, if no contract can   *)
(* call the builtin ESDTTransfer: the call determineIsSCCallAfter makes is a *)
(* direct one, so the check of registerAsyncCall does not see the async call *)
(* it was made for.                                                          *)
THEOREM AsyncCallsStayOnOneLevel == ASSUME NoBuiltins PROVE Spec => []NoMultilevelAsync
<1>1. TypeOK /\ CallsInProgress /\ OneAsyncLevel => NoMultilevelAsync
  <2> SUFFICES ASSUME TypeOK, CallsInProgress, OneAsyncLevel, InstrIs("code"),
                      callState.asyncCalls # <<>>
               PROVE  \A i \in 1..Len(callStack) : ~ExecutesAsyncCalls(callStack[i])
    BY DEF NoMultilevelAsync
  <2>1. ~TopIs("resetCallstate")
    BY CodeAtEndWasm DEF TopIs, Top
  <2> QED  BY <2>1 DEF OneAsyncLevel, NoneBelow
<1> QED  BY <1>1, TypeCorrect, CallsStayInProgress, OneLevelInvariant, PTL
=============================================================================
