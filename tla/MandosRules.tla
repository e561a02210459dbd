----------------------------- MODULE MandosRules -----------------------------
(***************************************************************************)
(* What a Mandos step does to the configuration: the rules of mandos.md,   *)
(* with the account commands they queue (elrond-config.md).  A step gives  *)
(* the set of the next configurations: {} when no rule applies, so that    *)
(* the step, or what is behind it, stays in <k>.                           *)
(*                                                                         *)
(* A contract call is one step with the outcome that AtomicTransactions    *)
(* promises: committed, or no effect.  It calls a builtin function, or the *)
(* code of a contract.  That code, which the repository does not fix, is   *)
(* the same for every module here: "set" and "init" store their argument,  *)
(* "get" returns what is stored, "fail" signals an error.                  *)
(***************************************************************************)
EXTENDS MandosSteps, EsdtBuiltins

CONSTANTS ReservedKeys,    \* storage keys that begin with ELROND
          RewardKey,       \* ELRONDreward
          StorageKey,      \* the key that contract code writes
          SystemModule     \* code of SystemAccount, the ESDT system contract

ASSUME RulesAssumption ==
  /\ RewardKey \in ReservedKeys /\ StorageKey \notin ReservedKeys
  /\ SystemAccount \notin Address

Exports == {"init", "set", "get", "fail"}

(* ----------------------------- Configuration ----------------------------- *)

NewAccount == [nonce |-> 0, balance |-> 0, owner |-> NoAddress, code |-> {},
               storage |-> EmptyMap, esdt |-> EmptyMap]

NoVMOutput == [returnCode |-> "none", message |-> "", out |-> <<>>, tx |-> 0]

(* The snapshot that runtime.py makes: an initial configuration in which the *)
(* ESDT system contract was set up, and <k> was checked to be empty.  The    *)
(* number of the transaction in vmOutput is a history of the model.          *)
InitialConfig == [accounts |-> EmptyMap, newAddresses |-> EmptyMap, checked |-> {},
                  vmOutput |-> NoVMOutput, txCount |-> 0, blocks |-> EmptyMap]

IsAccount(c, a) == a \in DOMAIN c.accounts

CreateAccount(accounts, a) ==
  IF a \in DOMAIN accounts THEN accounts ELSE Put(accounts, a, NewAccount)

(* -------------------------------- setState ------------------------------- *)

(* What setAccount does not list, the token data, is kept.                   *)
MergesStorage(c, s) ==                                                  \* mutant
  {[c EXCEPT !.accounts = Put(@, s.addr,
      [CreateAccount(@, s.addr)[s.addr] EXCEPT !.nonce = s.nonce, !.balance = s.balance,
         !.code = s.code, !.owner = s.owner,
         !.storage = [k \in DOMAIN @ \cup DOMAIN s.storage |-> Get(s.storage, k, Get(@, k, 0))]])]}
SetAccount(c, s) ==
  {[c EXCEPT !.accounts = Put(@, s.addr,
      [CreateAccount(@, s.addr)[s.addr] EXCEPT !.nonce = s.nonce, !.balance = s.balance,
         !.code = s.code, !.owner = s.owner, !.storage = s.storage])]}

EsdtOf(c) == [a \in DOMAIN c.accounts |-> c.accounts[a].esdt]
WithEsdt(c, d) ==
  [c EXCEPT !.accounts = [a \in DOMAIN @ |-> [@[a] EXCEPT !.esdt = d[a]]]]

Entry(c, a, key) == EntryOrNew(EsdtOf(c), a, key)
UpdateEntry(c, a, key, entry) ==
  IF IsAccount(c, a) THEN {WithEsdt(c, SetEntry(EsdtOf(c), a, key, entry))} ELSE {}

SetEsdtBalance(c, s) ==
  LET key == KeyWithNonce(s.token, s.instance.nonce)
  IN  UpdateEntry(c, s.addr, key, [Entry(c, s.addr, key) EXCEPT !.balance = s.instance.amount,
                                                                !.metadata = s.instance.metadata])
SetEsdtLastNonce(c, s) ==
  LET key == KeyWithNonce(s.token, 0)
  IN  UpdateEntry(c, s.addr, key, [Entry(c, s.addr, key) EXCEPT !.lastNonce = s.nonce])
SetEsdtRoles(c, s) ==
  LET key == KeyWithNonce(s.token, 0)
  IN  UpdateEntry(c, s.addr, key, [Entry(c, s.addr, key) EXCEPT !.roles = s.roles])

NewAddress(c, s) == {[c EXCEPT !.newAddresses = Put(@, <<s.creator, s.nonce>>, s.new)]}

SetBlockInfo(c, s) == {[c EXCEPT !.blocks = Put(@, <<s.block, s.field>>, s.value)]}

(* ------------------------------- checkState ------------------------------ *)

Check(c, holds) == IF holds THEN {c} ELSE {}
CheckAccount(c, a, holds) == Check(c, IsAccount(c, a) /\ holds)

CheckAccountNonce(c, s) == CheckAccount(c, s.addr, c.accounts[s.addr].nonce = s.value)
CheckAccountBalance(c, s) == CheckAccount(c, s.addr, c.accounts[s.addr].balance = s.value)

RemoveEmptyBytes(m) == [k \in {x \in DOMAIN m : m[x] # 0} |-> m[k]]
RemoveReservedKeys(m) == [k \in DOMAIN m \ ReservedKeys |-> m[k]]

ChecksGivenKeysOnly(c, s) ==                                            \* mutant
  CheckAccount(c, s.addr,
    \A k \in DOMAIN s.value : s.value[k] = Get(c.accounts[s.addr].storage, k, 0))
CheckAccountStorage(c, s) ==
  CheckAccount(c, s.addr,
    RemoveReservedKeys(c.accounts[s.addr].storage) = RemoveEmptyBytes(s.value))

(* The path in the scenario against the file the module was loaded from.     *)
CheckAccountCode(c, s) ==
  CheckAccount(c, s.addr, c.accounts[s.addr].code = {SourceName(f) : f \in s.value})

CheckAccountESDTBalance(c, s) ==
  LET key == KeyWithNonce(s.token, s.nonce)
      esdt == c.accounts[s.addr].esdt
  IN  CheckAccount(c, s.addr,
        IF key \in DOMAIN esdt THEN esdt[key].balance = s.balance ELSE s.balance = 0)

CheckEsdtRoles(c, s) ==
  LET key == KeyWithNonce(s.token, 0)
      esdt == c.accounts[s.addr].esdt
  IN  CheckAccount(c, s.addr, key \in DOMAIN esdt /\ esdt[key].roles = s.roles)

(* An account is added to the set once: two literals of one address get stuck. *)
CheckedAccount(c, s) ==
  IF s.addr \in c.checked THEN {} ELSE {[c EXCEPT !.checked = @ \cup {s.addr}]}

CheckNoAdditionalAccounts(c, s) == Check(c, s.value = c.checked)
KeepsCheckedAccounts(c) == {c}                                          \* mutant
ClearCheckedAccounts(c) == {[c EXCEPT !.checked = {}]}

(* ------------------------------ Transactions ----------------------------- *)

ContractStores(accounts, to, v) ==
  [accounts EXCEPT ![to].storage = IF v = 0 THEN Without(@, StorageKey)
                                   ELSE Put(@, StorageKey, v)]

Argument(args) == IF args = <<>> THEN 0 ELSE args[1]

SelfTransferMints(accounts, from, to, value) ==                         \* mutant
  [accounts EXCEPT ![from].balance = @ - value,
                   ![to].balance = accounts[to].balance + value]
MoveEgld(accounts, from, to, value) ==
  IF from = to THEN accounts
  ELSE [accounts EXCEPT ![from].balance = @ - value, ![to].balance = @ + value]

(* How a call ends: with a configuration and an output, or with an exception. *)
Ends(c, out) == {[status |-> "OK", config |-> c, out |-> out]}
Fails(code) == {[status |-> code, out |-> <<>>]}

MkCall(c, to, func, args) ==
  IF func \notin Exports THEN Fails("FunctionNotFound")
  ELSE IF func = "fail" THEN Fails("UserError")
  ELSE IF func = "get" THEN Ends(c, <<Get(c.accounts[to].storage, StorageKey, 0)>>)
  ELSE Ends([c EXCEPT !.accounts = ContractStores(@, to, Argument(args))], <<>>)

(* The call that a transfer names is made when the receiver is a contract.   *)
DetermineIsSCCallAfter(c, o) ==
  IF \E call \in o.call : c.accounts[call.to].code # {}
  THEN UNION {MkCall(c, call.to, call.func, call.args) : call \in o.call}
  ELSE Ends(c, o.out)

BuiltinOutcomes(c, from, to, value, func, args) ==
  UNION {IF o.status = "OK" THEN DetermineIsSCCallAfter(WithEsdt(c, o.data), o)
         ELSE Fails(o.status)
           : o \in ProcessBuiltinFunction(EsdtOf(c), func, from, to, value, args)}

CallContractAux(c, from, to, value, func, args) ==
  IF func \in Builtins THEN BuiltinOutcomes(c, from, to, value, func, args)
  ELSE IF func = "callBack" THEN Fails("ExecutionFailed")
  ELSE IF c.accounts[to].code = {} THEN Fails("ContractNotFound")
  ELSE MkCall(c, to, func, args)

(* The EGLD, then the tokens of the call, or {} when these are not there.    *)
Payments(c, from, to, value, esdt) ==
  {[WithEsdt(c, d) EXCEPT !.accounts = MoveEgld(@, from, to, value)]
     : d \in TransferESDTs(EsdtOf(c), from, to, esdt)}

CallOutcomes(c, from, to, value, esdt, func, args) ==
  IF ~({from, to} \subseteq DOMAIN c.accounts) THEN Fails("ExecutionFailed")
  ELSE IF value > c.accounts[from].balance \/ Payments(c, from, to, value, esdt) = {}
  THEN Fails("OutOfFunds")
  ELSE UNION {CallContractAux(p, from, to, value, func, args)
                : p \in Payments(c, from, to, value, esdt)}

Output(e, tx) ==
  [returnCode |-> e.status, message |-> IF e.status = "OK" THEN "" ELSE e.status,
   out |-> e.out, tx |-> tx]

(* An exception restores the configuration; a builtin may get stuck.         *)
KeepsOldOutput(c, from, to, value, esdt, func, args) ==                 \* mutant
  {IF e.status = "OK" THEN [e.config EXCEPT !.vmOutput = Output(e, c.txCount)] ELSE c
     : e \in CallOutcomes(c, from, to, value, esdt, func, args)}
CallContract(c, from, to, value, esdt, func, args) ==
  {[(IF e.status = "OK" THEN e.config ELSE c) EXCEPT !.vmOutput = Output(e, c.txCount)]
     : e \in CallOutcomes(c, from, to, value, esdt, func, args)}

(* The fee is taken and the nonce used, whatever the call does.              *)
Sent(c, from, fee) ==
  [c EXCEPT !.accounts[from].nonce = @ + 1, !.accounts[from].balance = @ - fee,
            !.txCount = @ + 1]

CallTx(c, s) ==
  IF IsAccount(c, s.from)
  THEN CallContract(Sent(c, s.from, s.fee), s.from, s.to, s.value, s.esdt, s.func, s.args)
  ELSE {}

QueryTx(c, s) ==
  CallContract([c EXCEPT !.txCount = @ + 1], s.to, s.to, 0, <<>>, s.func, s.args)

(* The new account is made and gets its code before the call of init: a      *)
(* failed init leaves it behind.                                             *)
DeployTx(c, s) ==
  IF IsAccount(c, s.from) /\ <<s.from, c.accounts[s.from].nonce>> \in DOMAIN c.newAddresses
  THEN LET new  == c.newAddresses[<<s.from, c.accounts[s.from].nonce>>]
           sent == Sent(c, s.from, s.fee)
           made == [sent EXCEPT !.accounts = Put(@, new,
                      [CreateAccount(@, new)[new] EXCEPT !.owner = s.from, !.code = {s.module}])]
       IN  CallContract(made, s.from, new, s.value, <<>>, "init", s.args)
  ELSE {}

UseNonce(accounts, a) == [accounts EXCEPT ![a].nonce = @ + 1]

(* Without an #endWasm below it, a failed transfer leaves its exception.     *)
TransferTx(c, s) ==
  IF {s.from, s.to} \subseteq DOMAIN c.accounts /\ s.value <= c.accounts[s.from].balance
  THEN {[c EXCEPT !.accounts = UseNonce(MoveEgld(@, s.from, s.to, s.value), s.from)]}
  ELSE {}

Reward(acct, value) ==
  [acct EXCEPT !.storage = Put(@, RewardKey, Get(@, RewardKey, 0) + value),
               !.balance = @ + value]

ValidatorRewardTx(c, s) ==
  IF IsAccount(c, s.to) THEN {[c EXCEPT !.accounts[s.to] = Reward(@, s.value)]} ELSE {}

(* ------------------------------ All the steps ---------------------------- *)

StepResults(c, s) ==
  CASE s.op = "setAccount"                -> SetAccount(c, s)
    [] s.op = "setEsdtBalance"            -> SetEsdtBalance(c, s)
    [] s.op = "setEsdtLastNonce"          -> SetEsdtLastNonce(c, s)
    [] s.op = "setEsdtRoles"              -> SetEsdtRoles(c, s)
    [] s.op = "newAddress"                -> NewAddress(c, s)
    [] s.op = "setBlockInfo"              -> SetBlockInfo(c, s)
    [] s.op = "checkAccountNonce"         -> CheckAccountNonce(c, s)
    [] s.op = "checkAccountBalance"       -> CheckAccountBalance(c, s)
    [] s.op = "checkAccountStorage"       -> CheckAccountStorage(c, s)
    [] s.op = "checkAccountCode"          -> CheckAccountCode(c, s)
    [] s.op = "checkAccountESDTBalance"   -> CheckAccountESDTBalance(c, s)
    [] s.op = "checkEsdtRoles"            -> CheckEsdtRoles(c, s)
    [] s.op = "checkedAccount"            -> CheckedAccount(c, s)
    [] s.op = "checkNoAdditionalAccounts" -> CheckNoAdditionalAccounts(c, s)
    [] s.op = "clearCheckedAccounts"      -> ClearCheckedAccounts(c)
    [] s.op = "callTx"                    -> CallTx(c, s)
    [] s.op = "queryTx"                   -> QueryTx(c, s)
    [] s.op = "deployTx"                  -> DeployTx(c, s)
    [] s.op = "transfer"                  -> TransferTx(c, s)
    [] s.op = "validatorReward"           -> ValidatorRewardTx(c, s)
    [] s.op = "checkExpectOut"            -> Check(c, c.vmOutput.out = s.value)
    [] s.op = "checkExpectStatus"         -> Check(c, c.vmOutput.returnCode = s.value)
    [] s.op = "checkExpectMessage"        -> Check(c, c.vmOutput.message = s.value)

(* The template every file starts from.                                      *)
TemplateConfig ==
  CHOOSE c \in SetAccount(InitialConfig,
                 [addr |-> SystemAccount, nonce |-> 0, balance |-> 0, code |-> {SystemModule},
                  owner |-> NoAddress, storage |-> EmptyMap]) : TRUE
===============================================================================
