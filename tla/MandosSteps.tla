----------------------------- MODULE MandosSteps -----------------------------
(***************************************************************************)
(* The steps of a scenario: how scenario.py translates a JSON step into    *)
(* Mandos steps, whose rules are in MandosRules.  A translation gives      *)
(* {steps}, or {} when Python raises.                                      *)
(*                                                                         *)
(* JSON objects are functions of the keys they have.  A literal of a       *)
(* number stands for its number, AddressBytes translates the literals of   *)
(* addresses (MandosLiterals), and a storage value is the number its bytes *)
(* encode: 0 is the empty byte string.                                     *)
(***************************************************************************)
EXTENDS EsdtData, FiniteSets, SequencesExt

CONSTANTS AddressBytes,    \* address of every address literal
          NoAddress,       \* the empty byte string as an owner
          Star,            \* '*': not compared
          WatFiles,        \* contract files compiled with wat2wasm
          OtherFiles       \* contract files of an unknown type

Address == {AddressBytes[l] : l \in DOMAIN AddressBytes}

Get(object, key, default) == IF key \in DOMAIN object THEN object[key] ELSE default
GetAddress(object, key) == IF key \in DOMAIN object THEN AddressBytes[object[key]] ELSE NoAddress
Compared(object, key) == key \in DOMAIN object /\ object[key] # Star

(* Lists of results are joined; one that raises makes the whole raise.       *)
Joined(results) == FoldLeft(LAMBDA acc, r : {a \o b : a \in acc, b \in r}, {<<>>}, results)
JoinedOver(results) ==
  LET keys == SetToSeq(DOMAIN results) IN Joined([i \in DOMAIN keys |-> results[keys[i]]])
Optional(object, key, results) == IF key \in DOMAIN object THEN results ELSE {<<>>}

(* ------------------------------ Contract code ---------------------------- *)

(* A code is a set: {} is .Code, {module} a module with its file name.       *)
GetContractCode(code) ==
  CASE code.scheme \in {"file:", "mxsc:"} -> {{code.file}}
    [] code.scheme = ""                   -> {{}}
    [] OTHER                              -> {}

(* A text module is compiled into the output directory and loaded from there. *)
FileToModuleDecl(file) ==
  IF file \in OtherFiles THEN {}
  ELSE {[file |-> file, dir |-> IF file \in WatFiles THEN "output" ELSE "source"]}

SourceName(file) == [file |-> file, dir |-> "source"]

(* The code of a section: .Code, or what the file is loaded as.              *)
CodeOf(sections) ==
  IF "code" \notin DOMAIN sections THEN {{}}
  ELSE UNION {IF path = {} THEN {{}}
              ELSE {{module} : module \in UNION {FileToModuleDecl(f) : f \in path}}
                : path \in GetContractCode(sections.code)}

(* ------------------------------- Translation ----------------------------- *)

ESDT_ROLES == {"ESDTRoleLocalMint", "ESDTRoleLocalBurn", "ESDTRoleNFTCreate",
               "ESDTRoleNFTAddQuantity", "ESDTRoleNFTBurn", "ESDTRoleNFTAddURI",
               "ESDTRoleNFTUpdateAttributes", "ESDTTransferRole", "None"}

TokenBytes(name) == <<name>>              \* "str:" and the name: its bytes

InstanceMetadata(instance) ==
  LET nonce == Get(instance, "nonce", 0)
  IN  IF nonce = 0 THEN {}
      ELSE EsdtMetadata(nonce, GetAddress(instance, "creator"), Get(instance, "uris", <<>>))

(* A token's value is the balance of nonce 0, or an object.                  *)
MandosToEsdtInstances(v) ==
  IF "plain" \in DOMAIN v
  THEN <<[nonce |-> 0, amount |-> v.plain, metadata |-> {}]>>
  ELSE [i \in DOMAIN Get(v, "instances", <<>>) |->
          [nonce |-> Get(v.instances[i], "nonce", 0), amount |-> v.instances[i].balance,
           metadata |-> InstanceMetadata(v.instances[i])]]

MandosToEsdtRoles(op, a, token, v) ==
  IF "roles" \notin DOMAIN v THEN {<<>>}
  ELSE IF v.roles \subseteq ESDT_ROLES
  THEN {<<[op |-> op, addr |-> a, token |-> TokenBytes(token), roles |-> v.roles]>>}
  ELSE {}

SetEsdtSteps(a, token, v) ==
  Joined(<<
    {[i \in DOMAIN MandosToEsdtInstances(v) |->
        [op |-> "setEsdtBalance", addr |-> a, token |-> TokenBytes(token),
         instance |-> MandosToEsdtInstances(v)[i]]]},
    MandosToEsdtRoles("setEsdtRoles", a, token, v),
    Optional(v, "lastNonce",
      {<<[op |-> "setEsdtLastNonce", addr |-> a, token |-> TokenBytes(token),
          nonce |-> v.lastNonce]>>}) >>)

MandosToSetAccount(literal, sections) ==
  LET a == AddressBytes[literal]
      set == {<<[op |-> "setAccount", addr |-> a, nonce |-> Get(sections, "nonce", 0),
                 balance |-> Get(sections, "balance", 0), code |-> code,
                 owner |-> GetAddress(sections, "owner"),
                 storage |-> Get(sections, "storage", EmptyMap)]>> : code \in CodeOf(sections)}
  IN  Joined(<<set, Optional(sections, "esdt",
        JoinedOver([token \in DOMAIN sections.esdt |->
                      SetEsdtSteps(a, token, sections.esdt[token])]))>>)

CheckEsdtSteps(a, token, v) ==
  Joined(<<
    {[i \in DOMAIN MandosToEsdtInstances(v) |->
        [op |-> "checkAccountESDTBalance", addr |-> a, token |-> TokenBytes(token),
         nonce |-> MandosToEsdtInstances(v)[i].nonce,
         balance |-> MandosToEsdtInstances(v)[i].amount]]},
    MandosToEsdtRoles("checkEsdtRoles", a, token, v) >>)

CheckIfGiven(sections, key, results) == IF Compared(sections, key) THEN results ELSE {<<>>}

FieldCheck(op, a, value) == {<<[op |-> op, addr |-> a, value |-> value]>>}

MandosToCheckAccount(literal, sections) ==
  LET a == AddressBytes[literal]
  IN  Joined(<<
        CheckIfGiven(sections, "nonce", FieldCheck("checkAccountNonce", a, sections.nonce)),
        CheckIfGiven(sections, "balance", FieldCheck("checkAccountBalance", a, sections.balance)),
        CheckIfGiven(sections, "storage", FieldCheck("checkAccountStorage", a, sections.storage)),
        CheckIfGiven(sections, "code",
          UNION {FieldCheck("checkAccountCode", a, path)
                   : path \in GetContractCode(sections.code)}),
        CheckIfGiven(sections, "esdt",
          JoinedOver([token \in DOMAIN sections.esdt |->
                        CheckEsdtSteps(a, token, sections.esdt[token])])),
        {<<[op |-> "checkedAccount", addr |-> a]>>} >>)

(* "value" is preferred to "egldValue", which older scenarios use.           *)
GetEgldValue(tx) == Get(tx, "value", Get(tx, "egldValue", 0))

Fee(tx) == tx.gasLimit * Get(tx, "gasPrice", 0)

MandosEsdtToKlist(values) ==
  [i \in DOMAIN values |->
     [token |-> TokenBytes(values[i].tokenIdentifier), value |-> values[i].value,
      nonce |-> Get(values[i], "nonce", 0)]]

MandosToDeployTx(tx) ==
  UNION {{<<[op |-> "deployTx", from |-> AddressBytes[tx.from], value |-> GetEgldValue(tx),
             module |-> module, args |-> tx.arguments, fee |-> Fee(tx)]>>
            : module \in UNION {FileToModuleDecl(f) : f \in path}}
          : path \in GetContractCode(tx.contractCode)}

MandosToCallTx(tx) ==
  {<<[op |-> "callTx", from |-> AddressBytes[tx.from], to |-> AddressBytes[tx.to],
      value |-> GetEgldValue(tx), esdt |-> MandosEsdtToKlist(Get(tx, "esdtValue", <<>>)),
      func |-> tx.function, args |-> Get(tx, "arguments", <<>>), fee |-> Fee(tx)]>>}

MandosToQueryTx(tx) ==
  {<<[op |-> "queryTx", to |-> AddressBytes[tx.to], func |-> tx.function,
      args |-> Get(tx, "arguments", <<>>)]>>}

MandosToTransferTx(tx) ==
  {<<[op |-> "transfer", from |-> AddressBytes[tx.from], to |-> AddressBytes[tx.to],
      value |-> GetEgldValue(tx)]>>}

MandosToValidatorRewardTx(tx) ==
  {<<[op |-> "validatorReward", to |-> AddressBytes[tx.to], value |-> GetEgldValue(tx)]>>}

STATUS_CODES ==
  << "FunctionNotFound", "FunctionWrongSignature", "ContractNotFound", "UserError",
     "OutOfGas", "AccountCollision", "OutOfFunds", "CallStackOverFlow",
     "ContractInvalid", "ExecutionFailed", "UpgradeFailed", "SimulateFailed" >>

IntToKreturncode(status) ==
  CASE status = 0                    -> {"OK"}
    [] status \in DOMAIN STATUS_CODES -> {STATUS_CODES[status]}
    [] OTHER                         -> {}

MandosToExpect(expect) ==
  Joined(<<
    CheckIfGiven(expect, "out", {<<[op |-> "checkExpectOut", value |-> expect.out]>>}),
    CheckIfGiven(expect, "status",
      {<<[op |-> "checkExpectStatus", value |-> rc]>> : rc \in IntToKreturncode(expect.status)}),
    CheckIfGiven(expect, "message",
      {<<[op |-> "checkExpectMessage", value |-> expect.message]>>}) >>)

BlockFields == <<"blockTimestamp", "blockNonce", "blockRound", "blockEpoch", "blockRandomSeed">>

MandosToBlockInfo(which, info) ==
  Joined([i \in DOMAIN BlockFields |->
    Optional(info, BlockFields[i],
      {<<[op |-> "setBlockInfo", block |-> which, field |-> BlockFields[i],
          value |-> info[BlockFields[i]]]>>})])

GetStepsNewAddresses(list) ==
  {[i \in DOMAIN list |-> [op |-> "newAddress", creator |-> AddressBytes[list[i].creatorAddress],
                           nonce |-> list[i].creatorNonce,
                           new |-> AddressBytes[list[i].newAddress]]]}

GetStepsSetState(step) ==
  Joined(<<
    Optional(step, "accounts",
      JoinedOver([l \in DOMAIN step.accounts |-> MandosToSetAccount(l, step.accounts[l])])),
    Optional(step, "newAddresses", GetStepsNewAddresses(step.newAddresses)),
    Optional(step, "currentBlockInfo", MandosToBlockInfo("cur", step.currentBlockInfo)),
    Optional(step, "previousBlockInfo", MandosToBlockInfo("prev", step.previousBlockInfo)) >>)
  \ {<<>>}                                       \* an empty step is refused

GetStepsCheckState(step) ==
  IF "accounts" \notin DOMAIN step THEN {<<>>}
  ELSE LET listed == DOMAIN step.accounts \ {"+"}
           others == IF "+" \in DOMAIN step.accounts THEN <<>>
                     ELSE <<[op |-> "checkNoAdditionalAccounts",
                             value |-> {AddressBytes[l] : l \in listed}]>>
       IN  Joined(<<JoinedOver([l \in listed |-> MandosToCheckAccount(l, step.accounts[l])]),
                    {others}, {<<[op |-> "clearCheckedAccounts"]>>} >>)

WithExpect(step, tx) == Joined(<<tx, Optional(step, "expect", MandosToExpect(step.expect))>>)

(* One step of a scenario file, the external ones excepted.                  *)
GetSteps(step) ==
  CASE step.step = "setState"        -> GetStepsSetState(step)
    [] step.step = "checkState"      -> GetStepsCheckState(step)
    [] step.step = "scDeploy"        -> WithExpect(step, MandosToDeployTx(step.tx))
    [] step.step = "scCall"          -> WithExpect(step, MandosToCallTx(step.tx))
    [] step.step = "scQuery"         -> WithExpect(step, MandosToQueryTx(step.tx))
    [] step.step = "transfer"        -> MandosToTransferTx(step.tx)
    [] step.step = "validatorReward" -> MandosToValidatorRewardTx(step.tx)
    [] OTHER                         -> {}
===============================================================================
