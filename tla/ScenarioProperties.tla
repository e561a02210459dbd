-------------------------- MODULE ScenarioProperties --------------------------
(***************************************************************************)
(* What a run of scenario files promises to the people who write them.     *)
(***************************************************************************)
EXTENDS ScenarioRun

CONSTANT Descriptions    \* account objects of a scenario file, for the checks

ASSUME DescriptionsAssumption ==
  \A d \in Descriptions : Compared(d, "esdt") => IsTokens(d.esdt)

(* No file includes itself, directly or through others.                      *)
ASSUME InclusionAssumption ==
  \A fs \in FileSystems :
    /\ IsFiniteSet(DOMAIN fs)
    /\ \E rank \in [DOMAIN fs -> 0..Cardinality(DOMAIN fs)] :
         \A f \in DOMAIN fs : \A i \in DOMAIN fs[f] :
           IsExternal(fs[f][i]) /\ fs[f][i].path \in DOMAIN fs =>
             rank[fs[f][i].path] < rank[f]

(* Files are being read in phase "read" only, the steps of a run are in <k>  *)
(* only while the interpreter runs, and the configuration holds accounts     *)
(* with natural nonces.                                                      *)
TypeOK ==
  /\ logLevel \in LogLevel /\ phase \in Phase
  /\ phase # "failed" => ((reading # <<>>) <=> (phase = "read"))
  /\ phase \notin {"krun", "failed"} => k = <<>>
  /\ phase = "next" => kSteps = <<>> \/ tests # <<>>
  /\ config.txCount \in Nat
  /\ \A a \in DOMAIN config.accounts : config.accounts[a].nonce \in Nat

(* -------------------------- The meaning of a run ------------------------- *)

(* The steps of every file, external files expanded in place; {} for a file  *)
(* with a step, here or in such a file, that cannot be translated.           *)
Expanded(step, fs, program) ==
  IF ~IsExternal(step) THEN GetSteps(step)
  ELSE IF step.path \in DOMAIN fs THEN program[step.path] ELSE {}
Programs(fs) ==
  LET program[file \in DOMAIN fs] ==
        Joined([i \in DOMAIN fs[file] |-> Expanded(fs[file][i], fs, program)])
  IN  program

Scenario == INSTANCE AbstractScenario WITH
  verdict <- IF phase \in {"passed", "failed"} THEN phase ELSE "running",
  todo <- IF phase \in {"next", "read", "passed"} \/ (phase = "failed" /\ reading # <<>>)
          THEN {} ELSE {k \o FlattenSeq(kSteps)}

(* The program does what a scenario means, whatever the log level: external  *)
(* files are expanded where they are named, a file starts from the template  *)
(* and not from what the last file left, steps grouped in one interpreter    *)
(* run and steps run one by one have the same effect and the same verdict,   *)
(* and nothing is executed of a file that cannot be read to its end          *)
(* (scenario.py:717-796, 830-846).                                           *)
FollowsScenario == Scenario!Spec

(* Every run of scenario files that do not include themselves ends with a    *)
(* verdict: reading consumes the files, and a stuck interpreter is noticed   *)
(* (scenario.py:789-794).                                                    *)
ScenariosEnd == <>(phase \in {"passed", "failed"})

(* --------------------------- setState, checkState ------------------------ *)

Unchecked(c) == [c EXCEPT !.checked = {}]

(* The configurations after a list of steps: none if one of them is stuck.   *)
AfterSteps(c, steps) ==
  LET after[i \in 0..Len(steps)] ==
        IF i = 0 THEN {c} ELSE UNION {StepResults(d, steps[i]) : d \in after[i - 1]}
  IN  after[Len(steps)]

Passes(c, translated) == \E steps \in translated : AfterSteps(Unchecked(c), steps) # {}

(* A description that a check sees as it was set: empty values are dropped   *)
(* from the description, reserved keys from the account, compiled code is    *)
(* loaded from another file, and of an instance listed twice one is kept.    *)
Restorable(d) ==
  /\ "storage" \in DOMAIN d =>
       \A key \in DOMAIN d.storage : d.storage[key] = 0 <=> key \in ReservedKeys
  /\ "code" \in DOMAIN d => d.code.scheme = "" \/ d.code.file \notin WatFiles
  /\ "esdt" \in DOMAIN d => \A token \in DOMAIN d.esdt :
       LET instances == MandosToEsdtInstances(d.esdt[token])
       IN  \A i, j \in DOMAIN instances :
             instances[i].nonce = instances[j].nonce => instances[i].amount = instances[j].amount

(* An account that a setState step describes passes a checkState step with   *)
(* the same description, exactly if it can be restored: the two translations *)
(* (scenario.py:295-333 and 404-442) and their rules agree on every field,   *)
(* on whatever account was there before.  '*' is for checks only.            *)
SetStateChecksBack ==
  phase = "run" =>
    \A l \in DOMAIN AddressBytes, d \in Descriptions :
      (\A key \in DOMAIN d : d[key] # Star) /\ MandosToSetAccount(l, d) # {} =>
        (Passes(config, Joined(<<MandosToSetAccount(l, d), MandosToCheckAccount(l, d)>>))
           <=> Restorable(d))

EsdtBalance(acct, token, nonce) ==
  LET key == KeyWithNonce(TokenBytes(token), nonce)
  IN  IF key \in DOMAIN acct.esdt THEN acct.esdt[key].balance ELSE 0

AgreesOnToken(acct, token, v) ==
  LET key == KeyWithNonce(TokenBytes(token), 0)
  IN  /\ IF "plain" \in DOMAIN v THEN EsdtBalance(acct, token, 0) = v.plain
         ELSE \A i \in DOMAIN Get(v, "instances", <<>>) :
                EsdtBalance(acct, token, Get(v.instances[i], "nonce", 0)) = v.instances[i].balance
      /\ "roles" \in DOMAIN v => key \in DOMAIN acct.esdt /\ acct.esdt[key].roles = v.roles

(* An account may hold the empty value under a key, which no description of  *)
(* its storage then matches, and a reserved key can only be described empty. *)
AgreesOnStorage(stored, described) ==
  /\ \A key \in (DOMAIN stored \cup DOMAIN described) \ ReservedKeys :
       Get(stored, key, 0) = Get(described, key, 0)
  /\ \A key \in DOMAIN stored \ ReservedKeys : stored[key] # 0
  /\ \A key \in DOMAIN described \cap ReservedKeys : described[key] = 0

Agrees(acct, d) ==
  /\ Compared(d, "nonce") => acct.nonce = d.nonce
  /\ Compared(d, "balance") => acct.balance = d.balance
  /\ Compared(d, "storage") => AgreesOnStorage(acct.storage, d.storage)
  /\ Compared(d, "code") =>
       acct.code = IF d.code.scheme = "" THEN {} ELSE {[file |-> d.code.file, dir |-> "source"]}
  /\ Compared(d, "esdt") => \A token \in DOMAIN d.esdt : AgreesOnToken(acct, token, d.esdt[token])

(* A description that is compared with something: the others are accepted    *)
(* for an account that does not exist, too (mandos.md:526).                  *)
ComparesSomething(d) ==
  \/ \E key \in {"nonce", "balance", "storage", "code"} : Compared(d, key)
  \/ Compared(d, "esdt") /\ \E token \in DOMAIN d.esdt :
       {"plain", "roles"} \cap DOMAIN d.esdt[token] # {}
         \/ Get(d.esdt[token], "instances", <<>>) # <<>>

(* A checkState step that can be translated accepts an account exactly if    *)
(* the nonce, the balance, the storage on the keys of both sides, the file   *)
(* of the code, and the balances and roles of tokens have the values it      *)
(* describes and does not leave open with '*'.  Nothing else decides: the    *)
(* owner, the last nonces and the metadata of NFTs are set by setState, but  *)
(* translated into no check, so that a description with another owner or     *)
(* creator passes (scenario.py:404-442, with the TODO at 431; the rules are  *)
(* at mandos.md:390-535).                                                    *)
ChecksAreExact ==
  phase = "run" =>
    \A l \in DOMAIN AddressBytes, d \in Descriptions :
      LET a == AddressBytes[l]
      IN  Passes(config, MandosToCheckAccount(l, d)) <=>
            /\ MandosToCheckAccount(l, d) # {}
            /\ IF IsAccount(config, a) THEN Agrees(config.accounts[a], d)
               ELSE ~ComparesSomething(d)

CheckingOps == {"checkAccountNonce", "checkAccountBalance", "checkAccountStorage",
                "checkAccountCode", "checkAccountESDTBalance", "checkEsdtRoles",
                "checkedAccount", "checkNoAdditionalAccounts", "clearCheckedAccounts"}

(* The accounts checked by one checkState step are forgotten before the next *)
(* step of any kind begins, in the same interpreter run or in a later one:   *)
(* a left-over one would make the next check of that account stuck           *)
(* (scenario.py:713, mandos.md:526).                                         *)
ChecksAreForgotten ==
  /\ phase = "run" => config.checked = {}
  /\ phase = "krun" /\ k # <<>> /\ Head(k).op \notin CheckingOps => config.checked = {}

(* ------------------------------ Transactions ----------------------------- *)

(* What an "expect" section is compared with is the outcome of the call it   *)
(* belongs to, and of no earlier one: every call leaves an output of its own *)
(* and no other step is put between the two (scenario.py:616-663).           *)
ExpectationsConcernTheirTransaction ==
  (phase = "krun" /\ k # <<>> /\
   Head(k).op \in {"checkExpectOut", "checkExpectStatus", "checkExpectMessage"}) =>
    /\ config.vmOutput.tx = config.txCount
    /\ config.vmOutput.returnCode # NoVMOutput.returnCode

TotalEgld(c) == FoldFunction(LAMBDA x, y : x + y, 0,
                             [a \in DOMAIN c.accounts |-> c.accounts[a].balance])

SetBalance(c, s) == s.balance - (IF IsAccount(c, s.addr) THEN c.accounts[s.addr].balance ELSE 0)

MintedBy(c, s) ==
  CASE s.op = "setAccount"               -> SetBalance(c, s)
    [] s.op = "validatorReward"          -> s.value
    [] s.op \in {"callTx", "deployTx"}   -> -s.fee
    [] OTHER                             -> 0

(* A query leaves the accounts as they were, what mandos.md:648 asks for:    *)
(* "make sure that none of the state changes are persisted".                 *)
QueriesChangeNothing ==
  [][config' # config /\ phase = "krun" /\ Head(k).op = "queryTx" =>
       config'.accounts = config.accounts]_vars

(* A Mandos step changes the EGLD of all accounts together by what it sets,  *)
(* rewards or takes as a fee, and by nothing else: also for a transfer to    *)
(* oneself, a call that fails, and a deployment on an address that exists.   *)
EgldIsAccounted ==
  [][config' # config /\ phase = "krun" =>
       TotalEgld(config') = TotalEgld(config) + MintedBy(config, Head(k))]_vars

(* The step named checkNoAdditionalAccounts accepts a state only if no       *)
(* account exists besides the ones the checkState step lists and the ESDT    *)
(* system contract of the template.                                          *)
NoAdditionalAccounts ==
  (phase = "krun" /\ k # <<>> /\ Head(k).op = "checkNoAdditionalAccounts"
   /\ StepResults(config, Head(k)) # {}) =>
    DOMAIN config.accounts \subseteq Head(k).value \cup {SystemAccount}
===============================================================================
