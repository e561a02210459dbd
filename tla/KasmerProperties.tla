--------------------------- MODULE KasmerProperties ---------------------------
(***************************************************************************)
(* What a passed property test means.                                      *)
(***************************************************************************)
EXTENDS Kasmer

Accounts == [Address -> Account \cup {NoAccount}]
StepLists == {DeploySteps, Tail(DeploySteps), Tail(Tail(DeploySteps)),
              Tail(Tail(Tail(DeploySteps))), TestSteps, Tail(TestSteps),
              Tail(Tail(TestSteps)), Tail(Tail(Tail(TestSteps))), <<>>}
DeployedConfig ==
  [accounts : Accounts, newAddresses : SUBSET NewAddressEntry, callState : Frame,
   prank : BOOLEAN, vmOutput : ReturnCode, exitCode : {0, 1}]

(* Every call in progress has saved its caller and a world, the first one    *)
(* the state outside of all calls, and no call is in progress exactly when   *)
(* no instructions are left: on every way out of a call, an assumption that  *)
(* fails in a nested one included.                                           *)
CallsAreNested ==
  /\ Len(callStack) = Len(interimStates)
  /\ (callState.instr = "none") <=> (callStack = <<>>)
  /\ \A i \in DOMAIN callStack : (callStack[i].instr = "none") <=> (i = Len(callStack))
  /\ \A i \in DOMAIN callStack :
       callStack[i].instr \in {"none", "code", "finishExecuteOnDestContext"}

(* Every cell holds a value of its sort, and calls are nested.               *)
TypeOK ==
  /\ stage \in Stage
  /\ examples \in 0..MaxExamples
  /\ deployed \in DeployedConfig /\ deployed.callState.instr = "none"
  /\ k \in StepLists
  /\ exitCode \in {0, 1}
  /\ accounts \in Accounts
  /\ newAddresses \subseteq NewAddressEntry
  /\ wasmStore \subseteq Paths
  /\ callState \in Frame
  /\ callStack \in Seq(Frame) /\ interimStates \in Seq(Accounts)
  /\ prank \in BOOLEAN /\ assumed \in BOOLEAN
  /\ vmOutput \in ReturnCode
  /\ calls \in 0..MaxCalls
  /\ CallsAreNested

(* A run that the program counts as passed, by its exit code alone, either   *)
(* executed the endpoint to the end with status OK, or gave up at an         *)
(* assumption that does not hold: no run that got stuck, that failed, or     *)
(* whose call never started has exit code 0 (kasmer.py:215-253, 293-315).    *)
ExitCodeSound ==
  (stage = "run" /\ Stopped /\ exitCode = 0) =>
    assumed \/ (k = <<>> /\ vmOutput = "OK")

(* A contract that a test can call was deployed, with the code it has, by    *)
(* init, or its account was made anew without code: what a run deploys, in   *)
(* any order with pranks, failures and other runs, nothing keeps, and in     *)
(* fact no run can deploy, because deploy_test empties <wasmStore> (118).    *)
ContractsComeFromInit ==
  stage = "run" =>
    \A a \in Address :
      (accounts[a] # NoAccount /\ accounts[a].code # {}) =>
        /\ deployed.accounts[a] # NoAccount
        /\ accounts[a].code = deployed.accounts[a].code

(* Code that is not impersonating an account acts as the contract it belongs *)
(* to, and only the test contract impersonates: after calls, failed calls    *)
(* and stopPrank alike.  It holds while calls do not come back to the test   *)
(* contract and no other contract uses the prank functions, because <prank>  *)
(* is one cell for all calls and <callee> one per call (kasmer.md:589-632).  *)
ImpersonationIsVisible ==
  (Running /\ callState.instr = "code") =>
    \/ callState.callee = callState.runner
    \/ callState.runner = TestSc /\ prank

(* In a test, a failure can always be reported and rolled back: the output   *)
(* of an earlier call was consumed, or there is none, when an exception is   *)
(* thrown.  (In init it may not: deployContract leaves its <vmOutput>.)      *)
FailuresInTestsAreCaught ==
  (stage = "run" /\ callState.instr = "exception") => vmOutput = "none"

(* A claim is about the runs that the fuzzer makes: they begin in its left   *)
(* side unless init left a prank open, and a run that passed ends in its     *)
(* right side unless the test registered an address, left a prank open, or   *)
(* failed an assumption, which leaves the call state of the test behind      *)
(* (kasmer.py:330-378).                                                      *)
ClaimsMatchPassedRuns ==
  stage = "run" =>
    /\ (k = TestSteps /\ callState.instr = "none") => (MatchesLhs <=> ~deployed.prank)
    /\ (Stopped /\ exitCode = 0) =>
         (MatchesRhs <=> /\ newAddresses = deployed.newAddresses
                         /\ ~prank
                         /\ assumed => deployed.callState.callee = callState.callee)

(* A failed transaction of a test leaves the accounts as the run found them, *)
(* the nonce of the sender aside: whatever the test API set is taken back    *)
(* with the effects of the calls.                                            *)
FailedTestsAreRolledBack ==
  (stage = "run" /\ callStack = <<>> /\ k = Tail(Tail(TestSteps)) /\ vmOutput # "OK") =>
    accounts = [deployed.accounts EXCEPT ![Root].nonce = @ + 1]

(* Every endpoint gets a verdict: code that ends, bounded examples and a     *)
(* stuck interpreter that is noticed leave nothing to wait for.              *)
KasmerEnds == <>(stage \in {"passed", "failed"})
===============================================================================
