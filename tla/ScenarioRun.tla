----------------------------- MODULE ScenarioRun -----------------------------
(***************************************************************************)
(* run_tests: scenario files are read, translated and executed, one after  *)
(* the other.  A file is read to its end, external files in place of the   *)
(* steps that name them, before anything runs; then its steps are executed *)
(* in one run of the interpreter, or in one run per step with              *)
(* --log-level per-step, each run beginning with the configuration the     *)
(* last one ended with.  A failure ends the program.                       *)
(***************************************************************************)
EXTENDS MandosRules

CONSTANTS FileSystems,     \* what scenario files hold: name -> steps
          TestLists        \* arguments of the command line

(* Files hold JSON: arrays are lists, objects have finitely many keys, and    *)
(* what is used as a number is one.  The files to run exist.                 *)
IsList(s) == Len(s) \in Nat /\ s = [i \in 1..Len(s) |-> s[i]]
IsTokens(esdt) ==
  IsFiniteSet(DOMAIN esdt) /\ \A t \in DOMAIN esdt : IsList(Get(esdt[t], "instances", <<>>))
IsAccounts(accounts) ==
  /\ IsFiniteSet(DOMAIN accounts)
  /\ \A l \in DOMAIN accounts \ {"+"} :
       Compared(accounts[l], "esdt") => IsTokens(accounts[l].esdt)
IsJsonStep(step) ==
  /\ "accounts" \in DOMAIN step => IsAccounts(step.accounts)
  /\ step.step = "setState" =>
       /\ IsList(Get(step, "newAddresses", <<>>))
       /\ \A l \in DOMAIN Get(step, "accounts", EmptyMap) :
            /\ Get(step.accounts[l], "nonce", 0) \in Nat
            /\ Get(step.accounts[l], "balance", 0) \in Int
            /\ "esdt" \in DOMAIN step.accounts[l] => IsTokens(step.accounts[l].esdt)
  /\ step.step \in {"scDeploy", "scCall", "transfer", "validatorReward"} =>
       GetEgldValue(step.tx) \in Int
  /\ step.step \in {"scDeploy", "scCall"} => Fee(step.tx) \in Int
  /\ step.step = "scCall" => IsList(Get(step.tx, "esdtValue", <<>>))

ASSUME InputAssumption ==
  \A fs \in FileSystems :
    /\ \A f \in DOMAIN fs : IsList(fs[f]) /\ \A i \in DOMAIN fs[f] : IsJsonStep(fs[f][i])
    /\ \A list \in TestLists : IsList(list) /\ \A i \in DOMAIN list : list[i] \in DOMAIN fs

VARIABLES files, logLevel, \* the input of the program
          tests,           \* files still to run, the current one first
          phase,           \* where the program is
          reading,         \* steps left in the files being read, innermost first
          kSteps,          \* k_steps of run_test_file, what is still to run
          k,               \* <k> of the interpreter
          config           \* the configuration

input == <<files, logLevel>>
vars == <<input, tests, phase, reading, kSteps, k, config>>

LogLevel == {"none", "per-file", "per-step"}
Phase == {"next", "read", "run", "krun", "passed", "failed"}

Init == /\ files \in FileSystems
        /\ logLevel \in LogLevel
        /\ tests \in TestLists
        /\ phase = "next"
        /\ reading = <<>> /\ kSteps = <<>> /\ k = <<>>
        /\ config = TemplateConfig

IsExternal(step) == step.step = "externalSteps"

StartTest ==
  /\ phase = "next" /\ tests # <<>>
  /\ phase' = "read"
  /\ reading' = <<files[Head(tests)]>>
  /\ kSteps' = <<>>
  /\ UNCHANGED <<input, tests, k, config>>

CurrentFile == Head(reading)
NextStep == Head(CurrentFile)
ReadingStep == phase = "read" /\ CurrentFile # <<>>
StepConsumed == <<Tail(CurrentFile)>> \o Tail(reading)

ReadStep ==
  /\ ReadingStep /\ ~IsExternal(NextStep)
  /\ \E steps \in GetSteps(NextStep) : kSteps' = Append(kSteps, steps)
  /\ reading' = StepConsumed
  /\ UNCHANGED <<input, tests, phase, k, config>>

ExternalReplacesSteps ==                                                \* mutant
  /\ ReadingStep /\ IsExternal(NextStep) /\ NextStep.path \in DOMAIN files
  /\ reading' = <<files[NextStep.path]>> \o StepConsumed
  /\ kSteps' = <<>>
  /\ UNCHANGED <<input, tests, phase, k, config>>
ReadExternalSteps ==
  /\ ReadingStep /\ IsExternal(NextStep) /\ NextStep.path \in DOMAIN files
  /\ reading' = <<files[NextStep.path]>> \o StepConsumed
  /\ UNCHANGED <<input, tests, phase, kSteps, k, config>>

ReadFails ==
  /\ ReadingStep
  /\ IF IsExternal(NextStep) THEN NextStep.path \notin DOMAIN files
     ELSE GetSteps(NextStep) = {}
  /\ phase' = "failed"
  /\ UNCHANGED <<input, tests, reading, kSteps, k, config>>

PopsTestFile ==                                                         \* mutant
  /\ phase = "read" /\ CurrentFile = <<>>
  /\ reading' = Tail(reading)
  /\ UNCHANGED <<input, tests, phase, kSteps, k, config>>
EndOfExternalFile ==
  /\ phase = "read" /\ CurrentFile = <<>> /\ Len(reading) > 1
  /\ reading' = Tail(reading)
  /\ UNCHANGED <<input, tests, phase, kSteps, k, config>>

(* All the steps are one list unless every step is to be logged.             *)
EndOfTestFile ==
  /\ phase = "read" /\ reading = <<<<>>>>
  /\ phase' = "run"
  /\ reading' = <<>>
  /\ kSteps' = IF logLevel = "per-step" THEN kSteps ELSE <<FlattenSeq(kSteps)>>
  /\ config' = TemplateConfig
  /\ UNCHANGED <<input, tests, k>>

StartKrun ==
  /\ phase = "run" /\ kSteps # <<>>
  /\ phase' = "krun"
  /\ k' = Head(kSteps)
  /\ kSteps' = Tail(kSteps)
  /\ UNCHANGED <<input, tests, reading, config>>

MandosStep ==
  /\ phase = "krun" /\ k # <<>>
  /\ config' \in StepResults(config, Head(k))
  /\ k' = Tail(k)
  /\ UNCHANGED <<input, tests, phase, reading, kSteps>>

RetriesStuckRun ==                                                      \* mutant
  /\ phase = "krun" /\ k # <<>>
  /\ StepResults(config, Head(k)) = {}
  /\ phase' = "run" /\ kSteps' = <<k>> \o kSteps /\ k' = <<>>
  /\ UNCHANGED <<input, tests, reading, config>>
(* The interpreter stops with a <k> that is not empty: a ValueError.         *)
KrunStuck ==
  /\ phase = "krun" /\ k # <<>>
  /\ StepResults(config, Head(k)) = {}
  /\ phase' = "failed"
  /\ UNCHANGED <<input, tests, reading, kSteps, k, config>>

KrunEnds ==
  /\ phase = "krun" /\ k = <<>>
  /\ phase' = "run"
  /\ UNCHANGED <<input, tests, reading, kSteps, k, config>>

TestPasses ==
  /\ phase = "run" /\ kSteps = <<>>
  /\ phase' = "next"
  /\ tests' = Tail(tests)
  /\ UNCHANGED <<input, reading, kSteps, k, config>>

RunPasses ==
  /\ phase = "next" /\ tests = <<>>
  /\ phase' = "passed"
  /\ UNCHANGED <<input, tests, reading, kSteps, k, config>>

Next == \/ StartTest \/ ReadStep \/ ReadExternalSteps \/ ReadFails
        \/ EndOfExternalFile \/ EndOfTestFile \/ StartKrun \/ MandosStep
        \/ KrunStuck \/ KrunEnds \/ TestPasses \/ RunPasses

(* One process that nothing waits for: it takes a step while it has one.     *)
Spec == Init /\ [][Next]_vars /\ WF_vars(Next)
===============================================================================
