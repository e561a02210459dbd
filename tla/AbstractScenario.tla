--------------------------- MODULE AbstractScenario ---------------------------
(***************************************************************************)
(* What a run of scenario files means: the steps of a file, with external  *)
(* files expanded in place, executed one by one from the template of the   *)
(* runtime.  A file fails when a step of it has no translation, or gets    *)
(* stuck; the run fails with the first file that does.  There are no log   *)
(* levels, files being read or interpreter runs here, and it does not      *)
(* matter what the steps of the interpreter are.                           *)
(***************************************************************************)
EXTENDS Sequences

CONSTANTS FileSystems, TestLists,
          Programs(_),         \* the steps of every file, or {} for one without a translation
          StepResults(_, _),   \* the configurations after a step, if any
          TemplateConfig

VARIABLES files, tests, verdict,
          todo,      \* what is left of the current file: {} or {steps}
          config

vars == <<files, tests, verdict, todo, config>>

Init == /\ files \in FileSystems /\ tests \in TestLists
        /\ verdict = "running" /\ todo = {} /\ config = TemplateConfig

BeginFile ==
  /\ verdict = "running" /\ todo = {} /\ tests # <<>>
  /\ Programs(files)[Head(tests)] # {}
  /\ todo' = Programs(files)[Head(tests)]
  /\ config' = TemplateConfig
  /\ UNCHANGED <<files, tests, verdict>>

Execute ==
  /\ verdict = "running"
  /\ \E steps \in todo :
       /\ steps # <<>>
       /\ config' \in StepResults(config, Head(steps))
       /\ todo' = {Tail(steps)}
  /\ UNCHANGED <<files, tests, verdict>>

EndFile ==
  /\ verdict = "running" /\ todo = {<<>>}
  /\ todo' = {} /\ tests' = Tail(tests)
  /\ UNCHANGED <<files, verdict, config>>

Passes ==
  /\ verdict = "running" /\ todo = {} /\ tests = <<>>
  /\ verdict' = "passed"
  /\ UNCHANGED <<files, tests, todo, config>>

Fails ==
  /\ verdict = "running"
  /\ \/ todo = {} /\ tests # <<>> /\ Programs(files)[Head(tests)] = {}
     \/ \E steps \in todo : steps # <<>> /\ StepResults(config, Head(steps)) = {}
  /\ verdict' = "failed"
  /\ UNCHANGED <<files, tests, todo, config>>

Next == BeginFile \/ Execute \/ EndFile \/ Passes \/ Fails
Spec == Init /\ [][Next]_vars
===============================================================================
