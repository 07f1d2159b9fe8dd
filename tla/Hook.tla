-------------------------------- MODULE Hook --------------------------------
(***************************************************************************)
(* The hook: the post-assert sequence of one manifest, a subcommand after  *)
(* the other, ended by the first that fails.  A job may be killed at any   *)
(* step and the hook started again.  Resolve-recover is the module it      *)
(* extends; the other subcommands only read the resource or, for run,      *)
(* patch it, and are one step each.                                        *)
(***************************************************************************)
EXTENDS ResolveRecover

CONSTANTS
  MaxHooks      \* bound: invocations of the hook

VARIABLES
  prefix,        \* does the manifest declare an expected external-name prefix?
  skipConverge,
  left,          \* the steps the running hook has not finished
  hooks, last,   \* invocations so far, and the outcome of the last one
  ranOn          \* history: the resource as the last run step found it

hookVars == <<prefix, skipConverge, left, hooks, last, ranOn>>
vars == <<recoverVars, hookVars>>

\* Seeded fault: the per-field tests run before the identity checks.
RunsFirst(pfx, skip) ==
  (IF skip THEN <<>> ELSE <<"converge">>) \o <<"run">>
  \o (IF pfx THEN <<"check-external-name-prefix", "resolve-recover">> ELSE <<>>)
Commands == {"converge", "check-external-name-prefix", "resolve-recover", "run"}
(* hookSteps *)
hookSteps(pfx, skip) ==
  (IF skip THEN <<>> ELSE <<"converge">>)
  \o (IF pfx THEN <<"check-external-name-prefix", "resolve-recover">> ELSE <<>>)
  \o <<"run">> \o (IF skip THEN <<>> ELSE <<"converge">>)

stepTakesPollInterval(command) == command \in {"converge", "run"}

(* parseHookEnv: what the environment of the job may set. *)
parseHookEnv == SUBSET {"timeout", "pollInterval", "ignoreFields"}
(* hookStepArgs: the flags given to a step, each with the form of its value. *)
hookStepArgs(command, e) ==
  (IF "pollInterval" \in e /\ stepTakesPollInterval(command) THEN {<<"poll-interval", "duration">>} ELSE {})
  \cup (IF "timeout" \in e THEN {<<"timeout", IF command = "converge" THEN "duration" ELSE "int">>} ELSE {})
  \cup (IF "ignoreFields" \in e /\ command = "converge" THEN {<<"ignore-fields", "list">>} ELSE {})

\* The flags the subcommands parse.
parseConvergeArgs == {<<"poll-interval", "duration">>, <<"ignore-fields", "list">>, <<"timeout", "duration">>,
                      <<"readiness-timeout", "duration">>}
parseRunArgs == {<<"timeout", "int">>, <<"poll-interval", "duration">>}
parseTimeoutArgs == {<<"timeout", "int">>}
Accepted(command) ==
  IF command = "converge" THEN parseConvergeArgs ELSE IF command = "run" THEN parseRunArgs ELSE parseTimeoutArgs

Init ==
  /\ RecoverInit /\ prefix \in BOOLEAN /\ skipConverge \in BOOLEAN
  /\ left = <<>> /\ hooks = 0 /\ last = "none" /\ ranOn = "none"

Between == left # <<>> /\ pc = "idle"
Step(command) == Between /\ Head(left) = command
Passes == left' = Tail(left) /\ last' = IF Len(left) = 1 THEN "ok" ELSE last
\* Seeded fault: a step that fails does not end the sequence.
GoesOn == left' = Tail(left) /\ last' = "error"
Aborts == left' = <<>> /\ last' = "error"

Start ==
  /\ left = <<>> /\ hooks < MaxHooks /\ hooks' = hooks + 1
  /\ left' = hookSteps(prefix, skipConverge) /\ last' = "running"
  /\ UNCHANGED <<recoverVars, prefix, skipConverge, ranOn>>

\* Converge waits for Synced; a resource that is not Ready is only observed longer.
Converge ==
  /\ Step("converge") /\ ((Passes /\ synced) \/ Aborts)
  /\ UNCHANGED <<recoverVars, prefix, skipConverge, hooks, ranOn>>

CheckPrefix ==
  /\ Step("check-external-name-prefix")
  /\ ((Passes /\ CheckExternalNamePrefix(ext)) \/ Aborts)
  /\ UNCHANGED <<recoverVars, prefix, skipConverge, hooks, ranOn>>

Run ==
  /\ Step("run") /\ (Passes \/ Aborts)
  /\ ranOn' = IF paused THEN "paused" ELSE IF ext = "" THEN "nameless" ELSE "resource"
  /\ UNCHANGED <<recoverVars, prefix, skipConverge, hooks>>

CallResolveRecover ==
  /\ Step("resolve-recover") /\ outcome = "none" /\ pc' = "resolve"
  /\ UNCHANGED <<object, controller, events, outcome, hookVars>>

ResolveRecoverReturns ==
  /\ Step("resolve-recover") /\ outcome # "none" /\ outcome' = "none"
  /\ IF outcome = "passed" THEN Passes ELSE Aborts
  /\ UNCHANGED <<object, controller, events, pc, prefix, skipConverge, hooks, ranOn>>

Killed ==
  /\ left # <<>> /\ left' = <<>> /\ last' = "killed" /\ pc' = "idle" /\ outcome' = "none"
  /\ UNCHANGED <<object, controller, events, prefix, skipConverge, hooks, ranOn>>

Next ==
  \/ Start \/ Converge \/ CheckPrefix \/ Run \/ CallResolveRecover \/ ResolveRecoverReturns \/ Killed
  \/ (Runner \/ CallFails \/ Controller \/ EventListed) /\ UNCHANGED hookVars

Spec == Init /\ [][Next]_vars /\ WF_vars(Runner /\ UNCHANGED hookVars)
             /\ WF_vars(Controller /\ UNCHANGED hookVars) /\ WF_vars(EventListed /\ UNCHANGED hookVars)
-----------------------------------------------------------------------------
HookTypeOK ==
  /\ left \in Seq(Commands) /\ prefix \in BOOLEAN /\ skipConverge \in BOOLEAN
  /\ last \in {"none", "running", "ok", "error", "killed"} /\ hooks \in Nat

\* Every variable has its type.
TypeOK == RecoverTypeOK /\ HookTypeOK

\* The per-field tests never run on a resource that an earlier, failed or killed
\* resolve-recover left paused or without its name, in this invocation of the hook
\* or in a later one.
RunFindsItWhole == ranOn \in {"none", "resource"}

\* A resource left paused or nameless is never behind a hook that says it passed.
LeftoverIsTold == left = <<>> /\ last = "ok" => ~paused /\ ext # ""

=============================================================================
