----------------------------- MODULE HookProofs -----------------------------
(***************************************************************************)
(* Theorems about the hook, for any number of invocations, failing and     *)
(* killed steps.  TypeOK is inductive.  HandOver, which says at every      *)
(* point of the sequence whether the resource is in one piece, is          *)
(* inductive with it; Evidence, which ties the two signals that            *)
(* resolve-recover judges by to the backend, is so as long as an event is  *)
(* listed before the resource is Ready again.                              *)
(***************************************************************************)
EXTENDS Hook, HookManifest, SequenceTheorems, TLAPS

Whole == ~paused /\ ext # ""
Awaits(command) == \E j \in 1..Len(left) : left[j] = command

\* While resolve-recover is at work, or has answered, it is the step at the head.
AtHead == pc # "idle" \/ outcome # "none" => left # <<>> /\ Head(left) = "resolve-recover"
TestsComeAfter == \A i, j \in 1..Len(left) : left[i] = "run" /\ left[j] = "resolve-recover" => j < i
NeedsPrefix == Awaits("resolve-recover") => prefix
\* Without resolve-recover still to come the resource is in one piece, and once the hook has passed;
\* always if there is no prefix to check.
WholeOutside == ~Awaits("resolve-recover") /\ (left # <<>> \/ last = "ok") => Whole
WholeWithoutPrefix == ~prefix => Whole
\* What each stage of resolve-recover has undone.
Resumed == (pc \in {"wait", "judge"} => ~paused) /\ (outcome = "passed" => Whole)
HandOver ==
  /\ AtHead /\ TestsComeAfter /\ NeedsPrefix /\ WholeOutside /\ WholeWithoutPrefix /\ Resumed
  /\ RunFindsItWhole

\* A second object has an event, listed or on its way; Ready seen after the conditions were
\* cleared means that none is on its way and that the name is there.
Objects ==
  /\ backend \subseteq {"orig", "dup"} /\ "orig" \in backend
  /\ ext = "dup" => "dup" \in backend
CopyIsFresh == copy # NoCopy /\ ~copy.stale => copy.ext = ext
EventPerObject == listed >= 1 /\ ("dup" \in backend => pending + listed >= 2)
Settled == (pc \in {"unpause", "wait"} /\ ready) \/ pc = "judge" => pending = 0 /\ ext # ""
Evidence ==
  Objects /\ CopyIsFresh /\ EventPerObject /\ Settled /\ (outcome = "passed" => backend = {"orig"} /\ ext = "orig")
-----------------------------------------------------------------------------
(* What is given to the steps. *)

\* Every step is given only flags that its subcommand parses, in the form it parses,
\* whatever the job's environment sets (hookStepArgs against the parsers of main.go).
THEOREM FlagsAreAccepted ==
  ASSUME NEW command \in Commands, NEW e \in parseHookEnv
  PROVE  hookStepArgs(command, e) \subseteq Accepted(command)
BY DEF Commands, hookStepArgs, stepTakesPollInterval, Accepted, parseConvergeArgs, parseRunArgs, parseTimeoutArgs

\* The sequence of steps: resolve-recover is in it just when there is a prefix, before the tests.
LEMMA HookStepsShape ==
  ASSUME NEW pfx \in BOOLEAN, NEW skip \in BOOLEAN
  PROVE  LET h == hookSteps(pfx, skip)
         IN /\ h \in Seq(Commands) /\ Len(h) > 0
            /\ \A i, j \in 1..Len(h) : h[i] = "run" /\ h[j] = "resolve-recover" => j < i
            /\ (\E j \in 1..Len(h) : h[j] = "resolve-recover") <=> pfx
<1> DEFINE h == hookSteps(pfx, skip)
<1>1. CASE pfx /\ skip
  <2>1. /\ h \in Seq(Commands) /\ Len(h) = 3
        /\ h[1] = "check-external-name-prefix" /\ h[2] = "resolve-recover" /\ h[3] = "run"
    BY <1>1 DEF hookSteps, Commands
  <2> HIDE DEF h
  <2>2. \A j \in 1..Len(h) : h[j] = "resolve-recover" => j = 2
    BY <2>1
  <2>3. \A i \in 1..Len(h) : h[i] = "run" => i = 3
    BY <2>1
  <2>4. \E j \in 1..Len(h) : h[j] = "resolve-recover"
    BY <2>1
  <2>5. \A i, j \in 1..Len(h) : h[i] = "run" /\ h[j] = "resolve-recover" => j < i
    BY <2>2, <2>3
  <2>6. (\E j \in 1..Len(h) : h[j] = "resolve-recover") <=> pfx
    BY <1>1, <2>4
  <2> QED BY <2>1, <2>5, <2>6 DEF h
<1>2. CASE pfx /\ ~skip
  <2>1. /\ h \in Seq(Commands) /\ Len(h) = 5
        /\ h[1] = "converge" /\ h[2] = "check-external-name-prefix" /\ h[3] = "resolve-recover" /\ h[4] = "run" /\ h[5] = "converge"
    BY <1>2 DEF hookSteps, Commands
  <2> HIDE DEF h
  <2>2. \A j \in 1..Len(h) : h[j] = "resolve-recover" => j = 3
    BY <2>1
  <2>3. \A i \in 1..Len(h) : h[i] = "run" => i = 4
    BY <2>1
  <2>4. \E j \in 1..Len(h) : h[j] = "resolve-recover"
    BY <2>1
  <2>5. \A i, j \in 1..Len(h) : h[i] = "run" /\ h[j] = "resolve-recover" => j < i
    BY <2>2, <2>3
  <2>6. (\E j \in 1..Len(h) : h[j] = "resolve-recover") <=> pfx
    BY <1>2, <2>4
  <2> QED BY <2>1, <2>5, <2>6 DEF h
<1>3. CASE ~pfx /\ skip
  <2>1. /\ h \in Seq(Commands) /\ Len(h) = 1
        /\ h[1] = "run"
    BY <1>3 DEF hookSteps, Commands
  <2> HIDE DEF h
  <2>2. \A j \in 1..Len(h) : h[j] # "resolve-recover"
    BY <2>1
  <2>3. \A i, j \in 1..Len(h) : h[i] = "run" /\ h[j] = "resolve-recover" => j < i
    BY <2>2
  <2>4. (\E j \in 1..Len(h) : h[j] = "resolve-recover") <=> pfx
    BY <1>3, <2>2
  <2> QED BY <2>1, <2>3, <2>4 DEF h
<1>4. CASE ~pfx /\ ~skip
  <2>1. /\ h \in Seq(Commands) /\ Len(h) = 3
        /\ h[1] = "converge" /\ h[2] = "run" /\ h[3] = "converge"
    BY <1>4 DEF hookSteps, Commands
  <2> HIDE DEF h
  <2>2. \A j \in 1..Len(h) : h[j] # "resolve-recover"
    BY <2>1
  <2>3. \A i, j \in 1..Len(h) : h[i] = "run" /\ h[j] = "resolve-recover" => j < i
    BY <2>2
  <2>4. (\E j \in 1..Len(h) : h[j] = "resolve-recover") <=> pfx
    BY <1>4, <2>2
  <2> QED BY <2>1, <2>3, <2>4 DEF h
<1> QED BY <1>1, <1>2, <1>3, <1>4
-----------------------------------------------------------------------------
(* Types. *)

LEMMA ThenIs ==
  Then.pause = "strip" /\ Then.strip = "clear" /\ Then.clear = "unpause" /\ Then.unpause = "wait" /\ Then.wait = "judge"
BY DEF Then

LEMMA LeftTypes ==
  ASSUME HookTypeOK, left # <<>>, Passes \/ Aborts
  PROVE  left' \in Seq(Commands) /\ last' \in {"none", "running", "ok", "error", "killed"}
<1>1. CASE Passes
  <2>1. Tail(left) \in Seq(Commands)
    BY DEF HookTypeOK
  <2>2. last' = "ok" \/ last' = last
    BY <1>1 DEF Passes
  <2> QED BY <1>1, <2>1, <2>2 DEF Passes, HookTypeOK
<1>2. CASE Aborts
  BY <1>2 DEF Aborts
<1> QED BY <1>1, <1>2

\* What the hook does to its own variables.
LEMMA HookTypes ==
  ASSUME HookTypeOK,
         \/ Start \/ Converge \/ CheckPrefix \/ Run \/ CallResolveRecover \/ ResolveRecoverReturns \/ Killed
         \/ UNCHANGED hookVars
  PROVE  HookTypeOK'
<1> USE DEF HookTypeOK
<1>1. CASE Start
  BY <1>1, HookStepsShape DEF Start
<1>2. CASE Converge
  BY <1>2, LeftTypes DEF Converge, Step, Between
<1>3. CASE CheckPrefix
  BY <1>3, LeftTypes DEF CheckPrefix, Step, Between
<1>4. CASE Run
  BY <1>4, LeftTypes DEF Run, Step, Between
<1>5. CASE CallResolveRecover
  BY <1>5 DEF CallResolveRecover, hookVars
<1>6. CASE ResolveRecoverReturns
  BY <1>6, LeftTypes DEF ResolveRecoverReturns, Step, Between
<1>7. CASE Killed
  BY <1>7 DEF Killed
<1>8. CASE UNCHANGED hookVars
  BY <1>8 DEF hookVars
<1> QED BY <1>1, <1>2, <1>3, <1>4, <1>5, <1>6, <1>7, <1>8

\* What the hook does to the recovery: it calls it and takes its outcome away.
LEMMA HookOnRecovery ==
  ASSUME RecoverTypeOK,
         \/ Start \/ Converge \/ CheckPrefix \/ Run \/ CallResolveRecover \/ ResolveRecoverReturns \/ Killed
         \/ UNCHANGED vars
  PROVE  RecoverTypeOK'
<1> USE DEF RecoverTypeOK, object, controller, events, recoverVars
<1>1. CASE Start \/ Converge \/ CheckPrefix \/ Run \/ UNCHANGED vars
  <2>1. UNCHANGED recoverVars
    BY <1>1 DEF Start, Converge, CheckPrefix, Run, vars
  <2> QED BY <2>1
<1>2. CASE CallResolveRecover
  BY <1>2 DEF CallResolveRecover, Step, Between
<1>3. CASE ResolveRecoverReturns
  BY <1>3 DEF ResolveRecoverReturns, Step, Between
<1>4. CASE Killed
  BY <1>4 DEF Killed
<1> QED BY <1>1, <1>2, <1>3, <1>4

LEMMA StaleIsCopy == ASSUME RecoverTypeOK PROVE Stale \in {NoCopy} \cup Copies
BY DEF RecoverTypeOK, Stale, Copies

LEMMA OneMoreOrLess == \A n \in Nat : n + 1 \in Nat /\ (n > 0 => n - 1 \in Nat)
OBVIOUS

LEMMA RecoveryTypes ==
  ASSUME RecoverTypeOK, Runner \/ CallFails \/ Controller \/ EventListed
  PROVE  RecoverTypeOK'
<1> USE DEF RecoverTypeOK, object, controller, events
<1>1. CASE ReadBefore
  BY <1>1 DEF ReadBefore, To, End
<1>2. CASE Pause
  BY <1>2, ThenIs, StaleIsCopy DEF Pause, To, Annotated
<1>3. CASE Strip
  BY <1>3, ThenIs, StaleIsCopy DEF Strip, To, Annotated
<1>4. CASE ClearConditions
  BY <1>4, ThenIs, StaleIsCopy DEF ClearConditions, To
<1>5. CASE Unpause
  BY <1>5, ThenIs, StaleIsCopy DEF Unpause, To, Annotated
<1>6. CASE WaitReady
  BY <1>6, ThenIs DEF WaitReady, To
<1>7. CASE Judge
  BY <1>7 DEF Judge, End
<1>8. CASE CallFails
  BY <1>8 DEF CallFails, End
<1>9. CASE Read
  <2>1. copy' \in Copies
    BY <1>9 DEF Read, Copies
  <2> QED BY <1>9, <2>1 DEF Read
<1>10. CASE Conflict
  BY <1>10 DEF Conflict, Done
<1>11. CASE Skip
  BY <1>11 DEF Skip, Done
<1>12. CASE Observe
  BY <1>12 DEF Observe, Done
<1>13. CASE Find
  <2>1. PICK n \in backend \cup {"other"} : ext' = n
    BY <1>13 DEF Find
  <2>2. ext' \in Names
    BY <2>1 DEF Names
  <2>3. UNCHANGED <<paused, ready, synced, backend, events, pc, outcome>> /\ copy' = NoCopy /\ dirty' = TRUE
    BY <1>13 DEF Find, Done
  <2> QED BY <2>2, <2>3
<1>14. CASE Create
  <2>1. backend' \subseteq Names /\ ext' \in Names
    BY <1>14 DEF Create, Names
  <2>3. pending \in Nat /\ pending' = pending + 1
    BY <1>14 DEF Create
  <2>2. UNCHANGED <<paused, ready, synced, listed, pc, outcome>> /\ copy' = NoCopy /\ dirty' = TRUE
    BY <1>14 DEF Create, Done
  <2>4. pending' \in Nat
    BY <2>3, OneMoreOrLess, Zenon
  <2> QED BY <2>1, <2>2, <2>4
<1>15. CASE EventListed
  <2>1. pending > 0 /\ pending' = pending - 1 /\ listed' = listed + 1
    BY <1>15 DEF EventListed
  <2>2. UNCHANGED <<paused, ext, ready, synced, backend, copy, dirty, pc, outcome>>
    BY <1>15 DEF EventListed
  <2>3. pending \in Nat /\ listed \in Nat
    OBVIOUS
  <2>4. pending' \in Nat /\ listed' \in Nat
    BY <2>1, <2>3, OneMoreOrLess, Zenon
  <2> QED BY <2>2, <2>4
<1> QED BY <1>1, <1>2, <1>3, <1>4, <1>5, <1>6, <1>7, <1>8, <1>9, <1>10, <1>11, <1>12, <1>13, <1>14, <1>15
     DEF Runner, Controller

LEMMA TypeStep == ASSUME TypeOK, [Next]_vars PROVE TypeOK'
BY HookTypes, HookOnRecovery, RecoveryTypes DEF TypeOK, Next, vars
-----------------------------------------------------------------------------
(* The resource between the steps. *)

LEMMA AfterPass ==
  ASSUME HookTypeOK, left # <<>>, Passes
  PROVE  /\ Head(left) = left[1] /\ 1 \in 1..Len(left)
         /\ TestsComeAfter => TestsComeAfter'
         /\ Awaits("resolve-recover")' => Awaits("resolve-recover")
         /\ Head(left) # "resolve-recover" /\ Awaits("resolve-recover") => Awaits("resolve-recover")'
<1>1. /\ Len(left) \in Nat /\ Len(left) >= 1 /\ Head(left) = left[1]
      /\ Len(left') = Len(left) - 1 /\ \A j \in 1..Len(left') : left'[j] = left[j + 1]
  BY DEF HookTypeOK, Passes
<1>2. \A j \in 1..Len(left') : j + 1 \in 1..Len(left)
  BY <1>1
<1>3. ASSUME TestsComeAfter PROVE TestsComeAfter'
  <2>1. ASSUME NEW i \in 1..Len(left'), NEW j \in 1..Len(left'), left'[i] = "run", left'[j] = "resolve-recover"
        PROVE  j < i
    <3>1. left[i + 1] = "run" /\ left[j + 1] = "resolve-recover" /\ i + 1 \in 1..Len(left) /\ j + 1 \in 1..Len(left)
      BY <2>1, <1>1, <1>2
    <3>2. j + 1 < i + 1
      BY <3>1, <1>3 DEF TestsComeAfter
    <3> QED BY <3>2
  <2> QED BY <2>1 DEF TestsComeAfter
<1>4. ASSUME Awaits("resolve-recover")' PROVE Awaits("resolve-recover")
  <2>1. PICK j \in 1..Len(left') : left'[j] = "resolve-recover"
    BY <1>4 DEF Awaits
  <2>2. left[j + 1] = "resolve-recover" /\ j + 1 \in 1..Len(left)
    BY <2>1, <1>1, <1>2
  <2> QED BY <2>2 DEF Awaits
<1>5. ASSUME Head(left) # "resolve-recover", Awaits("resolve-recover") PROVE Awaits("resolve-recover")'
  <2>1. PICK j \in 1..Len(left) : left[j] = "resolve-recover"
    BY <1>5 DEF Awaits
  <2>2. j # 1
    BY <2>1, <1>1, <1>5
  <2>3. j - 1 \in 1..Len(left') /\ (j - 1) + 1 = j
    BY <2>2, <1>1
  <2>4. left'[j - 1] = "resolve-recover"
    BY <2>1, <2>3, <1>1
  <2> QED BY <2>3, <2>4 DEF Awaits
<1>6. 1 \in 1..Len(left)
  BY <1>1
<1> QED BY <1>1, <1>3, <1>4, <1>5, <1>6

LEMMA NothingLeft == ASSUME left = <<>> PROVE TestsComeAfter /\ ~Awaits("resolve-recover")
BY DEF TestsComeAfter, Awaits

LEMMA HeadIsFirst ==
  ASSUME HookTypeOK, left # <<>> PROVE Head(left) = left[1] /\ 1 \in 1..Len(left)
BY DEF HookTypeOK

LEMMA HeadAwaits ==
  ASSUME HookTypeOK, left # <<>>, Head(left) = "resolve-recover" PROVE Awaits("resolve-recover")
BY HeadIsFirst, Zenon DEF Awaits

\* A step of the hook that leaves the resource alone.
LEMMA StepApart ==
  ASSUME TypeOK, HandOver, Converge \/ CheckPrefix \/ Run
  PROVE  HandOver'
<1>1. /\ left # <<>> /\ pc = "idle" /\ Head(left) # "resolve-recover" /\ (Passes \/ Aborts)
      /\ UNCHANGED <<recoverVars, prefix>>
  <2>1. CASE Converge
    BY <2>1 DEF Converge, Step, Between
  <2>2. CASE CheckPrefix
    BY <2>2 DEF CheckPrefix, Step, Between
  <2>3. CASE Run
    BY <2>3 DEF Run, Step, Between
  <2> QED BY <2>1, <2>2, <2>3
<1>2. UNCHANGED <<paused, ext, pc, outcome, prefix>>
  BY <1>1 DEF recoverVars, object
<1>3. pc = "idle" /\ outcome = "none"
  BY <1>1 DEF HandOver, AtHead
<1>4. /\ TestsComeAfter' /\ (Awaits("resolve-recover")' => Awaits("resolve-recover"))
      /\ ~Awaits("resolve-recover")' /\ (left' # <<>> \/ last' = "ok") => ~Awaits("resolve-recover")
  <2>1. CASE Passes
    BY <2>1, <1>1, AfterPass, Zenon DEF HandOver, TypeOK
  <2>2. CASE Aborts
    <3>1. left' = <<>> /\ last' = "error"
      BY <2>2 DEF Aborts
    <3>2. TestsComeAfter' /\ ~Awaits("resolve-recover")'
      BY <3>1 DEF TestsComeAfter, Awaits
    <3> QED BY <3>1, <3>2
  <2> QED BY <1>1, <2>1, <2>2
<1>5. RunFindsItWhole'
  <2>1. CASE Converge \/ CheckPrefix
    BY <2>1 DEF Converge, CheckPrefix, HandOver, RunFindsItWhole
  <2>2. CASE Run
    <3>1. left[1] = "run" /\ 1 \in 1..Len(left)
      BY <1>1, <2>2, HeadIsFirst DEF Run, Step, TypeOK
    <3>2. ~Awaits("resolve-recover")
      <4>1. SUFFICES ASSUME NEW j \in 1..Len(left), left[j] = "resolve-recover" PROVE FALSE
        BY DEF Awaits
      <4>2. j < 1
        BY <3>1, <4>1 DEF HandOver, TestsComeAfter
      <4> QED BY <4>2
    <3>3. Whole
      BY <3>2, <1>1 DEF HandOver, WholeOutside
    <3> QED BY <2>2, <3>3, Zenon DEF Run, Whole, RunFindsItWhole
  <2> QED BY <2>1, <2>2
<1>6. AtHead' /\ NeedsPrefix' /\ WholeWithoutPrefix' /\ Resumed'
  BY <1>2, <1>3, <1>4, Zenon DEF HandOver, AtHead, NeedsPrefix, WholeWithoutPrefix, Resumed, Whole
<1>7. WholeOutside'
  BY <1>1, <1>2, <1>4 DEF HandOver, WholeOutside, Whole
<1> QED BY <1>4, <1>5, <1>6, <1>7 DEF HandOver

\* The hook is started, calls resolve-recover, takes its answer, or is killed.
LEMMA StepAround ==
  ASSUME TypeOK, HandOver, Start \/ CallResolveRecover \/ ResolveRecoverReturns \/ Killed
  PROVE  HandOver'
<1>1. CASE Start
  <2> DEFINE h == hookSteps(prefix, skipConverge)
  <2>1. left = <<>> /\ left' = h /\ last' = "running" /\ UNCHANGED <<paused, ext, pc, outcome, prefix, ranOn>>
    BY <1>1 DEF Start, recoverVars, object
  <2>2. h \in Seq(Commands) /\ Len(h) > 0 /\ (Awaits("resolve-recover")' <=> prefix) /\ TestsComeAfter'
    BY <2>1, HookStepsShape DEF TypeOK, HookTypeOK, Awaits, TestsComeAfter
  <2>3. pc = "idle" /\ outcome = "none"
    BY <2>1 DEF HandOver, AtHead
  <2> QED BY <2>1, <2>2, <2>3, Zenon
       DEF HandOver, AtHead, NeedsPrefix, WholeOutside, WholeWithoutPrefix, Resumed, RunFindsItWhole, Whole
<1>2. CASE CallResolveRecover
  <2>1. /\ left # <<>> /\ Head(left) = "resolve-recover" /\ pc' = "resolve"
        /\ UNCHANGED <<paused, ext, outcome, left, last, prefix, ranOn>>
    BY <1>2 DEF CallResolveRecover, Step, Between, object, hookVars
  <2>2. TestsComeAfter' /\ (Awaits("resolve-recover")' <=> Awaits("resolve-recover"))
    BY <2>1 DEF HandOver, TestsComeAfter, Awaits
  <2> QED BY <2>1, <2>2, Zenon
       DEF HandOver, AtHead, NeedsPrefix, WholeOutside, WholeWithoutPrefix, Resumed, RunFindsItWhole, Whole
<1>3. CASE ResolveRecoverReturns
  <2>1. /\ left # <<>> /\ Head(left) = "resolve-recover" /\ pc = "idle" /\ outcome' = "none"
        /\ UNCHANGED <<paused, ext, pc, prefix, ranOn>>
        /\ IF outcome = "passed" THEN Passes ELSE Aborts
    BY <1>3 DEF ResolveRecoverReturns, Step, Between, object
  <2>2. CASE outcome = "passed"
    <3>1. TestsComeAfter' /\ (Awaits("resolve-recover")' => Awaits("resolve-recover"))
      BY <2>1, <2>2, AfterPass, Zenon DEF HandOver, TypeOK
    <3>2. Whole
      BY <2>2 DEF HandOver, Resumed
    <3> QED BY <2>1, <3>1, <3>2, Zenon
         DEF HandOver, AtHead, NeedsPrefix, WholeOutside, WholeWithoutPrefix, Resumed, RunFindsItWhole, Whole
  <2>3. CASE outcome # "passed"
    <3>1. left' = <<>> /\ last' = "error"
      BY <2>1, <2>3 DEF Aborts
    <3>2. TestsComeAfter' /\ ~Awaits("resolve-recover")'
      BY <3>1 DEF TestsComeAfter, Awaits
    <3> QED BY <2>1, <3>1, <3>2
         DEF HandOver, AtHead, NeedsPrefix, WholeOutside, WholeWithoutPrefix, Resumed, RunFindsItWhole, Whole
  <2> QED BY <2>2, <2>3
<1>4. CASE Killed
  <2>1. /\ left' = <<>> /\ last' = "killed" /\ pc' = "idle" /\ outcome' = "none"
        /\ UNCHANGED <<paused, ext, prefix, ranOn>>
    BY <1>4 DEF Killed, object
  <2>2. TestsComeAfter' /\ ~Awaits("resolve-recover")'
    BY <2>1 DEF TestsComeAfter, Awaits
  <2> QED BY <2>1, <2>2
       DEF HandOver, AtHead, NeedsPrefix, WholeOutside, WholeWithoutPrefix, Resumed, RunFindsItWhole, Whole
<1> QED BY <1>1, <1>2, <1>3, <1>4

\* The hook's part of HandOver while the hook itself stands still.
LEMMA HookStands ==
  ASSUME HandOver, UNCHANGED hookVars
  PROVE  /\ TestsComeAfter' /\ NeedsPrefix' /\ RunFindsItWhole' /\ UNCHANGED <<left, last, prefix>>
         /\ Awaits("resolve-recover")' <=> Awaits("resolve-recover")
<1>1. UNCHANGED <<left, last, prefix, ranOn>>
  BY DEF hookVars
<1>2. TestsComeAfter' /\ (Awaits("resolve-recover")' <=> Awaits("resolve-recover"))
  BY <1>1 DEF HandOver, TestsComeAfter, Awaits
<1> QED BY <1>1, <1>2 DEF HandOver, NeedsPrefix, RunFindsItWhole

\* Resolve-recover is at work: it is at the head, so that there is a prefix and nobody relies on the resource.
LEMMA StepOfRecovery ==
  ASSUME TypeOK, HandOver, Runner \/ CallFails, UNCHANGED hookVars
  PROVE  HandOver'
<1>1. pc # "idle"
  BY DEF Runner, CallFails, ReadBefore, Pause, Strip, ClearConditions, Unpause, WaitReady, Judge
<1>2. left # <<>> /\ Head(left) = "resolve-recover" /\ Awaits("resolve-recover") /\ prefix
  <2>1. left # <<>> /\ Head(left) = "resolve-recover"
    BY <1>1 DEF HandOver, AtHead
  <2>2. Awaits("resolve-recover")
    BY <2>1, HeadAwaits DEF TypeOK
  <2> QED BY <2>1, <2>2 DEF HandOver, NeedsPrefix
<1>3. AtHead' /\ WholeOutside' /\ WholeWithoutPrefix'
  BY <1>2, HookStands, Zenon DEF AtHead, WholeOutside, WholeWithoutPrefix
<1>4. Resumed'
  <2>1. outcome = "none"
    BY <1>1 DEF TypeOK, RecoverTypeOK
  <2>2. CASE ReadBefore \/ CallFails
    BY <2>1, <2>2 DEF ReadBefore, CallFails, To, End, Resumed
  <2>3. CASE Pause \/ Strip \/ ClearConditions
    BY <2>1, <2>3, ThenIs DEF Pause, Strip, ClearConditions, To, Resumed
  <2>4. CASE Unpause
    BY <2>1, <2>4, ThenIs DEF Unpause, To, Resumed
  <2>5. CASE WaitReady
    BY <2>1, <2>5, ThenIs DEF WaitReady, To, Resumed, HandOver, object
  <2>6. CASE Judge
    <3>1. ~paused /\ UNCHANGED <<paused, ext>> /\ pc' = "idle"
      BY <2>6 DEF Judge, HandOver, Resumed, object, End
    <3>2. outcome' = "passed" => ext # ""
      BY <2>6 DEF Judge, End, buildResolveRecoverResult, CheckExternalNamePrefix
    <3> QED BY <3>1, <3>2 DEF Resumed, Whole
  <2> QED BY <2>2, <2>3, <2>4, <2>5, <2>6 DEF Runner
<1> QED BY <1>3, <1>4, HookStands DEF HandOver

\* The controller never pauses the resource, and never takes its name away.
LEMMA StepOfController ==
  ASSUME TypeOK, HandOver, Controller \/ EventListed, UNCHANGED hookVars
  PROVE  HandOver'
<1>1. UNCHANGED <<paused, pc, outcome>> /\ (ext' = ext \/ ext' # "")
  <2>1. CASE Read \/ Conflict \/ Skip \/ Observe \/ EventListed
    BY <2>1 DEF Read, Conflict, Skip, Observe, EventListed, Done, object
  <2>2. CASE Find
    BY <2>2 DEF Find, Done, TypeOK, RecoverTypeOK, Names
  <2>3. CASE Create
    BY <2>3 DEF Create, Done
  <2> QED BY <2>1, <2>2, <2>3 DEF Controller
<1>2. Whole => Whole'
  BY <1>1 DEF Whole
<1>3. AtHead' /\ WholeOutside' /\ WholeWithoutPrefix' /\ Resumed'
  BY <1>1, <1>2, HookStands, Zenon DEF HandOver, AtHead, WholeOutside, WholeWithoutPrefix, Resumed
<1> QED BY <1>3, HookStands DEF HandOver

LEMMA HandOverStep == ASSUME TypeOK, HandOver, [Next]_vars PROVE HandOver'
<1>1. CASE UNCHANGED vars
  <2>1. UNCHANGED hookVars /\ UNCHANGED <<paused, ext, pc, outcome>>
    BY <1>1 DEF vars, recoverVars, object
  <2>2. AtHead' /\ WholeOutside' /\ WholeWithoutPrefix' /\ Resumed'
    BY <2>1, HookStands, Zenon DEF HandOver, AtHead, WholeOutside, WholeWithoutPrefix, Resumed, Whole
  <2> QED BY <2>1, <2>2, HookStands DEF HandOver
<1> QED BY <1>1, StepApart, StepAround, StepOfRecovery, StepOfController DEF Next
-----------------------------------------------------------------------------
(* The two signals. *)

\* What resolve-recover does: it makes nothing in the backend, and clears Ready before it waits for it.
LEMMA EvidenceOfRecovery ==
  ASSUME TypeOK, Evidence, Runner \/ CallFails
  PROVE  Evidence'
<1>1. UNCHANGED <<backend, pending, listed>>
  BY DEF Runner, CallFails, ReadBefore, Pause, Strip, ClearConditions, Unpause, WaitReady, Judge, controller, events
<1>2. outcome = "none"
  BY DEF TypeOK, RecoverTypeOK, Runner, CallFails, ReadBefore, Pause, Strip, ClearConditions, Unpause, WaitReady, Judge
<1>3. Objects'
  BY <1>1 DEF Evidence, Objects, Runner, CallFails, ReadBefore, Pause, Strip, ClearConditions, Unpause, WaitReady, Judge, object
<1>4. CopyIsFresh'
  <2>1. (copy' = copy /\ ext' = ext) \/ copy' = Stale
    BY DEF Runner, CallFails, ReadBefore, Pause, Strip, ClearConditions, Unpause, WaitReady, Judge, object, controller, Annotated
  <2>2. copy' = Stale => copy' = NoCopy \/ copy'.stale
    BY DEF Stale, TypeOK, RecoverTypeOK, Copies
  <2> QED BY <2>1, <2>2 DEF Evidence, CopyIsFresh
<1>5. EventPerObject'
  BY <1>1 DEF Evidence, EventPerObject
<1>6. Settled' /\ (outcome' = "passed" => backend' = {"orig"} /\ ext' = "orig")
  <2>1. CASE ReadBefore \/ CallFails
    BY <1>2, <2>1 DEF ReadBefore, CallFails, To, End, Settled
  <2>2. CASE Pause \/ Strip \/ ClearConditions
    BY <1>2, <2>2, ThenIs DEF Pause, Strip, ClearConditions, To, Settled
  <2>3. CASE Unpause
    BY <1>1, <1>2, <2>3, ThenIs DEF Unpause, To, Settled, Evidence
  <2>4. CASE WaitReady
    BY <1>1, <1>2, <2>4, ThenIs DEF WaitReady, To, Settled, Evidence, object
  <2>5. CASE Judge
    <3>1. pc = "judge" /\ pc' = "idle" /\ UNCHANGED ext
      BY <2>5 DEF Judge, object, End
    <3>2. pending = 0
      BY <3>1 DEF Evidence, Settled
    <3>3. ASSUME outcome' = "passed" PROVE backend' = {"orig"} /\ ext' = "orig"
      <4>1. listed = 1 /\ ext \in {"orig", "dup"}
        BY <2>5, <3>3 DEF Judge, End, buildResolveRecoverResult, CheckExternalNamePrefix
      <4>2. "dup" \notin backend
        BY <3>2, <4>1 DEF Evidence, EventPerObject
      <4> QED BY <1>1, <3>1, <4>1, <4>2 DEF Evidence, Objects
    <3> QED BY <3>1, <3>3 DEF Settled
  <2> QED BY <2>1, <2>2, <2>3, <2>4, <2>5 DEF Runner
<1> QED BY <1>3, <1>4, <1>5, <1>6 DEF Evidence

\* What the controller does: a resource whose name it has found again needs no second object.
LEMMA EvidenceOfController ==
  ASSUME EventsLate = FALSE, TypeOK, Evidence, Controller
  PROVE  Evidence'
<1>1. CASE Read
  <2>1. UNCHANGED <<ext, ready, backend, pending, listed, pc, outcome>> /\ copy'.ext = ext'
    BY <1>1 DEF Read, object, events
  <2> QED BY <2>1 DEF Evidence, Objects, CopyIsFresh, EventPerObject, Settled
<1>2. CASE Conflict \/ Skip
  <2>1. UNCHANGED <<ext, ready, backend, pending, listed, pc, outcome>> /\ copy' = NoCopy
    BY <1>2 DEF Conflict, Skip, object, events, Done
  <2> QED BY <2>1 DEF Evidence, Objects, CopyIsFresh, EventPerObject, Settled
<1>3. CASE Observe
  <2>1. UNCHANGED <<ext, backend, pending, listed, pc, outcome>> /\ copy' = NoCopy
    BY <1>3 DEF Observe, events, Done
  <2>2. pending = 0 /\ ext # ""
    BY <1>3 DEF Observe, Fresh, Working, Evidence, CopyIsFresh
  <2> QED BY <2>1, <2>2 DEF Evidence, Objects, CopyIsFresh, EventPerObject, Settled
<1>4. CASE Find \/ Create
  <2>1. UNCHANGED <<ready, listed, pc, outcome>> /\ copy' = NoCopy
    BY <1>4 DEF Find, Create, Done, events
  <2>2. ext = ""
    BY <1>4 DEF Find, Create, Fresh, Working, Evidence, CopyIsFresh
  <2>3. outcome # "passed" /\ ~((pc \in {"unpause", "wait"} /\ ready) \/ pc = "judge")
    BY <2>2 DEF Evidence, Settled
  <2>4. Objects' /\ EventPerObject'
    <3>1. CASE Find
      <4>1. UNCHANGED <<backend, pending, listed>> /\ ext' \in backend \cup {"other"}
        BY <3>1 DEF Find, events
      <4> QED BY <4>1 DEF Evidence, Objects, EventPerObject
    <3>2. CASE Create
      <4>1. backend' = backend \cup {"dup"} /\ ext' = "dup" /\ pending' = pending + 1 /\ UNCHANGED listed
        BY <3>2 DEF Create
      <4>2. pending \in Nat /\ listed \in Nat /\ listed >= 1
        BY DEF TypeOK, RecoverTypeOK, Evidence, EventPerObject
      <4>3. pending' + listed' >= 2
        BY <4>1, <4>2
      <4> QED BY <4>1, <4>2, <4>3 DEF Evidence, Objects, EventPerObject
    <3> QED BY <1>4, <3>1, <3>2
  <2> QED BY <2>1, <2>3, <2>4 DEF Evidence, CopyIsFresh, Settled
<1> QED BY <1>1, <1>2, <1>3, <1>4 DEF Controller

LEMMA EvidenceStep ==
  ASSUME EventsLate = FALSE, TypeOK, Evidence, [Next]_vars
  PROVE  Evidence'
<1>1. CASE EventListed
  <2>1. /\ pending > 0 /\ pending' = pending - 1 /\ listed' = listed + 1
        /\ UNCHANGED <<ext, ready, backend, copy, pc, outcome>>
    BY <1>1 DEF EventListed, object, controller
  <2>2. pending \in Nat /\ listed \in Nat
    BY DEF TypeOK, RecoverTypeOK
  <2>3. EventPerObject'
    BY <2>1, <2>2 DEF Evidence, EventPerObject
  <2>4. Settled'
    <3>1. pending # 0
      BY <2>1, <2>2
    <3> QED BY <2>1, <3>1, Zenon DEF Evidence, Settled
  <2> QED BY <2>1, <2>3, <2>4 DEF Evidence, Objects, CopyIsFresh
<1>2. CASE CallResolveRecover
  <2>1. UNCHANGED <<ext, ready, backend, copy, pending, listed, outcome>> /\ pc' = "resolve"
    BY <1>2 DEF CallResolveRecover, object, controller, events
  <2> QED BY <2>1 DEF Evidence, Objects, CopyIsFresh, EventPerObject, Settled
<1>3. CASE ResolveRecoverReturns \/ Killed
  <2>1. UNCHANGED <<ext, ready, backend, copy, pending, listed>> /\ outcome' = "none" /\ pc' \in {"idle", pc}
    BY <1>3 DEF ResolveRecoverReturns, Killed, object, controller, events
  <2> QED BY <2>1 DEF Evidence, Objects, CopyIsFresh, EventPerObject, Settled
<1>4. CASE UNCHANGED recoverVars
  <2>1. UNCHANGED <<ext, ready, backend, copy, pending, listed, pc, outcome>>
    BY <1>4 DEF recoverVars, object, controller, events
  <2> QED BY <2>1 DEF Evidence, Objects, CopyIsFresh, EventPerObject, Settled
<1>5. Start \/ Converge \/ CheckPrefix \/ Run \/ UNCHANGED vars => UNCHANGED recoverVars
  BY DEF Start, Converge, CheckPrefix, Run, vars
<1> QED BY <1>1, <1>2, <1>3, <1>4, <1>5, EvidenceOfRecovery, EvidenceOfController DEF Next
-----------------------------------------------------------------------------
(* The theorems. *)

LEMMA InitOK == ASSUME Init PROVE TypeOK /\ HandOver
<1>1. RecoverTypeOK
  <2>1. paused \in BOOLEAN /\ ready \in BOOLEAN /\ synced \in BOOLEAN /\ dirty \in BOOLEAN
    BY Zenon DEF Init, RecoverInit
  <2>2. copy \in {NoCopy} \cup Copies
    <3> DEFINE c == [paused |-> FALSE, ext |-> "orig", stale |-> FALSE]
    <3>1. c \in Copies
      BY DEF Copies, Names
    <3>2. copy \in {NoCopy, c}
      BY Zenon DEF Init, RecoverInit
    <3> HIDE DEF c
    <3> QED BY <3>1, <3>2
  <2>3. ext \in Names /\ backend \subseteq Names /\ pending \in Nat /\ listed \in Nat /\ pc = "idle" /\ outcome = "none"
    BY DEF Init, RecoverInit, Names
  <2> QED BY <2>1, <2>2, <2>3, Zenon DEF RecoverTypeOK
<1>2. HookTypeOK
  BY DEF Init, HookTypeOK
<1>3. HandOver
  BY NothingLeft DEF Init, RecoverInit, HandOver, AtHead, NeedsPrefix, WholeOutside, WholeWithoutPrefix, Resumed,
     RunFindsItWhole, Whole
<1> QED BY <1>1, <1>2, <1>3 DEF TypeOK

LEMMA Inductive == Spec => [](TypeOK /\ HandOver)
<1>1. Init => TypeOK /\ HandOver
  BY InitOK
<1>2. TypeOK /\ HandOver /\ [Next]_vars => (TypeOK /\ HandOver)'
  BY TypeStep, HandOverStep
<1> QED BY <1>1, <1>2, PTL DEF Spec

\* Every variable has its type throughout (cmdHook, RunResolveRecover).
THEOREM TypeOKAlways == Spec => []TypeOK
BY Inductive, PTL

\* The per-field tests never run on a resource that a failed or killed resolve-recover left paused
\* or nameless: hookSteps puts run after it and cmdHook stops at the first step that fails.
THEOREM RunFindsItWholeAlways == Spec => []RunFindsItWhole
<1>1. HandOver => RunFindsItWhole
  BY DEF HandOver
<1> QED BY <1>1, Inductive, PTL

\* A hook that says it passed leaves the resource in one piece behind (cmdHook).
THEOREM LeftoverIsToldAlways == Spec => []LeftoverIsTold
<1>1. HandOver => LeftoverIsTold
  BY NothingLeft DEF HandOver, WholeOutside, Whole, LeftoverIsTold
<1> QED BY <1>1, Inductive, PTL

\* A recovery that passed left one object behind, the one it started with, and the resource points
\* to it (buildResolveRecoverResult), whatever fails or is killed around it, as long as the event of
\* a create is listed before the resource is Ready again: the event count is read only once.
THEOREM PassedIsRecoveredAlways ==
  ASSUME EventsLate = FALSE PROVE Spec => []PassedIsRecovered
<1>1. Init => Evidence
  BY DEF Init, RecoverInit, Evidence, Objects, CopyIsFresh, EventPerObject, Settled
<1>2. TypeOK /\ Evidence /\ [Next]_vars => Evidence'
  BY EvidenceStep
<1>3. Evidence => PassedIsRecovered
  BY DEF Evidence, PassedIsRecovered
<1> QED BY <1>1, <1>2, <1>3, TypeOKAlways, PTL DEF Spec
-----------------------------------------------------------------------------
(***************************************************************************)
(* The manifest a hook is about: the derivation of HookManifest, for any   *)
(* files and directories below examples/.                                  *)
(***************************************************************************)
LEMMA LeafOfDerived ==
  ASSUME NEW s \in Slugs, Derive(s) # NotFound
  PROVE  Len(Derive(s)) = 2 /\ Derive(s)[2] = primaryPath(s)[2]
BY DEF Derive, NotFound, manifestPath

LEMMA SlugIs ==
  ASSUME NEW s \in Slugs PROVE s \in Seq(STRING) /\ Len(s) \in Nat /\ Len(s) >= 1
<1>1. s \in Seq(STRING) /\ s # <<>>
  BY DEF Slugs
<1> QED BY <1>1, EmptySeq, LenProperties

LEMMA AllButLastIs ==
  ASSUME NEW s \in Slugs, Len(s) > 1
  PROVE  /\ AllButLast(s) \in Seq(STRING) /\ Len(AllButLast(s)) = Len(s) - 1
         /\ \A i \in 1..(Len(s) - 1) : AllButLast(s)[i] = s[i]
<1>1. s \in Seq(STRING) /\ Len(s) \in Nat
  BY SlugIs
<1>2. 1 \in 1..(Len(s) + 1) /\ Len(s) - 1 \in 0..Len(s) /\ Len(s) - 1 \in Nat
  BY <1>1
<1> QED BY <1>1, <1>2, SubSeqProperties DEF AllButLast

\* Two slugs lead to the same manifest only if they are one slug, or spell the same scope of the
\* same resource in the two ways: whatever files and directories there are, neither the shorthand
\* nor the fallback of Derive makes a hook test the manifest of another hook.
THEOREM OneManifestPerSlug ==
  ASSUME NEW s \in Slugs, NEW t \in Slugs, Derive(s) # NotFound, Derive(s) = Derive(t)
  PROVE  \/ s = t
         \/ AllButLast(s) = AllButLast(t) /\ {s[Len(s)], t[Len(t)]} \subseteq {"ns", "namespaced"}
<1>1. primaryPath(s)[2] = primaryPath(t)[2]
  BY LeafOfDerived
<1>2. \A u \in Slugs : IsScoped(u) =>
         Len(u) > 1 /\ primaryPath(u)[2] = Append(AllButLast(u), "namespaced") /\ u[Len(u)] \in {"ns", "namespaced"}
  BY DEF IsScoped, HasSuffix, primaryPath, manifestPath
<1>3. \A u \in Slugs : ~IsScoped(u) => primaryPath(u)[2] = u
  BY DEF primaryPath, manifestPath
<1>4. \A u, v \in Slugs : IsScoped(u) => v # Append(AllButLast(u), "namespaced") \/ IsScoped(v)
  <2>1. SUFFICES ASSUME NEW u \in Slugs, NEW v \in Slugs, IsScoped(u), v = Append(AllButLast(u), "namespaced")
                 PROVE  IsScoped(v)
    OBVIOUS
  <2>2. Len(u) > 1 /\ Len(u) \in Nat
    BY <2>1, <1>2, SlugIs
  <2>3. Len(v) = Len(u) /\ v[Len(v)] = "namespaced"
    BY <2>1, <2>2, AllButLastIs
  <2> QED BY <2>2, <2>3 DEF IsScoped, HasSuffix
<1>5. CASE IsScoped(s) /\ IsScoped(t)
  <2>1. Append(AllButLast(s), "namespaced") = Append(AllButLast(t), "namespaced")
    BY <1>1, <1>2, <1>5
  <2>2. AllButLast(s) \in Seq(STRING) /\ AllButLast(t) \in Seq(STRING)
    BY <1>2, <1>5, AllButLastIs
  <2>3. AllButLast(s) = AllButLast(t)
    BY <2>1, <2>2, AppendInjective
  <2> QED BY <1>2, <1>5, <2>3
<1>6. CASE ~IsScoped(s) \/ ~IsScoped(t)
  BY <1>1, <1>2, <1>3, <1>4, <1>6
<1> QED BY <1>5, <1>6

\* A hook whose slug names a manifest directly keeps testing it, whatever else is added: only the
\* suffix "-namespaced" is never read literally.
THEOREM WorkingSlugKeepsItsTarget ==
  ASSUME NEW s \in Slugs, manifestPath(s, s) \in files, s \in dirs, ~HasSuffix(s, "namespaced")
  PROVE  Derive(s) = manifestPath(s, s)
<1>1. primaryPath(s) = manifestPath(s, s)
  BY DEF primaryPath, IsScoped
<1>2. Len(s) \in Nat /\ Len(s) >= 1 /\ SubSeq(s, 1, Len(s)) = s
  BY SlugIs, SubSeqFull
<1> DEFINE hits == Hits(s, s)
<1>3. Len(s) \in hits /\ \A m \in hits : m <= Len(s) /\ m \in Nat
  <2>1. Len(s) \in 1..Len(s)
    BY <1>2
  <2>3. manifestPath(SubSeq(s, 1, Len(s)), s) \in files
    BY <1>2, Zenon
  <2>2. \A m \in hits : m \in 1..Len(s)
    BY DEF Hits
  <2> QED BY <1>2, <2>1, <2>2, <2>3 DEF Hits
<1>4. (CHOOSE n \in hits : \A m \in hits : m <= n) = Len(s)
  <2> DEFINE n == CHOOSE k \in hits : \A m \in hits : m <= k
  <2>1. n \in hits /\ \A m \in hits : m <= n
    BY <1>3
  <2>2. Len(s) <= n /\ n <= Len(s) /\ n \in Nat
    BY <1>3, <2>1
  <2> QED BY <1>2, <2>2
<1>5. hits # {}
  BY <1>3
<1> HIDE DEF hits
<1>6. Derive(s) = manifestPath(SubSeq(s, 1, CHOOSE n \in hits : \A m \in hits : m <= n), s)
  BY <1>1, <1>5 DEF Derive, hits, manifestPath
<1> QED BY <1>2, <1>4, <1>6
=============================================================================
