---------------------------- MODULE ConvergeProofs ----------------------------
(***************************************************************************)
(* Theorems about Converge, for every poll interval and every kind of      *)
(* provider the hypotheses of a theorem admit.                             *)
(***************************************************************************)
EXTENDS Converge, TLAPS

Observing == {"armed", "identity"} \cup Comparing

LEMMA WindowBounds ==
    /\ convergeWait \in Nat
    /\ PollInterval <= convergeWait
    /\ PollInterval > 1 => PollInterval < convergeWait
BY ConvergeAssumption DEF convergeWait

\* The window is longer than the interval by a tick, so one poll falls into it.
LEMMA LongWindow ==
    ASSUME PollInterval > 1, NEW n \in Nat, n <= PollInterval
    PROVE  ~(convergeWait <= n)
BY ConvergeAssumption DEF convergeWait

-----------------------------------------------------------------------------
(***************************************************************************)
(* What a step may change.  The runner reads the world and never changes   *)
(* it, except that Rearm voids what was seen; the controller never touches *)
(* the runner, and does nothing of interest after the verdict.             *)
(***************************************************************************)
LEMMA ControllerFrame ==
    ASSUME Controller
    PROVE  /\ UNCHANGED <<pc, verdict, restarts, notes, problems>>
           /\ UNCHANGED <<elapsed, provider>>
           /\ pc # "done"
BY DEF Controller, Reconcile, EventListed, ReadyChanges, LateInit, Replace,
       RestartInPlace, Age, Checking, runnerVars

LEMMA TickFrame ==
    ASSUME Tick
    PROVE  /\ UNCHANGED <<pc, verdict, restarts, notes, problems>>
           /\ UNCHANGED <<changed, provider, object, pending, aged, starting>>
           /\ UNCHANGED <<causes, unseen>>
           /\ pc \in Observing
BY DEF Tick, runnerVars, controllerVars, historyVars, Observing

LEMMA StutterFrame ==
    ASSUME UNCHANGED vars
    PROVE  /\ UNCHANGED <<pc, verdict, restarts, notes, problems>>
           /\ UNCHANGED <<elapsed, changed>>
           /\ UNCHANGED <<provider, object, pending, aged, starting>>
           /\ UNCHANGED <<lastCall, sincePoll, causes, unseen>>
BY DEF vars, runnerVars, controllerVars, historyVars

\* The runner's steps other than Rearm.
Observe == (Runner /\ ~Rearm) \/ Skip \/ Fail

LEMMA ObserveFrame ==
    ASSUME Observe
    PROVE  /\ UNCHANGED <<restarts, elapsed, changed>>
           /\ UNCHANGED <<provider, object, pending, aged, starting>>
           /\ UNCHANGED <<lastCall, sincePoll, causes, unseen>>
BY DEF Observe, Runner, Skip, Fail, waitGenerationSettled, waitSynced, waitReady,
       waitControllerPodSettled, Snapshot, CountEvents, Wake, SamePod,
       Inconclusive, SnapshotAfter, CountEventsAfter, GetObject,
       buildConvergeResult, otherVars, controllerVars, historyVars

LEMMA StepCases ==
    ASSUME [Next]_vars
    PROVE  Observe \/ Rearm \/ Controller \/ Tick \/ UNCHANGED vars
BY DEF Next, Observe

\* How the runner goes on: forward by one step, or to the end.
LEMMA ObservePath ==
    ASSUME Observe
    PROVE  \/ pc \in Arming /\ pc' \in Arming /\ verdict' = verdict
              /\ problems' = problems
           \/ pc = "events" /\ pc' = "armed" /\ verdict' = verdict
              /\ problems' = problems
           \/ pc = "armed" /\ pc' = "identity" /\ verdict' = verdict
              /\ problems' = problems /\ elapsed = convergeWait
           \/ pc = "identity" /\ pc' = "snapshot2" /\ verdict' = verdict
              /\ problems' = problems /\ ~changed.pod
           \/ pc \in Comparing /\ pc' \in Comparing /\ verdict' = verdict
           \/ pc' = "done" /\ pc \notin {"armed", "done"}
              /\ verdict' \in {"skipped", "unsteady", "inconclusive", "error"}
              /\ problems' = problems
           \/ pc = "log" /\ buildConvergeResult /\ pc' = "done"
<1>1. CASE Skip \/ waitGenerationSettled \/ waitSynced \/ waitReady
           \/ waitControllerPodSettled
  BY <1>1 DEF Skip, waitGenerationSettled, waitSynced, waitReady,
              waitControllerPodSettled, Goto, End, Arming
<1>2. CASE Snapshot \/ CountEvents \/ Wake \/ SamePod
  BY <1>2 DEF Snapshot, CountEvents, Wake, SamePod, Goto, Arming
<1>3. CASE SnapshotAfter \/ CountEventsAfter \/ GetObject
  BY <1>3 DEF SnapshotAfter, CountEventsAfter, GetObject, Goto, Comparing
<1>4. CASE Inconclusive \/ Fail
  BY <1>4 DEF Inconclusive, Fail, End
<1>5. CASE buildConvergeResult
  BY <1>5 DEF buildConvergeResult, End
<1>. QED
  BY <1>1, <1>2, <1>3, <1>4, <1>5 DEF Observe, Runner

-----------------------------------------------------------------------------
(***************************************************************************)
(* Type correctness.                                                       *)
(***************************************************************************)
RunnerType ==
    /\ pc \in PC /\ verdict \in Verdict
    /\ restarts \in 0..convergeMaxRestartRetries
    /\ notes \subseteq Note /\ problems \subseteq Problem

TimeType == elapsed \in 0..convergeWait /\ lastCall \in Ages /\ sincePoll \in 0..PollInterval

ChangedType == changed \in [Part -> BOOLEAN] /\ causes \subseteq Cause

ObjectType ==
    /\ object \in [observed : BOOLEAN, synced : BOOLEAN, owed : BOOLEAN,
                   ready : {"not yet", "yes", "no"}]
    /\ provider \subseteq Trait

FlagType == {pending, aged, starting, unseen} \subseteq BOOLEAN

LEMMA TypeOKParts ==
    TypeOK <=> RunnerType /\ TimeType /\ ChangedType /\ ObjectType /\ FlagType
BY DEF TypeOK, RunnerType, TimeType, ChangedType, ObjectType, FlagType

LEMMA RestartNotes ==
    ASSUME NEW n \in 0..convergeMaxRestartRetries, n < convergeMaxRestartRetries
    PROVE  /\ n + 1 \in 1..convergeMaxRestartRetries
           /\ RestartNote[n + 1] \in Note
<1>1. n + 1 \in 1..convergeMaxRestartRetries
  BY DEF convergeMaxRestartRetries
<1>. QED  BY <1>1 DEF Note

LEMMA RunnerTypeStep == RunnerType /\ [Next]_vars => RunnerType'
<1>. SUFFICES ASSUME RunnerType, [Next]_vars PROVE RunnerType'
  OBVIOUS
<1>1. CASE Skip \/ waitGenerationSettled \/ waitSynced \/ waitReady
           \/ waitControllerPodSettled \/ Snapshot \/ CountEvents
  BY <1>1 DEF Skip, waitGenerationSettled, waitSynced, waitReady,
              waitControllerPodSettled, Snapshot, CountEvents, Goto, End,
              RunnerType, PC, Arming, Verdict, Note
<1>2. CASE Wake \/ SamePod \/ Inconclusive \/ Fail
  BY <1>2 DEF Wake, SamePod, Inconclusive, Fail, Goto, End, RunnerType, PC,
              Comparing, Verdict
<1>3. CASE SnapshotAfter \/ CountEventsAfter \/ GetObject
  BY <1>3 DEF SnapshotAfter, CountEventsAfter, GetObject, Goto, Found,
              RunnerType, PC, Comparing, Problem
<1>4. CASE buildConvergeResult
  BY <1>4 DEF buildConvergeResult, End, Found, RunnerType, PC, Verdict, Problem,
              Note
<1>5. CASE Rearm
  BY <1>5, RestartNotes
     DEF Rearm, Discard, Goto, RunnerType, PC, Arming, convergeMaxRestartRetries
<1>6. CASE Controller \/ Tick \/ UNCHANGED vars
  BY <1>6, ControllerFrame, TickFrame, StutterFrame DEF RunnerType
<1>. QED
  BY <1>1, <1>2, <1>3, <1>4, <1>5, <1>6 DEF Next, Runner

LEMMA TimeTypeStep == TimeType /\ [Next]_vars => TimeType'
<1>. SUFFICES ASSUME TimeType, [Next]_vars PROVE TimeType'
  OBVIOUS
<1>1. CASE Observe \/ UNCHANGED vars
  BY <1>1, ObserveFrame, StutterFrame DEF TimeType
<1>2. CASE Rearm
  BY <1>2, ConvergeAssumption, WindowBounds
     DEF Rearm, Discard, TimeType, Ages
<1>3. CASE Tick
  BY <1>3, ConvergeAssumption, WindowBounds DEF Tick, TimeType, Ages, Never
<1>4. CASE Reconcile
  <2>1. lastCall' \in {Never, 0, lastCall}
    BY <1>4 DEF Reconcile, Update
  <2>2. elapsed' = elapsed /\ sincePoll' = 0
    BY <1>4 DEF Reconcile
  <2>. QED
    BY <2>1, <2>2, ConvergeAssumption, WindowBounds DEF TimeType, Ages
<1>5. CASE EventListed \/ ReadyChanges \/ LateInit \/ Age
  BY <1>5 DEF EventListed, ReadyChanges, LateInit, Age, TimeType
<1>6. CASE Replace \/ RestartInPlace
  <2>1. elapsed' = elapsed /\ sincePoll' = 0 /\ lastCall' \in {Never, lastCall}
    BY <1>6 DEF Replace, RestartInPlace
  <2>. QED
    BY <2>1, ConvergeAssumption DEF TimeType, Ages
<1>. QED
  BY <1>1, <1>2, <1>3, <1>4, <1>5, <1>6, StepCases DEF Controller

LEMMA ChangedTypeStep == ChangedType /\ [Next]_vars => ChangedType'
<1>. SUFFICES ASSUME ChangedType, [Next]_vars PROVE ChangedType'
  OBVIOUS
<1>1. CASE Observe \/ Tick \/ UNCHANGED vars
  BY <1>1, ObserveFrame, TickFrame, StutterFrame DEF ChangedType
<1>2. CASE Rearm
  BY <1>2 DEF Rearm, Discard, NothingChanged, ChangedType
<1>3. ASSUME NEW parts, Change(parts) PROVE changed' \in [Part -> BOOLEAN]
  BY <1>3 DEF Change, ChangedType
<1>4. ASSUME NEW parts, ChangeMirror(parts) PROVE changed' \in [Part -> BOOLEAN]
  BY <1>4 DEF ChangeMirror, ChangedType
<1>5. CASE Reconcile
  BY <1>5, <1>4 DEF Reconcile, Update, ChangedType, historyVars
<1>6. CASE EventListed \/ Replace
  BY <1>6, <1>3 DEF EventListed, Replace, ChangedType, historyVars
<1>7. CASE ReadyChanges
  BY <1>7, <1>4 DEF ReadyChanges, Because, ChangedType, Cause
<1>8. CASE LateInit
  BY <1>8, <1>3 DEF LateInit, Because, ChangedType, Cause
<1>9. CASE RestartInPlace \/ Age
  BY <1>9 DEF RestartInPlace, Age, ChangedType, historyVars
<1>. QED
  BY <1>1, <1>2, <1>5, <1>6, <1>7, <1>8, <1>9, StepCases DEF Controller

LEMMA ObjectTypeStep == ObjectType /\ [Next]_vars => ObjectType'
<1>. SUFFICES ASSUME ObjectType, [Next]_vars PROVE ObjectType'
  OBVIOUS
<1>1. CASE Observe \/ Tick \/ UNCHANGED vars
  BY <1>1, ObserveFrame, TickFrame, StutterFrame DEF ObjectType
<1>2. CASE Rearm
  BY <1>2 DEF Rearm, Discard, controllerVars, ObjectType
<1>3. CASE Reconcile
  BY <1>3 DEF Reconcile, ObjectType
<1>4. CASE ReadyChanges \/ LateInit
  BY <1>4 DEF ReadyChanges, LateInit, ObjectType
<1>5. CASE EventListed \/ Replace \/ RestartInPlace \/ Age
  BY <1>5 DEF EventListed, Replace, RestartInPlace, Age, ObjectType
<1>. QED
  BY <1>1, <1>2, <1>3, <1>4, <1>5, StepCases DEF Controller

LEMMA FlagTypeStep == FlagType /\ [Next]_vars => FlagType'
<1>. SUFFICES ASSUME FlagType, [Next]_vars PROVE FlagType'
  OBVIOUS
<1>1. CASE Observe \/ Tick \/ UNCHANGED vars
  BY <1>1, ObserveFrame, TickFrame, StutterFrame DEF FlagType
<1>2. CASE Rearm
  BY <1>2 DEF Rearm, Discard, controllerVars, FlagType
<1>3. CASE Reconcile
  BY <1>3 DEF Reconcile, Update, FlagType, historyVars
<1>4. CASE EventListed \/ ReadyChanges \/ LateInit \/ Age
  BY <1>4 DEF EventListed, ReadyChanges, LateInit, Age, FlagType, historyVars
<1>5. CASE Replace
  BY <1>5 DEF Replace, FlagType
<1>6. CASE RestartInPlace
  BY <1>6 DEF RestartInPlace, FlagType
<1>. QED
  BY <1>1, <1>2, <1>3, <1>4, <1>5, <1>6, StepCases DEF Controller

LEMMA TypeOKInit == Init => TypeOK
<1>. SUFFICES ASSUME Init PROVE TypeOK
  OBVIOUS
<1>0. /\ pc = "settle" /\ verdict = "none"
      /\ restarts = 0 /\ notes = {} /\ problems = {}
      /\ elapsed = 0 /\ lastCall = Never /\ sincePoll = 0
  BY DEF Init
<1>1. RunnerType
  BY <1>0 DEF RunnerType, PC, Arming, Verdict, convergeMaxRestartRetries
<1>2. TimeType
  BY <1>0, ConvergeAssumption, WindowBounds DEF TimeType, Ages
<1>3. ChangedType
  BY DEF Init, ChangedType, NothingChanged
<1>4. ObjectType
  <2>1. provider \subseteq Trait
    BY ConvergeAssumption DEF Init
  <2>2. PICK o \in BOOLEAN : object = [observed |-> FALSE, synced |-> FALSE,
                                       owed |-> o, ready |-> "not yet"]
    BY DEF Init
  <2>. QED  BY <2>1, <2>2 DEF ObjectType
<1>5. FlagType
  BY DEF Init, FlagType
<1>. QED  BY <1>1, <1>2, <1>3, <1>4, <1>5, TypeOKParts

LEMMA TypeOKStep == TypeOK /\ [Next]_vars => TypeOK'
<1>. SUFFICES ASSUME TypeOK, [Next]_vars PROVE TypeOK'
  OBVIOUS
<1>1. RunnerType' /\ TimeType' /\ ChangedType' /\ ObjectType' /\ FlagType'
  BY TypeOKParts, RunnerTypeStep, TimeTypeStep, ChangedTypeStep, ObjectTypeStep,
     FlagTypeStep
<1>. QED
  BY <1>1 DEF TypeOK, RunnerType, TimeType, ChangedType, ObjectType, FlagType

\* Every variable of the check keeps its shape: no more than
\* convergeMaxRestartRetries windows are discarded, and nothing is timed or looked
\* up in the log beyond one window.
THEOREM TypeOKAlways == Spec => []TypeOK
<1>. QED  BY TypeOKInit, TypeOKStep, PTL DEF Spec

-----------------------------------------------------------------------------
(***************************************************************************)
(* The course of the check: the window is whole before anything is         *)
(* compared, nothing is listed before it, and a pod that is replaced under *)
(* the comparison has been replaced unseen.                                *)
(***************************************************************************)
Course ==
    /\ pc # "done" => verdict = "none"
    /\ pc \in Arming => elapsed = 0 /\ lastCall = Never
    /\ pc = "identity" \/ pc \in Comparing => elapsed = convergeWait
    /\ pc \in Arming \cup {"armed", "identity"} => problems = {}
    /\ pc \in Comparing /\ changed.pod => unseen

LEMMA ChangeKeepsPod ==
    ASSUME ChangedType, NEW parts, Change(parts) \/ ChangeMirror(parts), "pod" \notin parts
    PROVE  changed'.pod = changed.pod
<1>1. CASE Change(parts)
  BY <1>1 DEF Change, ChangedType, Part
<1>2. CASE ChangeMirror(parts)
  BY <1>2 DEF ChangeMirror, ChangedType, Part
<1>. QED  BY <1>1, <1>2

\* Only Replace changes the pod, and the runner is told unless it compares already.
LEMMA PodChanges ==
    ASSUME ChangedType, Controller
    PROVE  \/ Replace
           \/ changed'.pod = changed.pod /\ (unseen' = unseen \/ RestartInPlace)
<1>1. CASE Reconcile
  BY <1>1, ChangeKeepsPod DEF Reconcile, Update, historyVars
<1>2. CASE EventListed \/ LateInit
  BY <1>2, ChangeKeepsPod DEF EventListed, LateInit, historyVars
<1>3. CASE ReadyChanges
  BY <1>3, ChangeKeepsPod DEF ReadyChanges
<1>4. CASE RestartInPlace \/ Age
  BY <1>4 DEF RestartInPlace, Age, historyVars
<1>. QED  BY <1>1, <1>2, <1>3, <1>4 DEF Controller

LEMMA ArmingCallsAreForgotten ==
    ASSUME Controller, pc \in Arming, lastCall = Never
    PROVE  lastCall' = Never
<1>1. CASE Reconcile
  BY <1>1 DEF Reconcile, Update
<1>2. CASE EventListed \/ ReadyChanges \/ LateInit \/ Age
  BY <1>2 DEF EventListed, ReadyChanges, LateInit, Age
<1>3. CASE Replace \/ RestartInPlace
  BY <1>3 DEF Replace, RestartInPlace
<1>. QED  BY <1>1, <1>2, <1>3 DEF Controller

LEMMA CourseInit == Init => Course
<1>. SUFFICES ASSUME Init PROVE Course
  OBVIOUS
<1>1. pc = "settle" /\ verdict = "none" /\ problems = {} /\ elapsed = 0
      /\ lastCall = Never
  BY DEF Init
<1>. QED  BY <1>1 DEF Course, Arming, Comparing

LEMMA CourseStep == TypeOK /\ Course /\ [Next]_vars => Course'
<1>. SUFFICES ASSUME TypeOK, Course, [Next]_vars PROVE Course'
  OBVIOUS
<1>0. RunnerType /\ ChangedType
  BY TypeOKParts
<1>1. CASE Observe
  <2>1. /\ elapsed' = elapsed /\ lastCall' = lastCall
        /\ changed' = changed /\ unseen' = unseen
    BY <1>1, ObserveFrame
  <2>. QED
    BY <1>1, <2>1, ObservePath DEF Course, Arming, Comparing
<1>2. CASE Rearm
  BY <1>2 DEF Rearm, Discard, Goto, Course, Arming, Comparing
<1>3. CASE Controller
  <2>1. /\ pc' = pc /\ verdict' = verdict /\ problems' = problems
        /\ elapsed' = elapsed
    BY <1>3, ControllerFrame
  <2>2. pc \in Arming => lastCall' = Never
    BY <1>3, ArmingCallsAreForgotten DEF Course
  <2>3. pc \in Comparing /\ changed'.pod => unseen'
    <3>1. CASE Replace
      BY <3>1 DEF Replace
    <3>2. CASE RestartInPlace
      BY <3>2 DEF RestartInPlace, Unread, Comparing
    <3>. QED  BY <1>0, <1>3, <3>1, <3>2, PodChanges DEF Course
  <2>. QED  BY <2>1, <2>2, <2>3 DEF Course
<1>4. CASE Tick
  <2>1. /\ pc' = pc /\ verdict' = verdict /\ problems' = problems
        /\ changed' = changed /\ unseen' = unseen /\ pc \in Observing
    BY <1>4, TickFrame
  <2>2. elapsed = convergeWait => elapsed' = elapsed
    BY <1>4, WindowBounds DEF Tick
  <2>. QED  BY <2>1, <2>2 DEF Course, Observing, Arming, Comparing
<1>5. CASE UNCHANGED vars
  BY <1>5, StutterFrame DEF Course
<1>. QED  BY <1>1, <1>2, <1>3, <1>4, <1>5, StepCases

LEMMA CourseAlways == Spec => [](TypeOK /\ Course)
<1>. QED  BY TypeOKInit, TypeOKStep, CourseInit, CourseStep, PTL DEF Spec

-----------------------------------------------------------------------------
(***************************************************************************)
(* Restarts are told.                                                      *)
(***************************************************************************)
Told == \A n \in 1..restarts : RestartNote[n] \in notes

LEMMA NotesGrow ==
    ASSUME [Next]_vars
    PROVE  notes \subseteq notes'
<1>1. CASE Observe
  BY <1>1 DEF Observe, Runner, Skip, Fail, waitGenerationSettled, waitSynced,
              waitReady, waitControllerPodSettled, Snapshot, CountEvents, Wake,
              SamePod, Inconclusive, SnapshotAfter, CountEventsAfter, GetObject,
              buildConvergeResult
<1>2. CASE Rearm
  BY <1>2 DEF Rearm
<1>3. CASE Controller \/ Tick \/ UNCHANGED vars
  BY <1>3, ControllerFrame, TickFrame, StutterFrame
<1>. QED  BY <1>1, <1>2, <1>3, StepCases

LEMMA ToldStep == TypeOK /\ Told /\ [Next]_vars => Told'
<1>. SUFFICES ASSUME TypeOK, Told, [Next]_vars PROVE Told'
  OBVIOUS
<1>1. CASE Rearm
  <2>1. restarts' = restarts + 1 /\ RestartNote[restarts + 1] \in notes'
    BY <1>1 DEF Rearm
  <2>2. restarts \in Nat
    BY TypeOKParts DEF RunnerType, convergeMaxRestartRetries
  <2>3. \A n \in 1..(restarts + 1) : n \in 1..restarts \/ n = restarts + 1
    BY <2>2
  <2>. QED  BY <2>1, <2>3, NotesGrow DEF Told
<1>2. CASE ~Rearm
  <2>1. restarts' = restarts
    BY <1>2, StepCases, ObserveFrame, ControllerFrame, TickFrame, StutterFrame
  <2>. QED  BY <2>1, NotesGrow DEF Told
<1>. QED  BY <1>1, <1>2

\* A verdict tells every restart of the controller that spoiled a window before
\* it: convergeArm's fresh baseline takes over the notes of the discarded one.
THEOREM RestartsAreToldAlways == Spec => []RestartsAreTold
<1>1. Init => Told
  <2>1. Init => restarts = 0
    BY DEF Init
  <2>. QED  BY <2>1 DEF Told
<1>2. Told => RestartsAreTold
  BY DEF Told, RestartsAreTold
<1>. QED  BY <1>1, <1>2, ToldStep, TypeOKAlways, PTL DEF Spec

-----------------------------------------------------------------------------
(***************************************************************************)
(* RunConverge implements Observation.                                     *)
(***************************************************************************)
LEMMA StageFacts ==
    /\ pc \in Arming => Stage = "arming"
    /\ pc \in Observing => Stage = "observing"
    /\ pc = "done" => Stage = IF Judged THEN "judged" ELSE "ended"
BY DEF Stage, Arming, Observing, Comparing

LEMMA StageFactsAfter ==
    /\ pc' \in Arming => Stage' = "arming"
    /\ pc' \in Observing => Stage' = "observing"
    /\ pc' = "done" => Stage' = IF Judged' THEN "judged" ELSE "ended"
BY DEF Stage, Arming, Observing, Comparing

LEMMA VerdictIsJudgement ==
    ASSUME buildConvergeResult
    PROVE  Judged'
<1>1. /\ End(IF problems' = {} THEN "stable"
             ELSE IF problems' \cap LoopSignal # {} THEN "loop"
             ELSE "unsteady")
  BY DEF buildConvergeResult
<1>. QED  BY <1>1 DEF End, Judged

LEMMA ObserveKeepsPromise ==
    ASSUME TypeOK, Course, Observe
    PROVE  [Promise!ObsNext]_(Promise!obsVars)
<1>0. restarts' = restarts /\ elapsed' = elapsed
  BY ObserveFrame
<1>1. CASE pc \in Arming /\ pc' \in Arming
  BY <1>0, <1>1, StageFacts, StageFactsAfter DEF Promise!obsVars
<1>2. CASE pc = "events" /\ pc' = "armed"
  <2>1. Stage = "arming" /\ Stage' = "observing"
    BY <1>2, StageFacts, StageFactsAfter DEF Arming, Observing
  <2>. QED  BY <1>0, <2>1 DEF Promise!ObsNext, Promise!Open
<1>3. CASE pc \in Observing /\ pc' \in Observing
  BY <1>0, <1>3, StageFacts, StageFactsAfter DEF Promise!obsVars
<1>4. CASE /\ pc' = "done" /\ pc \notin {"armed", "done"}
           /\ verdict' \in {"skipped", "unsteady", "inconclusive", "error"}
           /\ problems' = problems
  <2>1. \/ Stage = "arming"
        \/ Stage = "observing" /\ elapsed = convergeWait
    BY <1>4, StageFacts, TypeOKParts DEF RunnerType, PC, Observing, Course
  <2>2. Stage' \in {"judged", "ended"}
    BY <1>4, StageFactsAfter
  <2>3. Stage' = "judged" => Stage = "observing"
    <3>1. SUFFICES ASSUME pc \in Arming PROVE ~Judged'
      BY <1>4, StageFacts, StageFactsAfter, TypeOKParts
         DEF RunnerType, PC, Observing
    <3>. QED  BY <1>4, <3>1 DEF Course, Judged
  <2>. QED
    BY <1>0, <2>1, <2>2, <2>3 DEF Promise!ObsNext, Promise!GiveUp, Promise!Judge
<1>5. CASE pc = "log" /\ buildConvergeResult /\ pc' = "done"
  <2>1. Stage = "observing" /\ elapsed = convergeWait
    BY <1>5, StageFacts DEF Observing, Comparing, Course
  <2>2. Stage' = "judged"
    BY <1>5, StageFactsAfter, VerdictIsJudgement
  <2>. QED  BY <1>0, <2>1, <2>2 DEF Promise!ObsNext, Promise!Judge
<1>. QED
  BY <1>1, <1>2, <1>3, <1>4, <1>5, ObservePath DEF Observing, Comparing

LEMMA StepKeepsPromise ==
    ASSUME TypeOK, Course, [Next]_vars
    PROVE  [Promise!ObsNext]_(Promise!obsVars)
<1>1. CASE Observe
  BY <1>1, ObserveKeepsPromise
<1>2. CASE Rearm
  <2>1. /\ pc = "identity" /\ pc' = "settle" /\ elapsed' = 0
        /\ restarts < convergeMaxRestartRetries /\ restarts' = restarts + 1
    BY <1>2 DEF Rearm, Discard, Goto
  <2>2. Stage = "observing" /\ Stage' = "arming" /\ elapsed = convergeWait
    BY <2>1, StageFacts, StageFactsAfter DEF Observing, Arming, Course
  <2>. QED  BY <2>1, <2>2 DEF Promise!ObsNext, Promise!Discard
<1>3. CASE Controller \/ UNCHANGED vars
  <2>1. /\ pc' = pc /\ verdict' = verdict /\ problems' = problems
        /\ elapsed' = elapsed /\ restarts' = restarts
    BY <1>3, ControllerFrame, StutterFrame
  <2>. QED  BY <2>1 DEF Promise!obsVars, Stage, Judged
<1>4. CASE Tick
  <2>1. /\ pc' = pc /\ restarts' = restarts /\ pc \in Observing
    BY <1>4, TickFrame
  <2>2. Stage = "observing" /\ Stage' = "observing"
    BY <2>1, StageFacts, StageFactsAfter
  <2>3. elapsed' = IF elapsed < convergeWait THEN elapsed + 1 ELSE elapsed
    BY <1>4 DEF Tick
  <2>. QED
    BY <2>1, <2>2, <2>3 DEF Promise!ObsNext, Promise!Pass, Promise!obsVars
<1>. QED  BY <1>1, <1>2, <1>3, <1>4, StepCases

\* RunConverge implements Observation: every verdict on the resource's stability
\* compares with a baseline that is one whole window old, convergeAssert discards
\* at most convergeMaxRestartRetries windows, and the verdict is final.
THEOREM KeepsPromiseAlways == Spec => KeepsPromise
<1>1. Init => Promise!ObsInit
  <2>. SUFFICES ASSUME Init PROVE Promise!ObsInit
    OBVIOUS
  <2>1. pc = "settle" /\ elapsed = 0 /\ restarts = 0
    BY DEF Init
  <2>. QED  BY <2>1, StageFacts DEF Promise!ObsInit, Arming
<1>2. TypeOK /\ Course /\ [Next]_vars => [Promise!ObsNext]_(Promise!obsVars)
  BY StepKeepsPromise
<1>. QED
  BY <1>1, <1>2, CourseAlways, PTL DEF Spec, KeepsPromise, Promise!ObsSpec

-----------------------------------------------------------------------------
(***************************************************************************)
(* A controller that loops is noticed.  As long as no restart came between *)
(* the process calls Update() in every reconcile, so the last call is as   *)
(* old as the last reconcile; and before the first one of the window no    *)
(* more time has passed than since the last reconcile.                     *)
(***************************************************************************)
Undisturbed == pc \in Observing /\ ~unseen /\ ~changed.pod

Polled ==
    "looping" \in provider /\ Undisturbed =>
        \/ lastCall = Never /\ elapsed <= sincePoll
        \/ lastCall # Never /\ lastCall <= sincePoll

LEMMA TimeFacts ==
    ASSUME TypeOK
    PROVE  /\ elapsed \in Nat /\ sincePoll \in Nat /\ sincePoll <= PollInterval
           /\ lastCall \in Nat \cup {Never}
<1>1. TimeType
  BY TypeOKParts
<1>. QED  BY <1>1, WindowBounds, ConvergeAssumption DEF TimeType, Ages

\* A step of the controller that is no restart leaves the poll's age, or reconciles.
LEMMA PollsReset ==
    ASSUME Controller, "looping" \in provider, pc \notin Arming
    PROVE  \/ Replace \/ RestartInPlace
           \/ UNCHANGED <<lastCall, sincePoll>>
           \/ lastCall' = 0 /\ sincePoll' = 0
<1>1. CASE Reconcile
  <2>1. Updates = {TRUE}
    BY DEF Updates
  <2>. QED  BY <1>1, <2>1 DEF Reconcile, Update
<1>2. CASE EventListed \/ ReadyChanges \/ LateInit \/ Age
  BY <1>2 DEF EventListed, ReadyChanges, LateInit, Age
<1>. QED  BY <1>1, <1>2 DEF Controller

LEMMA PolledStep == TypeOK /\ Course /\ Polled /\ [Next]_vars => Polled'
<1>. SUFFICES ASSUME TypeOK, Course, Polled, [Next]_vars,
                     ("looping" \in provider /\ Undisturbed)'
              PROVE  (\/ lastCall = Never /\ elapsed <= sincePoll
                      \/ lastCall # Never /\ lastCall <= sincePoll)'
  BY DEF Polled
<1>0. RunnerType /\ TimeType /\ ChangedType
  BY TypeOKParts
<1>a. /\ elapsed \in Nat /\ sincePoll \in Nat /\ sincePoll <= PollInterval
      /\ lastCall \in Nat \cup {Never}
  BY TimeFacts
<1>1. CASE Observe
  <2>1. /\ elapsed' = elapsed /\ sincePoll' = sincePoll /\ lastCall' = lastCall
        /\ provider' = provider /\ unseen' = unseen /\ changed' = changed
    BY <1>1, ObserveFrame
  <2>2. CASE pc \in Observing
    BY <2>1, <2>2 DEF Polled, Undisturbed
  <2>3. CASE pc = "events"
    BY <1>a, <2>1, <2>3 DEF Course, Arming
  <2>. QED
    BY <1>1, <2>2, <2>3, ObservePath DEF Undisturbed, Observing, Arming, Comparing
<1>2. CASE Rearm
  <2>1. pc' = "settle"
    BY <1>2 DEF Rearm, Goto
  <2>. QED  BY <2>1 DEF Undisturbed, Observing, Comparing
<1>3. CASE Controller
  <2>1. /\ pc' = pc /\ elapsed' = elapsed /\ provider' = provider
        /\ pc \in Observing /\ pc \notin Arming
    BY <1>3, ControllerFrame DEF Undisturbed, Observing, Arming, Comparing
  <2>2. ~Replace
    <3>. SUFFICES ASSUME Replace PROVE FALSE
      OBVIOUS
    <3>1. changed'.pod
      BY <2>1, <1>0
         DEF Replace, Change, Part, Unread, Observing, Comparing
    <3>. QED  BY <3>1 DEF Undisturbed
  <2>3. ~RestartInPlace
    <3>. SUFFICES ASSUME RestartInPlace PROVE FALSE
      OBVIOUS
    <3>1. unseen'
      BY <2>1 DEF RestartInPlace, Unread, Observing, Comparing
    <3>. QED  BY <3>1 DEF Undisturbed
  <2>4. Undisturbed
    BY <1>0, <1>3, <2>1, <2>2, <2>3, PodChanges DEF Undisturbed
  <2>5. CASE UNCHANGED <<lastCall, sincePoll>>
    BY <2>1, <2>4, <2>5 DEF Polled
  <2>6. CASE lastCall' = 0 /\ sincePoll' = 0
    BY <2>6 DEF Never
  <2>. QED  BY <1>3, <2>1, <2>2, <2>3, <2>5, <2>6, PollsReset
<1>4. CASE Tick
  <2>1. Undisturbed /\ "looping" \in provider
    BY <1>4, TickFrame DEF Undisturbed
  <2>2. /\ sincePoll < PollInterval /\ sincePoll' = sincePoll + 1
        /\ elapsed' = IF elapsed < convergeWait THEN elapsed + 1 ELSE elapsed
        /\ lastCall' = IF lastCall \in {Never, convergeWait} THEN Never
                      ELSE lastCall + 1
    BY <1>4 DEF Tick
  <2>3. CASE lastCall = Never
    BY <1>a, <2>1, <2>2, <2>3 DEF Polled, Never
  <2>4. CASE lastCall # Never
    <3>1. lastCall <= sincePoll
      BY <2>1, <2>4 DEF Polled
    <3>2. lastCall # convergeWait
      BY <1>a, <2>2, <2>4, <3>1, WindowBounds, ConvergeAssumption
    <3>. QED  BY <1>a, <2>2, <2>4, <3>1, <3>2 DEF Never
  <2>. QED  BY <2>3, <2>4
<1>5. CASE UNCHANGED vars
  BY <1>5, StutterFrame DEF Polled, Undisturbed
<1>. QED  BY <1>1, <1>2, <1>3, <1>4, <1>5, StepCases

\* A verdict of stable or loop is given where the log is read, and nowhere else.
LEMMA OnlyTheLogJudges ==
    ASSUME Course, [Next]_vars, verdict' \in {"stable", "loop"}
    PROVE  \/ Observe /\ buildConvergeResult
           \/ /\ verdict = verdict' /\ pc = "done"
              /\ provider' = provider /\ unseen' = unseen /\ causes' = causes
<1>1. CASE Observe
  <2>1. pc # "done"
    BY <1>1, ObservePath DEF Arming, Comparing
  <2>. QED  BY <1>1, <2>1, ObservePath DEF Course
<1>2. CASE Rearm
  BY <1>2 DEF Rearm, Goto, Course
<1>3. CASE Controller \/ Tick
  BY <1>3, ControllerFrame, TickFrame DEF Course, Observing, Comparing
<1>4. CASE UNCHANGED vars
  BY <1>4, StutterFrame DEF Course
<1>. QED  BY <1>1, <1>2, <1>3, <1>4, StepCases

\* What is left to prove when the log is read.
LEMMA NoticedStep ==
    ASSUME TypeOK, Course, Polled, LoopIsNoticed, [Next]_vars, PollInterval > 1
    PROVE  LoopIsNoticed'
<1>. SUFFICES ASSUME {"looping", "debug"} \subseteq provider', "crowded" \notin provider',
                     verdict' = "stable", ~unseen'
              PROVE  "log unavailable" \in notes'
  BY DEF LoopIsNoticed
<1>1. CASE Observe /\ buildConvergeResult
  <2>1. PICK streams \in ProviderLogs, lines \in BOOLEAN :
           /\ notes' = notes \cup (IF streams = {} THEN {"log unavailable"}
                                  ELSE IF lines THEN {} ELSE {"log silent"})
           /\ Found("calls", countUpdateLogCalls(streams))
           /\ End(IF problems' = {} THEN "stable"
                  ELSE IF problems' \cap LoopSignal # {} THEN "loop"
                  ELSE "unsteady")
    BY <1>1 DEF buildConvergeResult
  <2>2. problems' = {}
    BY <2>1 DEF End
  <2>3. pc = "log" /\ provider' = provider /\ unseen' = unseen
    BY <1>1, ObserveFrame DEF buildConvergeResult
  <2>4. Undisturbed /\ elapsed = convergeWait
    BY <2>3 DEF Course, Undisturbed, Observing, Comparing
  <2>5. lastCall # Never
    <3>1. ~(convergeWait <= sincePoll)
      BY TimeFacts, LongWindow
    <3>. QED  BY <2>3, <2>4, <3>1 DEF Polled
  <2>6. "own" \notin streams
    BY <2>1, <2>2, <2>3, <2>5 DEF Found, countUpdateLogCalls
  <2>7. streams = {}
    BY <2>1, <2>3, <2>6 DEF ProviderLogs
  <2>. QED  BY <2>1, <2>7
<1>2. CASE verdict = "stable" /\ provider' = provider /\ unseen' = unseen
  <2>1. "log unavailable" \in notes
    BY <1>2 DEF LoopIsNoticed
  <2>. QED  BY <2>1, NotesGrow
<1>. QED  BY <1>1, <1>2, OnlyTheLogJudges

\* A controller that calls Update() in every reconcile, and logs it, gets no clean
\* pass without the note that its log could not be read, unless other pods match the
\* log's selector or its restart went unseen; for any poll interval of at least two
\* ticks: with a single one, the half by which the window exceeds the interval would
\* be lost.
THEOREM LoopIsNoticedAlways ==
    ASSUME PollInterval > 1
    PROVE  Spec => []LoopIsNoticed
<1>1. Init => Polled /\ LoopIsNoticed
  <2>1. Init => pc = "settle" /\ verdict = "none"
    BY DEF Init
  <2>. QED
    BY <2>1 DEF Polled, Undisturbed, Observing, Comparing, LoopIsNoticed
<1>2. TypeOK /\ Course /\ Polled /\ LoopIsNoticed /\ [Next]_vars
         => (Polled /\ LoopIsNoticed)'
  BY PolledStep, NoticedStep
<1>. QED  BY <1>1, <1>2, CourseAlways, PTL DEF Spec

-----------------------------------------------------------------------------
(***************************************************************************)
(* A reported loop is one.  The providers this can be said of: one that    *)
(* does loop, or one whose Synced condition tells that nothing is owed,    *)
(* whose container restarts with its pod only and whose events are listed  *)
(* when they are counted.                                                  *)
(***************************************************************************)
Accountable(p) ==
    \/ "looping" \in p
    \/ "synced" \in p /\ p \cap {"killed", "late events"} = {}

Sound == provider \in Providers /\ Accountable(provider) /\ "looping" \notin provider

LEMMA SoundFacts ==
    ASSUME Sound
    PROVE  /\ "synced" \in provider /\ "killed" \notin provider
           /\ "late events" \notin provider /\ "looping" \notin provider
BY DEF Sound, Accountable

LEMMA ProviderKept == [Next]_vars => provider' = provider
<1>1. CASE Rearm
  BY <1>1 DEF Rearm, Discard, controllerVars
<1>. QED
  BY <1>1, StepCases, ObserveFrame, ControllerFrame, TickFrame, StutterFrame

(***************************************************************************)
(* Why something may have changed: a resource that comes up within the     *)
(* window was let through by waitReady with a note, or because the         *)
(* conditions the manifest declares are not those waitReady asks for.      *)
(***************************************************************************)
Caused ==
    /\ pc \in Unread.atProvider => causes = {}
    /\ "coming up" \in causes => "readiness" \in notes \/ "declared" \in provider
    /\ pc \notin {"settle", "sync", "ready", "done"} /\ object.ready = "not yet"
          => "readiness" \in notes \/ "declared" \in provider

LEMMA ReadyStep ==
    ASSUME ObjectType, Controller
    PROVE  object'.ready = object.ready \/ object'.ready # "not yet"
<1>1. CASE Reconcile \/ LateInit
  BY <1>1 DEF Reconcile, LateInit, ObjectType
<1>2. CASE ReadyChanges
  BY <1>2 DEF ReadyChanges, ObjectType
<1>3. CASE EventListed \/ Replace \/ RestartInPlace \/ Age
  BY <1>3 DEF EventListed, Replace, RestartInPlace, Age
<1>. QED  BY <1>1, <1>2, <1>3 DEF Controller

\* A cause is added by the controller, "coming up" by a resource not ready before.
LEMMA CausesStep ==
    ASSUME Controller
    PROVE  \/ causes' = causes
           \/ /\ pc \notin Unread.atProvider
              /\ causes' \in {causes \cup {"flap"}, causes \cup {"late init"}}
           \/ /\ pc \notin Unread.atProvider
              /\ object.ready = "not yet"
              /\ causes' = causes \cup {"coming up"}
<1>1. CASE ReadyChanges
  BY <1>1 DEF ReadyChanges, Because
<1>2. CASE LateInit
  BY <1>2 DEF LateInit, Because
<1>3. CASE Reconcile \/ EventListed \/ Replace \/ RestartInPlace \/ Age
  BY <1>3 DEF Reconcile, EventListed, Replace, RestartInPlace, Age, historyVars
<1>. QED  BY <1>1, <1>2, <1>3 DEF Controller

LEMMA WaitReadyNotes ==
    ASSUME Observe, pc = "ready", pc' # "done"
    PROVE  object.ready = "not yet" => "readiness" \in notes' \/ "declared" \in provider
BY DEF Observe, Runner, Skip, Fail, waitGenerationSettled, waitSynced, waitReady,
       waitControllerPodSettled, Snapshot, CountEvents, Wake, SamePod,
       Inconclusive, SnapshotAfter, CountEventsAfter, GetObject,
       buildConvergeResult, Goto, End

\* Which step leaves which part of convergeArm.
LEMMA ArmingPath ==
    ASSUME Observe, pc \in Arming, pc' # "done"
    PROVE  \/ pc = "settle" /\ pc' = "sync"
           \/ pc = "sync" /\ pc' = "ready" /\ Synced
           \/ pc = "ready" /\ pc' = "pod"
           \/ pc = "pod" /\ pc' = "snapshot" /\ aged
           \/ pc = "snapshot" /\ pc' = "events"
           \/ pc = "events" /\ pc' = "armed"
BY DEF Observe, Runner, Skip, Fail, waitGenerationSettled, waitSynced, waitReady,
       waitControllerPodSettled, Snapshot, CountEvents, Wake, SamePod,
       Inconclusive, SnapshotAfter, CountEventsAfter, GetObject,
       buildConvergeResult, Goto, End, Arming

LEMMA CausedStep == TypeOK /\ Caused /\ [Next]_vars => Caused'
<1>. SUFFICES ASSUME TypeOK, Caused, [Next]_vars PROVE Caused'
  OBVIOUS
<1>0. ObjectType /\ RunnerType /\ provider' = provider
  BY TypeOKParts, ProviderKept
<1>1. CASE Observe
  <2>1. causes' = causes /\ object' = object
    BY <1>1, ObserveFrame
  <2>2. CASE pc \in Arming /\ pc' # "done"
    BY <1>0, <1>1, <2>1, <2>2, ArmingPath, WaitReadyNotes, NotesGrow
       DEF Caused, Unread, Arming
  <2>3. CASE pc \notin Arming \/ pc' = "done"
    BY <1>0, <1>1, <2>1, <2>3, ObservePath, NotesGrow
       DEF Caused, Unread, Arming, Comparing
  <2>. QED  BY <2>2, <2>3
<1>2. CASE Rearm
  BY <1>0, <1>2 DEF Rearm, Discard, Goto, Caused
<1>3. CASE Controller
  <2>1. pc' = pc /\ notes' = notes /\ pc # "done"
    BY <1>3, ControllerFrame
  <2>2. CASE causes' = causes
    BY <1>0, <1>3, <2>1, <2>2, ReadyStep DEF Caused
  <2>3. CASE /\ pc \notin Unread.atProvider
             /\ causes' \in {causes \cup {"flap"}, causes \cup {"late init"}}
    BY <1>0, <1>3, <2>1, <2>3, ReadyStep DEF Caused
  <2>4. CASE /\ pc \notin Unread.atProvider /\ object.ready = "not yet"
             /\ causes' = causes \cup {"coming up"}
    BY <1>0, <1>3, <2>1, <2>4, ReadyStep DEF Caused, Unread, Arming
  <2>. QED  BY <1>3, <2>2, <2>3, <2>4, CausesStep
<1>4. CASE Tick \/ UNCHANGED vars
  BY <1>0, <1>4, TickFrame, StutterFrame DEF Caused
<1>. QED  BY <1>1, <1>2, <1>3, <1>4, StepCases

(***************************************************************************)
(* What convergeArm waits for: once Synced was seen no Update() is owed,   *)
(* and a pod that was seen aged has done what it does at its start.        *)
(***************************************************************************)
NothingOwed ==
    /\ object.synced => ~object.owed
    /\ pc \notin {"settle", "sync", "done"} => ~object.owed

Settled ==
    /\ aged => ~starting
    /\ pc \notin Unread.pod \cup {"done"} /\ ~changed.pod => aged

Calm == Sound => ~pending /\ NothingOwed /\ Settled

LEMMA ReconcileOwes ==
    ASSUME ObjectType, Reconcile
    PROVE  (object.owed = FALSE => object'.owed = FALSE)
           /\ (object'.synced => object'.owed = FALSE)
<1>1. PICK ok \in BOOLEAN : object' = [object EXCEPT !.observed = TRUE, !.synced = ok,
                                    !.owed = object.owed /\ ~ok]
  BY DEF Reconcile
<1>2. object'.synced = ok /\ object'.owed = (object.owed /\ ~ok)
  BY <1>1 DEF ObjectType
<1>3. object.owed \in BOOLEAN
  BY DEF ObjectType
<1>. QED  BY <1>2, <1>3, Zenon

LEMMA NothingOwedStep ==
    ASSUME TypeOK, Sound, NothingOwed, [Next]_vars
    PROVE  NothingOwed'
<1>0. ObjectType
  BY TypeOKParts
<1>b. object.owed \in BOOLEAN /\ object'.owed \in BOOLEAN
  BY <1>0, ObjectTypeStep DEF ObjectType
<1>1. CASE Observe
  <2>1. object' = object
    BY <1>1, ObserveFrame
  <2>2. CASE pc = "sync" /\ pc' # "done"
    BY <1>1, <2>1, <2>2, ArmingPath, SoundFacts DEF NothingOwed, Synced, Arming
  <2>3. CASE pc \in Arming /\ pc # "sync" /\ pc' # "done"
    BY <1>1, <2>1, <2>3, ArmingPath DEF NothingOwed, Arming
  <2>4. CASE pc \notin Arming \/ pc' = "done"
    BY <1>1, <2>1, <2>4, ObservePath DEF NothingOwed, Arming, Comparing
  <2>. QED  BY <2>2, <2>3, <2>4
<1>2. CASE Rearm
  BY <1>2 DEF Rearm, Discard, Goto, controllerVars, NothingOwed
<1>3. CASE Reconcile
  <2>1. pc' = pc
    BY <1>3, ControllerFrame DEF Controller
  <2>. QED  BY <1>0, <1>b, <1>3, <2>1, ReconcileOwes DEF NothingOwed
<1>4. CASE Controller /\ ~Reconcile
  <2>1. pc' = pc
    BY <1>4, ControllerFrame
  <2>2. object'.owed = object.owed /\ object'.synced = object.synced
    BY <1>0, <1>4 DEF Controller, EventListed, ReadyChanges, LateInit, Replace,
                      RestartInPlace, Age, ObjectType
  <2>. QED  BY <2>1, <2>2 DEF NothingOwed
<1>5. CASE Tick \/ UNCHANGED vars
  BY <1>5, TickFrame, StutterFrame DEF NothingOwed
<1>. QED  BY <1>1, <1>2, <1>3, <1>4, <1>5, StepCases

LEMMA SettledStep ==
    ASSUME TypeOK, Sound, Settled, [Next]_vars
    PROVE  Settled'
<1>0. ChangedType
  BY TypeOKParts
<1>1. CASE Observe
  <2>1. aged' = aged /\ starting' = starting /\ changed' = changed
    BY <1>1, ObserveFrame
  <2>2. CASE pc \in Arming /\ pc' # "done"
    BY <1>1, <2>1, <2>2, ArmingPath DEF Settled, Unread, Arming
  <2>3. CASE pc \notin Arming \/ pc' = "done"
    BY <1>1, <2>1, <2>3, ObservePath DEF Settled, Unread, Arming, Comparing
  <2>. QED  BY <2>2, <2>3
<1>2. CASE Rearm
  BY <1>2 DEF Rearm, Discard, Goto, controllerVars, Settled, Unread
<1>3. CASE Replace
  BY <1>0, <1>3, ControllerFrame DEF Controller, Replace, Change, Part, Settled
<1>4. CASE Controller /\ ~Replace
  <2>1. pc' = pc /\ ~RestartInPlace
    BY <1>4, ControllerFrame, SoundFacts DEF RestartInPlace
  <2>2. changed'.pod = changed.pod
    BY <1>0, <1>4, PodChanges
  <2>3. \/ aged' = aged /\ (starting' = starting \/ starting' = FALSE)
        \/ aged' /\ ~starting /\ starting' = starting
    BY <1>4, <2>1 DEF Controller, Reconcile, EventListed, ReadyChanges, LateInit, Age
  <2>. QED  BY <2>1, <2>2, <2>3 DEF Settled
<1>5. CASE Tick \/ UNCHANGED vars
  BY <1>5, TickFrame, StutterFrame DEF Settled
<1>. QED  BY <1>1, <1>2, <1>3, <1>4, <1>5, StepCases

LEMMA PendingStep ==
    ASSUME Sound, pending = FALSE, [Next]_vars
    PROVE  pending' = FALSE
<1>1. CASE Reconcile
  BY <1>1, SoundFacts DEF Reconcile, Update
<1>2. CASE Controller /\ ~Reconcile
  BY <1>2 DEF Controller, EventListed, ReadyChanges, LateInit, Replace,
              RestartInPlace, Age
<1>3. CASE Rearm
  BY <1>3 DEF Rearm, Discard, controllerVars
<1>. QED  BY <1>1, <1>2, <1>3, StepCases, ObserveFrame, TickFrame, StutterFrame

(***************************************************************************)
(* So without a cause, and under the pod that was recorded, nothing that   *)
(* signals a loop has changed.                                             *)
(***************************************************************************)
NoSignal ==
    /\ changed.atProvider = FALSE /\ changed.events = FALSE /\ lastCall = Never
    /\ problems \cap LoopSignal = {}

Uncaused == pc # "done" /\ changed.pod = FALSE /\ causes \cap {"coming up", "flap"} = {}

Quiet == Sound /\ Uncaused => NoSignal

\* An Update() of a sound provider only comes before the baseline is read.
LEMMA UpdatesEarly ==
    ASSUME Sound, Calm, Uncaused, Updates # {FALSE}
    PROVE  pc \in {"settle", "sync", "ready", "pod"}
<1>1. object.owed \/ starting
  BY SoundFacts DEF Updates
<1>. QED
  BY <1>1 DEF Calm, NothingOwed, Settled, Uncaused, Unread

\* What is changed before atProvider and events are read does not differ later.
LEMMA EarlyChanges ==
    ASSUME ChangedType, NEW parts, Change(parts) \/ ChangeMirror(parts),
           changed.atProvider = FALSE, changed.events = FALSE,
           pc \in Unread.atProvider
    PROVE  changed'.atProvider = FALSE /\ changed'.events = FALSE
<1>1. CASE Change(parts)
  BY <1>1 DEF Change, Unread, Part, Arming
<1>2. CASE ChangeMirror(parts)
  BY <1>2 DEF ChangeMirror, Unread, Part, Arming
<1>. QED  BY <1>1, <1>2

LEMMA QuietReconcile ==
    ASSUME TypeOK, Course, Sound, Calm, Uncaused, NoSignal, Reconcile
    PROVE  NoSignal'
<1>0. ChangedType
  BY TypeOKParts
<1>1. problems' = problems
  BY ControllerFrame DEF Controller
<1>2. CASE Updates = {FALSE}
  BY <1>1, <1>2 DEF Reconcile, NoSignal
<1>3. CASE Updates # {FALSE}
  <2>1. pc \in {"settle", "sync", "ready", "pod"}
    BY <1>3, UpdatesEarly
  <2>2. CASE UNCHANGED <<changed, lastCall>>
    BY <1>1, <2>2 DEF NoSignal
  <2>3. CASE Update
    <3>1. lastCall' = Never
      BY <2>1, <2>3 DEF Update, Arming
    <3>2. pc \in Unread.atProvider
      BY <2>1 DEF Unread, Arming
    <3>3. changed'.atProvider = FALSE /\ changed'.events = FALSE
      BY <1>0, <2>3, <3>2, EarlyChanges DEF Update, NoSignal
    <3>. QED  BY <1>1, <3>1, <3>3 DEF NoSignal
  <2>. QED  BY <2>2, <2>3 DEF Reconcile
<1>. QED  BY <1>2, <1>3

LEMMA ChangesElsewhere ==
    ASSUME ChangedType, NEW parts, Change(parts), {"atProvider", "events"} \cap parts = {}
    PROVE  changed'.atProvider = changed.atProvider /\ changed'.events = changed.events
BY DEF Change, ChangedType, Part

\* What was changed stays changed, but for atProvider, until the window is void.
LEMMA PodStaysChanged ==
    ASSUME ChangedType, Controller, changed'.pod = FALSE
    PROVE  changed.pod = FALSE
<1>1. CASE Replace
  BY <1>1 DEF Replace, Change, ChangedType, Part
<1>2. CASE ~Replace
  BY <1>2, PodChanges
<1>. QED  BY <1>1, <1>2

LEMMA QuietController ==
    ASSUME TypeOK, Course, Sound, Calm, Quiet, Controller, Uncaused'
    PROVE  NoSignal'
<1>0. ChangedType
  BY TypeOKParts
<1>1. pc' = pc /\ problems' = problems
  BY ControllerFrame
<1>2. Uncaused
  BY <1>0, <1>1, CausesStep, PodStaysChanged DEF Uncaused
<1>3. NoSignal
  BY <1>2 DEF Quiet
<1>4. CASE Reconcile
  BY <1>2, <1>3, <1>4, QuietReconcile
<1>5. CASE EventListed
  BY <1>5 DEF EventListed, Calm
<1>6. CASE ReadyChanges
  <2>1. pc \in Unread.atProvider
    BY <1>6 DEF ReadyChanges, Because, Uncaused
  <2>2. changed'.atProvider = FALSE /\ changed'.events = FALSE
    BY <1>0, <1>3, <1>6, <2>1, EarlyChanges DEF ReadyChanges, NoSignal
  <2>3. lastCall' = lastCall
    BY <1>6 DEF ReadyChanges
  <2>. QED  BY <1>1, <1>3, <2>2, <2>3 DEF NoSignal
<1>7. CASE LateInit \/ Replace
  <2>1. changed'.atProvider = changed.atProvider /\ changed'.events = changed.events
    BY <1>0, <1>7, ChangesElsewhere DEF LateInit, Replace
  <2>2. lastCall' \in {Never, lastCall}
    BY <1>7 DEF LateInit, Replace
  <2>. QED  BY <1>1, <1>3, <2>1, <2>2 DEF NoSignal
<1>8. CASE RestartInPlace
  BY <1>8, SoundFacts DEF RestartInPlace
<1>9. CASE Age
  BY <1>1, <1>3, <1>9 DEF Age, NoSignal
<1>. QED
  BY <1>4, <1>5, <1>6, <1>7, <1>8, <1>9 DEF Controller

\* Comparing finds what has changed, and nothing else.
LEMMA QuietObserve ==
    ASSUME Sound, Quiet, Observe, Uncaused'
    PROVE  NoSignal'
<1>1. changed' = changed /\ causes' = causes /\ lastCall' = lastCall
  BY ObserveFrame
<1>2. pc # "done"
  BY ObservePath DEF Arming, Comparing
<1>3. Uncaused /\ NoSignal
  BY <1>1, <1>2 DEF Uncaused, Quiet
<1>4. problems' \cap LoopSignal = {}
  <2>1. CASE SnapshotAfter \/ CountEventsAfter
    BY <1>3, <2>1 DEF SnapshotAfter, CountEventsAfter, Found, NoSignal
  <2>2. CASE GetObject
    BY <1>3, <2>2 DEF GetObject, NoSignal, LoopSignal
  <2>3. CASE problems' = problems
    BY <1>3, <2>3 DEF NoSignal
  <2>4. CASE buildConvergeResult
    BY <2>4 DEF buildConvergeResult, End, Uncaused
  <2>. QED
    BY <2>1, <2>2, <2>3, <2>4
       DEF Observe, Runner, Skip, Fail, waitGenerationSettled, waitSynced,
           waitReady, waitControllerPodSettled, Snapshot, CountEvents, Wake,
           SamePod, Inconclusive
<1>. QED  BY <1>1, <1>3, <1>4 DEF NoSignal

LEMMA QuietStep ==
    ASSUME TypeOK, Course, Sound, Calm, Quiet, [Next]_vars, Uncaused'
    PROVE  NoSignal'
<1>1. CASE Observe
  BY <1>1, QuietObserve
<1>2. CASE Rearm
  BY <1>2 DEF Rearm, Discard, NothingChanged, Part, Goto, Course, NoSignal
<1>3. CASE Controller
  BY <1>3, QuietController
<1>4. CASE Tick
  <2>1. /\ pc' = pc /\ problems' = problems /\ changed' = changed
        /\ causes' = causes
    BY <1>4, TickFrame
  <2>2. NoSignal
    BY <2>1 DEF Uncaused, Quiet
  <2>3. lastCall' = Never
    BY <1>4, <2>2 DEF Tick, NoSignal
  <2>. QED  BY <2>1, <2>2, <2>3 DEF NoSignal
<1>5. CASE UNCHANGED vars
  BY <1>5, StutterFrame DEF Quiet, NoSignal, Uncaused
<1>. QED  BY <1>1, <1>2, <1>3, <1>4, <1>5, StepCases

\* What is left to prove when the log is read.
LEMMA RealStep ==
    ASSUME TypeOK, Course, Caused, Quiet, LoopIsReal, [Next]_vars,
           Sound \/ "looping" \in provider
    PROVE  LoopIsReal'
<1>. SUFFICES ASSUME verdict' = "loop", ~unseen', "looping" \notin provider'
              PROVE  \/ "flap" \in causes'
                     \/ /\ "coming up" \in causes'
                        /\ "readiness" \in notes' \/ "declared" \in provider'
  BY DEF LoopIsReal
<1>1. CASE Observe /\ buildConvergeResult
  <2>1. /\ causes' = causes /\ provider' = provider /\ unseen' = unseen
        /\ pc = "log"
    BY <1>1, ObserveFrame DEF buildConvergeResult
  <2>2. Sound /\ changed.pod = FALSE
    <3>1. changed.pod \in BOOLEAN
      BY TypeOKParts DEF ChangedType, Part
    <3>2. ~changed.pod
      BY <2>1 DEF Course, Comparing
    <3>. QED  BY <2>1, <3>1, <3>2
  <2>3. ~NoSignal
    <3>1. PICK streams \in ProviderLogs :
             /\ Found("calls", countUpdateLogCalls(streams))
             /\ End(IF problems' = {} THEN "stable"
                    ELSE IF problems' \cap LoopSignal # {} THEN "loop"
                    ELSE "unsteady")
      BY <1>1 DEF buildConvergeResult
    <3>2. problems' \cap LoopSignal # {}
      BY <3>1 DEF End
    <3>. QED  BY <3>1, <3>2 DEF Found, countUpdateLogCalls, NoSignal
  <2>4. causes \cap {"coming up", "flap"} # {}
    BY <2>1, <2>2, <2>3 DEF Quiet, Uncaused
  <2>. QED  BY <2>1, <2>4, NotesGrow DEF Caused
<1>2. CASE verdict = "loop" /\ provider' = provider /\ unseen' = unseen /\ causes' = causes
  BY <1>2, NotesGrow DEF LoopIsReal
<1>. QED  BY <1>1, <1>2, OnlyTheLogJudges

RealInv ==
    /\ provider \in Providers
    /\ Caused /\ Calm /\ Quiet /\ LoopIsReal

LEMMA RealInvInit == Init => RealInv
<1>. SUFFICES ASSUME Init PROVE RealInv
  OBVIOUS
<1>1. /\ pc = "settle" /\ verdict = "none" /\ problems = {} /\ lastCall = Never
      /\ changed = NothingChanged /\ causes = {} /\ pending = FALSE
      /\ provider \in Providers
  BY DEF Init
<1>2. object.synced = FALSE
  <2>1. PICK o \in BOOLEAN : object = [observed |-> FALSE, synced |-> FALSE,
                                       owed |-> o, ready |-> "not yet"]
    BY DEF Init
  <2>. QED  BY <2>1
<1>3. aged => ~starting
  BY DEF Init
<1>4. Caused /\ LoopIsReal
  BY <1>1 DEF Caused, LoopIsReal
<1>5. Calm
  BY <1>1, <1>2, <1>3 DEF Calm, NothingOwed, Settled, Unread
<1>6. NoSignal
  BY <1>1 DEF NoSignal, NothingChanged, Part
<1>. QED  BY <1>1, <1>4, <1>5, <1>6 DEF RealInv, Quiet

LEMMA RealInvStep ==
    ASSUME \A p \in Providers : Accountable(p),
           TypeOK, Course, RealInv, [Next]_vars
    PROVE  RealInv'
<1>1. provider' = provider /\ (Sound' <=> Sound)
  BY ProviderKept DEF Sound
<1>2. Sound \/ "looping" \in provider
  BY DEF RealInv, Sound
<1>3. Caused'
  BY CausedStep DEF RealInv
<1>4. Calm'
  <2>. SUFFICES ASSUME Sound PROVE (~pending /\ NothingOwed /\ Settled)'
    BY <1>1 DEF Calm
  <2>1. pending = FALSE /\ NothingOwed /\ Settled
    <3>1. pending \in BOOLEAN
      BY TypeOKParts DEF FlagType
    <3>. QED  BY <3>1, Zenon DEF RealInv, Calm
  <2>. QED  BY <2>1, PendingStep, NothingOwedStep, SettledStep
<1>5. Quiet'
  BY <1>1, QuietStep DEF RealInv, Quiet
<1>6. LoopIsReal'
  BY <1>2, RealStep DEF RealInv
<1>. QED  BY <1>1, <1>3, <1>4, <1>5, <1>6 DEF RealInv

\* A reported loop is one, for every accountable provider: neither an Update() owed
\* since before the baseline nor the burst of a restart is taken for a loop, and a
\* resource still coming up only under waitReady's note, or where the manifest
\* declares conditions that waitReady does not wait for.
THEOREM LoopIsRealAlways ==
    ASSUME \A p \in Providers : Accountable(p)
    PROVE  Spec => []LoopIsReal
<1>1. TypeOK /\ Course /\ RealInv /\ [Next]_vars => RealInv'
  BY RealInvStep
<1>2. RealInv => LoopIsReal
  BY DEF RealInv
<1>. QED  BY <1>1, <1>2, RealInvInit, CourseAlways, PTL DEF Spec

=============================================================================
