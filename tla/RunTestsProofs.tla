---------------------------- MODULE RunTestsProofs ----------------------------
(***************************************************************************)
(* Theorems about RunTests, for every manifest, every backend, every       *)
(* ceiling and burst, and the faults that the hypotheses of a theorem      *)
(* admit.                                                                  *)
(***************************************************************************)
EXTENDS RunTests, SequenceTheorems, FiniteSetTheorems, WellFoundedInduction,
        TLAPS

-----------------------------------------------------------------------------
(***************************************************************************)
(* Numbers and sequences.                                                  *)
(***************************************************************************)
LEMMA MinOfNonEmpty ==
    ASSUME NEW S, S \subseteq Nat, S # {}
    PROVE  Min(S) \in S /\ \A n \in S : Min(S) <= n
<1>. DEFINE T == {0..(n - 1) : n \in S}
            R == StrictSubsetOrdering(Nat)
<1>1. IsWellFoundedOn(R, FiniteSubsetsOf(Nat))
  BY FS_StrictSubsetOrderingWellFounded
<1>2. T \subseteq FiniteSubsetsOf(Nat) /\ T # {}
  <2>1. \A n \in Nat : IsFiniteSet(0..(n - 1)) /\ 0..(n - 1) \in SUBSET Nat
    BY FS_Interval
  <2>. QED  BY <2>1 DEF FiniteSubsetsOf
<1>3. PICK x \in T : \A y \in T : ~ (<<y, x>> \in R)
  <2>. HIDE DEF T, R
  <2>. QED  BY <1>1, <1>2, WFMin
<1>4. PICK m \in S : x = 0..(m - 1)
  BY <1>3
<1>5. ASSUME NEW n \in S, n < m PROVE FALSE
  <2>1. <<0..(n - 1), x>> \notin R /\ 0..(n - 1) \in T
    BY <1>3, <1>5
  <2>2. 0..(n - 1) \subseteq 0..(m - 1) /\ n \in 0..(m - 1) /\ n \notin 0..(n - 1)
    BY <1>5
  <2>3. 0..(n - 1) \in SUBSET Nat /\ 0..(m - 1) \in SUBSET Nat
    OBVIOUS
  <2>. QED
    BY <1>4, <2>1, <2>2, <2>3 DEF StrictSubsetOrdering
<1>6. \A n \in S : m <= n
  BY <1>5
<1>. QED  BY <1>6 DEF Min

LEMMA MinOfTwo ==
    ASSUME NEW m \in Nat, NEW n \in Nat
    PROVE  /\ Min({m, n}) \in {m, n}
           /\ Min({m, n}) <= m /\ Min({m, n}) <= n
BY MinOfNonEmpty

LEMMA TestsFacts ==
    /\ Len(Tests) \in Nat /\ DOMAIN Tests = 1..Len(Tests)
    /\ \A j \in 1..Len(Tests) :
          /\ Tests[j].field \in Field /\ Tests[j].value \in Value
          /\ \A f \in DOMAIN Tests[j].withValues : Tests[j].withValues[f] \in Value
<1>1. \A j \in 1..Len(Tests) : Tests[j] \in Entry
  BY RunTestsAssumption, ElementOfSeq
<1>2. ASSUME NEW e \in Entry
      PROVE  /\ e.field \in Field /\ e.value \in Value
             /\ \A f \in DOMAIN e.withValues : e.withValues[f] \in Value
  <2>1. e.field \in Field /\ e.value \in Value
    BY DEF Entry, Readable
  <2>2. PICK S \in SUBSET Field : e.withValues \in [S -> Readable]
    BY DEF Entry
  <2>. QED  BY <2>1, <2>2 DEF Readable
<1>. QED  BY <1>1, <1>2, RunTestsAssumption, LenProperties

LEMMA AppendFacts ==
    ASSUME NEW S, NEW s \in Seq(S), NEW e \in S
    PROVE  /\ Append(s, e) \in Seq(S) /\ Len(Append(s, e)) = Len(s) + 1
           /\ DOMAIN s = 1..Len(s) /\ DOMAIN Append(s, e) = 1..(Len(s) + 1)
           /\ \A j \in 1..Len(s) : Append(s, e)[j] = s[j]
           /\ Append(s, e)[Len(s) + 1] = e
BY AppendProperties, LenProperties

-----------------------------------------------------------------------------
(***************************************************************************)
(* What a step may change.  The controller never touches the runner, and   *)
(* of the runner's steps only Patch and the restarts touch the world.      *)
(***************************************************************************)
Body == {"reset", "begin", "count", "patch", "wait", "poll", "evidence",
         "snapshot", "account"}

WorldStep == World /\ UNCHANGED runnerVars

LEMMA StepCases == [Next]_vars <=> Runner \/ WorldStep \/ UNCHANGED vars
BY DEF Next, WorldStep

LEMMA WorldFrame ==
    ASSUME WorldStep \/ UNCHANGED vars
    PROVE  /\ UNCHANGED <<pc, i, result, results, eventsBefore, snapshot>>
           /\ UNCHANGED <<attempts, eventBaseline, current, resetFailed>>
           /\ UNCHANGED <<baselines, violations, checked, consumedClear, unproven>>
BY DEF WorldStep, vars, runnerVars, loopVars, assertVars

LEMMA StutterFrame ==
    ASSUME UNCHANGED vars
    PROVE  /\ UNCHANGED <<spec, mirror, dirty, reached, movedBy>>
           /\ UNCHANGED <<recorded, inflight, tokens>>
BY DEF vars, worldVars, eventVars

\* The runner's steps that leave the world alone.
Read ==
    \/ Abort \/ CountPreExisting \/ CountPreExistingFails \/ Skip \/ Measure
    \/ NoOp \/ Begin \/ CountBefore \/ Reconciled \/ ApplyPatchAndReconcileFails
    \/ PollField \/ PollFieldFails \/ Evidenced \/ NotEvidenced
    \/ EvidenceUnchecked \/ TakeSnapshot \/ TakeSnapshotFails \/ Account \/ Return

LEMMA RunnerCases == Runner <=> Read \/ PreReset \/ Reset \/ Patch
BY DEF Runner, Read

LEMMA ReadFrame ==
    ASSUME Read
    PROVE  /\ UNCHANGED <<spec, mirror, dirty, reached, movedBy>>
           /\ UNCHANGED <<recorded, inflight, tokens>>
BY DEF Read, Abort, CountPreExisting, CountPreExistingFails, Skip, Measure, NoOp,
       Begin, CountBefore, Reconciled, ApplyPatchAndReconcileFails, PollField,
       PollFieldFails, Evidenced, NotEvidenced, EvidenceUnchecked,
       EvidenceVerdict, TakeSnapshot, TakeSnapshotFails, Account, Return,
       worldVars, eventVars

LEMMA PatchFrame ==
    ASSUME Patch
    PROVE  /\ pc = "patch" /\ pc' = "wait"
           /\ UNCHANGED <<i, result, results, eventsBefore, snapshot>>
           /\ UNCHANGED <<attempts, eventBaseline, current, resetFailed>>
           /\ UNCHANGED <<baselines, violations, checked, consumedClear, unproven>>
           /\ UNCHANGED <<mirror, reached, movedBy, recorded, inflight, tokens>>
           /\ spec' = Patched(spec, test) /\ dirty' = dirty \cup {i}
BY DEF Patch, Goto, loopVars, assertVars, eventVars

LEMMA RestartFrame ==
    ASSUME PreReset \/ Reset
    PROVE  /\ UNCHANGED <<i, result, results, eventsBefore, snapshot>>
           /\ UNCHANGED <<baselines, violations, checked, consumedClear, unproven>>
           /\ UNCHANGED <<spec, mirror, dirty, reached, movedBy, recorded>>
           /\ resetFailed' = resetFailed \/ resetFailed' = TRUE
           /\ \/ tokens' = Burst /\ inflight' \in 0..inflight
              \/ tokens' = tokens /\ inflight' = inflight /\ resetFailed' = TRUE
BY DEF PreReset, Reset, resetEventBurst, Restarted, Goto, assertVars, worldVars,
       eventVars

-----------------------------------------------------------------------------
(***************************************************************************)
(* Type correctness, in parts.                                             *)
(***************************************************************************)
FlowType ==
    /\ pc \in PC /\ i \in 1..(Len(Tests) + 1)
    /\ pc \in Body => i \in 1..Len(Tests)

ResultType ==
    /\ result \subseteq Flag /\ "Skipped" \notin result
    /\ results \in Seq(SUBSET Flag) /\ Len(results) = i - 1

CountType ==
    /\ attempts \in Nat /\ attempts < i
    /\ eventBaseline \in Nat \cup {Unknown} /\ current \in Nat \cup {Unknown}
    /\ eventsBefore \in Nat \cup {Unknown}

EventType == recorded \in Nat /\ inflight \in 0..MaxLag /\ tokens \in 0..Burst

LEMMA FlowTypeStep == FlowType /\ [Next]_vars => FlowType'
<1>. SUFFICES ASSUME FlowType, [Next]_vars PROVE FlowType'
  OBVIOUS
<1>0. Len(Tests) \in Nat
  BY TestsFacts
<1>1. CASE Abort \/ CountPreExisting \/ CountPreExistingFails \/ PreReset \/ Return
  BY <1>1 DEF Abort, CountPreExisting, CountPreExistingFails, PreReset, Return,
              Goto, FlowType, PC, Body
<1>2. CASE Skip
  BY <1>0, <1>2 DEF Skip, FlowType, Body
<1>3. CASE Measure \/ Reset
  BY <1>0, <1>3 DEF Measure, Reset, Goto, FlowType, PC, Body
<1>4. CASE NoOp \/ Begin \/ CountBefore \/ Patch \/ Reconciled
            \/ ApplyPatchAndReconcileFails
  BY <1>4 DEF NoOp, Begin, CountBefore, Patch, Reconciled, Finish,
              ApplyPatchAndReconcileFails, Goto, FlowType, PC, Body
<1>5. CASE PollField \/ PollFieldFails \/ Evidenced \/ NotEvidenced
            \/ EvidenceUnchecked \/ TakeSnapshot \/ TakeSnapshotFails
  BY <1>5 DEF PollField, PollFieldFails, Evidenced, NotEvidenced, Finish,
              EvidenceUnchecked, EvidenceVerdict, TakeSnapshot,
              TakeSnapshotFails, Goto, FlowType, PC, Body
<1>6. CASE Account
  BY <1>0, <1>6 DEF Account, Goto, FlowType, PC, Body
<1>7. CASE WorldStep \/ UNCHANGED vars
  BY <1>7, WorldFrame DEF FlowType
<1>. QED
  BY <1>1, <1>2, <1>3, <1>4, <1>5, <1>6, <1>7, StepCases DEF Runner

LEMMA UntrustedFacts ==
    ASSUME NEW flags, flags \subseteq Flag
    PROVE  Untrusted(flags) \subseteq Flag /\ flags \subseteq Untrusted(flags)
           /\ Untrusted(flags) \subseteq flags \cup {"EvidenceUntrusted"}
BY DEF Untrusted, Flag

\* What Account stores for the entry.
Stored == Untrusted(result \cup Misread)

LEMMA StoredFacts ==
    ASSUME ResultType
    PROVE  /\ Stored \subseteq Flag /\ "Skipped" \notin Stored
           /\ result \subseteq Stored
           /\ Stored \subseteq result \cup {"Error", "EvidenceUntrusted"}
           /\ "NoOp" \notin result /\ ReadFails(snapshot, test.field)
              => "Error" \in Stored
           /\ resetFailed /\ "NoOp" \notin result => "EvidenceUntrusted" \in Stored
<1>1. Misread \subseteq {"Error"} /\ result \cup Misread \subseteq Flag
  BY DEF Misread, ResultType, Flag
<1>2. /\ Stored \subseteq Flag /\ result \cup Misread \subseteq Stored
      /\ Stored \subseteq result \cup Misread \cup {"EvidenceUntrusted"}
  BY <1>1, UntrustedFacts DEF Stored
<1>3. "NoOp" \notin result /\ ReadFails(snapshot, test.field) => Misread = {"Error"}
  BY DEF Misread
<1>4. resetFailed /\ "NoOp" \notin result => "EvidenceUntrusted" \in Stored
  BY <1>1 DEF Stored, Untrusted
<1>. QED  BY <1>1, <1>2, <1>3, <1>4 DEF ResultType

LEMMA ResultTypeStep == FlowType /\ ResultType /\ [Next]_vars => ResultType'
<1>. SUFFICES ASSUME FlowType, ResultType, [Next]_vars PROVE ResultType'
  OBVIOUS
<1>1. CASE Abort \/ CountPreExisting \/ CountPreExistingFails \/ PreReset \/ Return
            \/ Measure \/ Reset \/ Begin \/ CountBefore \/ Patch \/ Reconciled
            \/ TakeSnapshot
  BY <1>1 DEF Abort, CountPreExisting, CountPreExistingFails, PreReset, Return,
              Measure, Reset, Begin, CountBefore, Patch, Reconciled, TakeSnapshot,
              ResultType
<1>2. CASE Skip
  <2>1. i' = i + 1 /\ results' = Append(results, {"Skipped"}) /\ result' = result
    BY <1>2 DEF Skip
  <2>2. {"Skipped"} \in SUBSET Flag
    BY DEF Flag
  <2>3. results' \in Seq(SUBSET Flag) /\ Len(results') = Len(results) + 1
    BY <2>1, <2>2, AppendFacts DEF ResultType
  <2>. QED  BY <2>1, <2>3 DEF ResultType, FlowType
<1>3. CASE NoOp \/ ApplyPatchAndReconcileFails \/ TakeSnapshotFails
  BY <1>3 DEF NoOp, ApplyPatchAndReconcileFails, TakeSnapshotFails, Finish, Flag,
              ResultType
<1>4. CASE PollField \/ PollFieldFails \/ Evidenced \/ NotEvidenced
            \/ EvidenceUnchecked
  BY <1>4 DEF PollField, PollFieldFails, Evidenced, NotEvidenced,
              EvidenceUnchecked, EvidenceVerdict, Flag, ResultType
<1>5. CASE Account
  <2>1. /\ i' = i + 1 /\ results' = Append(results, Stored)
        /\ result' = {}
    BY <1>5 DEF Account, Stored
  <2>2. Stored \in SUBSET Flag
    BY StoredFacts
  <2>3. results' \in Seq(SUBSET Flag) /\ Len(results') = Len(results) + 1
    BY <2>1, <2>2, AppendFacts DEF ResultType
  <2>. QED  BY <2>1, <2>3 DEF ResultType, FlowType
<1>6. CASE WorldStep \/ UNCHANGED vars
  BY <1>6, WorldFrame DEF ResultType
<1>. QED
  BY <1>1, <1>2, <1>3, <1>4, <1>5, <1>6, StepCases DEF Runner

LEMMA CountTypeStep ==
    FlowType /\ CountType /\ EventType /\ [Next]_vars => CountType'
<1>. SUFFICES ASSUME FlowType, CountType, EventType, [Next]_vars PROVE CountType'
  OBVIOUS
<1>1. CASE Abort \/ CountPreExisting \/ CountPreExistingFails \/ PreReset \/ Return
  BY <1>1 DEF Abort, CountPreExisting, CountPreExistingFails, PreReset, Return,
              loopVars, CountType, EventType
<1>2. CASE Skip
  BY <1>2 DEF Skip, loopVars, CountType, FlowType
<1>3. CASE Measure
  BY <1>3 DEF Measure, CountType, EventType
<1>4. CASE Reset
  BY <1>4 DEF Reset, CountType, FlowType
<1>5. CASE NoOp \/ Begin \/ CountBefore \/ Patch \/ Reconciled
            \/ ApplyPatchAndReconcileFails
  BY <1>5 DEF NoOp, Begin, CountBefore, Patch, Reconciled, Finish,
              ApplyPatchAndReconcileFails, loopVars, CountType, EventType
<1>6. CASE PollField \/ PollFieldFails \/ Evidenced \/ NotEvidenced
            \/ EvidenceUnchecked \/ TakeSnapshot \/ TakeSnapshotFails
  BY <1>6 DEF PollField, PollFieldFails, Evidenced, NotEvidenced, Finish,
              EvidenceUnchecked, EvidenceVerdict, TakeSnapshot,
              TakeSnapshotFails, loopVars, CountType
<1>7. CASE Account
  <2>1. /\ i' = i + 1 /\ attempts' \in {attempts, attempts + 1}
        /\ eventsBefore' = Unknown /\ eventBaseline' = eventBaseline
        /\ current' = current
    BY <1>7 DEF Account
  <2>. QED  BY <2>1 DEF CountType, FlowType
<1>8. CASE WorldStep \/ UNCHANGED vars
  BY <1>8, WorldFrame DEF CountType
<1>. QED
  BY <1>1, <1>2, <1>3, <1>4, <1>5, <1>6, <1>7, <1>8, StepCases DEF Runner

-----------------------------------------------------------------------------
(***************************************************************************)
(* The event pipeline.  What Emit takes from the burst is recorded or in   *)
(* flight; nothing else but a restart changes their sum.                   *)
(***************************************************************************)
Accepted == recorded + inflight

LEMMA EmitFacts ==
    ASSUME EventType, NEW n \in Nat \ {0}, Emit(n)
    PROVE  /\ EventType' /\ recorded <= recorded'
           /\ Accepted' = Accepted + (tokens - tokens')
           /\ tokens' <= tokens
           /\ tokens > 0 => tokens' < tokens
<1>. DEFINE accepted == Min({n, tokens})
            room == Min({accepted, MaxLag - inflight})
<1>0. /\ recorded \in Nat /\ inflight \in Nat /\ tokens \in Nat /\ tokens <= Burst
      /\ inflight <= MaxLag /\ MaxLag \in Nat /\ Burst \in Nat
  BY RunTestsAssumption DEF EventType
<1>1. /\ accepted \in Nat /\ accepted <= tokens
      /\ tokens > 0 => accepted > 0
  <2>1. accepted \in {n, tokens} /\ accepted <= tokens
    BY <1>0, MinOfTwo
  <2>. QED  BY <1>0, <2>1
<1>2. /\ room \in Nat /\ room <= accepted /\ room <= MaxLag - inflight
  <2>1. MaxLag - inflight \in Nat
    BY <1>0
  <2>2. /\ room \in {accepted, MaxLag - inflight}
        /\ room <= accepted /\ room <= MaxLag - inflight
    BY <1>1, <2>1, MinOfTwo
  <2>. QED  BY <1>1, <2>1, <2>2
<1>3. PICK late \in 0..room :
         /\ tokens' = tokens - accepted
         /\ inflight' = inflight + late
         /\ recorded' = recorded + accepted - late
  BY DEF Emit
<1>. HIDE DEF accepted, room
<1>4. late \in Nat /\ late <= accepted /\ late <= MaxLag - inflight
  BY <1>0, <1>1, <1>2, <1>3
<1>. QED  BY <1>0, <1>1, <1>3, <1>4 DEF EventType, Accepted

\* How a step of the world goes: it emits for what is dirty, or nothing is counted.
LEMMA WorldCases ==
    ASSUME WorldStep
    PROVE  \/ /\ dirty # {} /\ \E n \in Nat \ {0} : Emit(n)
              /\ reached' = reached \cup dirty /\ dirty' \subseteq dirty
           \/ /\ dirty' = {} /\ reached' = reached
              /\ UNCHANGED <<recorded, inflight, tokens>>
           \/ /\ inflight > 0 /\ inflight' = inflight - 1
              /\ recorded' = recorded + 1 /\ tokens' = tokens
              /\ reached' = reached /\ dirty' = dirty
<1>1. CASE Update
  <2>1. 1..MaxEvents \subseteq Nat \ {0}
    BY RunTestsAssumption
  <2>2. \E n \in 1..MaxEvents : Emit(n)
    BY <1>1 DEF Update
  <2>3. dirty # {} /\ reached' = reached \cup dirty /\ dirty' = {}
    BY <1>1 DEF Update
  <2>. QED  BY <2>1, <2>2, <2>3
<1>2. CASE UpdateFails
  <2>1. Emit(1) /\ dirty # {} /\ reached' = reached \cup dirty /\ dirty' = dirty
    BY <1>2 DEF UpdateFails
  <2>. QED  BY <2>1
<1>3. CASE NoUpdate
  BY <1>3 DEF NoUpdate, eventVars
<1>4. CASE EventListed
  BY <1>4 DEF EventListed
<1>. QED  BY <1>1, <1>2, <1>3, <1>4 DEF WorldStep, World

LEMMA EventTypeStep == EventType /\ [Next]_vars => EventType'
<1>. SUFFICES ASSUME EventType, [Next]_vars PROVE EventType'
  OBVIOUS
<1>1. CASE Read \/ Patch \/ UNCHANGED vars
  BY <1>1, ReadFrame, PatchFrame, StutterFrame DEF EventType
<1>2. CASE PreReset \/ Reset
  <2>1. /\ recorded' = recorded
        /\ \/ tokens' = Burst /\ inflight' \in 0..inflight
           \/ tokens' = tokens /\ inflight' = inflight
    BY <1>2, RestartFrame
  <2>2. Burst \in Nat /\ MaxLag \in Nat
    BY RunTestsAssumption
  <2>. QED  BY <2>1, <2>2 DEF EventType
<1>3. CASE WorldStep
  <2>1. CASE \E n \in Nat \ {0} : Emit(n)
    BY <2>1, EmitFacts
  <2>2. CASE UNCHANGED <<recorded, inflight, tokens>>
    BY <2>2 DEF EventType
  <2>3. CASE /\ inflight > 0 /\ inflight' = inflight - 1
             /\ recorded' = recorded + 1 /\ tokens' = tokens
    BY <2>3, RunTestsAssumption DEF EventType
  <2>. QED  BY <1>3, <2>1, <2>2, <2>3, WorldCases
<1>. QED  BY <1>1, <1>2, <1>3, StepCases, RunnerCases

-----------------------------------------------------------------------------
(***************************************************************************)
(* The types of the world and of the assertions.                           *)
(***************************************************************************)
WorldType ==
    /\ spec \in [Field -> Value] /\ mirror \in [Field -> Value]
    /\ dirty \subseteq DOMAIN Tests /\ reached \subseteq DOMAIN Tests
    /\ movedBy \in [Field -> SUBSET DOMAIN Tests]

LEMMA WorldTypeStep == FlowType /\ WorldType /\ [Next]_vars => WorldType'
<1>. SUFFICES ASSUME FlowType, WorldType, [Next]_vars PROVE WorldType'
  OBVIOUS
<1>0. Absent \in Value /\ Unreadable \in Value /\ Backend \in [Value -> Value]
  BY RunTestsAssumption
<1>1. CASE Read \/ PreReset \/ Reset \/ UNCHANGED vars
  BY <1>1, ReadFrame, RestartFrame, StutterFrame DEF WorldType
<1>2. CASE Patch
  <2>1. /\ i \in DOMAIN Tests /\ test.value \in Value
        /\ \A f \in DOMAIN test.withValues : test.withValues[f] \in Value
    BY <1>2, PatchFrame, TestsFacts DEF FlowType, Body, test
  <2>2. Patched(spec, test) \in [Field -> Value]
    BY <1>0, <2>1 DEF Patched, WorldType
  <2>. QED  BY <1>2, <2>1, <2>2, PatchFrame DEF WorldType
<1>3. CASE WorldStep
  <2>1. CASE Update
    <3>1. PICK drop, lose \in {{}} \cup
             (IF Fault("backend") THEN {{f} : f \in Field} ELSE {}),
             gone \in {Absent, Unreadable} :
             /\ drop \subseteq Patches(dirty) /\ lose \cap Patches(dirty) = {}
             /\ mirror' = [f \in Field |->
                   IF f \in lose THEN gone
                   ELSE IF f \in drop /\ gone = Unreadable THEN gone
                   ELSE IF f \in Patches(dirty) \ drop THEN Backend[spec[f]]
                   ELSE mirror[f]]
             /\ movedBy' = [f \in Field |->
                   IF f \in lose /\ movedBy[f] = {} THEN dirty ELSE movedBy[f]]
      BY <2>1, Zenon DEF Update
    <3>2. mirror' \in [Field -> Value]
      BY <1>0, <3>1 DEF WorldType
    <3>3. movedBy' \in [Field -> SUBSET DOMAIN Tests]
      BY <3>1 DEF WorldType
    <3>4. spec' = spec /\ dirty' = {} /\ reached' = reached \cup dirty
      BY <2>1 DEF Update
    <3>. QED  BY <3>2, <3>3, <3>4 DEF WorldType
  <2>2. CASE UpdateFails \/ NoUpdate \/ EventListed
    BY <2>2 DEF UpdateFails, NoUpdate, EventListed, WorldType
  <2>. QED  BY <1>3, <2>1, <2>2 DEF WorldStep, World
<1>. QED  BY <1>1, <1>2, <1>3, StepCases, RunnerCases

AssertType ==
    /\ snapshot \in [values : [Field -> Value], at : 0..Len(Tests)]
    /\ baselines \in [Field -> Value]
    /\ violations \subseteq [field : AssertUnchanged, after : DOMAIN Tests]
    /\ checked \subseteq [rep : Credited, entry : DOMAIN Tests,
                          at : 0..Len(Tests), cleared : BOOLEAN]
    /\ consumedClear \subseteq Field
    /\ unproven \subseteq Credited

LEMMA ChecksFacts ==
    ASSUME NEW snap, NEW f, NEW j, NEW c \in Checks(snap, f, j)
    PROVE  /\ c.rep \in pendingClear(f) /\ c.rep \in Credited
           /\ c.entry = j /\ c.at = snap.at
           /\ c = [rep |-> c.rep, entry |-> j, at |-> snap.at,
                   cleared |-> clearedValue(snap.values[c.rep])]
BY DEF Checks, pendingClear

LEMMA DriftsFacts ==
    ASSUME NEW snap, NEW j, NEW v \in Drifts(snap, j)
    PROVE  /\ v = [field |-> v.field, after |-> j] /\ v.field \in AssertUnchanged
           /\ v.field \notin violatedFields
BY DEF Drifts

\* The two ends of an iteration, with what they do to the assertions.
LEMMA AccountCases ==
    ASSUME Account
    PROVE  /\ pc = "account" /\ pc' = "loop" /\ i' = i + 1 /\ result' = {}
           /\ results' = Append(results, Stored)
           /\ UNCHANGED <<snapshot, baselines, unproven, resetFailed>>
           /\ \/ /\ "NoOp" \in result
                 /\ UNCHANGED <<attempts, violations, checked, consumedClear>>
              \/ /\ "NoOp" \notin result /\ attempts' = attempts + 1
                 /\ violations' = violations \cup Drifts(snapshot, i)
                 /\ checked' = checked \cup Checks(snapshot, test.field, i)
                 /\ consumedClear' = consumedClear \cup {test.field}
BY DEF Account, Stored, Goto, assertVars

LEMMA AssertTypeStep ==
    FlowType /\ WorldType /\ AssertType /\ [Next]_vars => AssertType'
<1>. SUFFICES ASSUME FlowType, WorldType, AssertType, [Next]_vars PROVE AssertType'
  OBVIOUS
<1>1. CASE Abort \/ CountPreExisting \/ CountPreExistingFails \/ Skip \/ Measure
            \/ NoOp \/ Begin \/ CountBefore \/ Reconciled
            \/ ApplyPatchAndReconcileFails \/ PollField \/ PollFieldFails
            \/ Evidenced \/ NotEvidenced \/ EvidenceUnchecked \/ TakeSnapshotFails
  BY <1>1 DEF Abort, CountPreExisting, CountPreExistingFails, Skip, Measure,
              NoOp, Begin, CountBefore, Reconciled, ApplyPatchAndReconcileFails,
              PollField, PollFieldFails, Evidenced, NotEvidenced, Finish,
              EvidenceUnchecked, EvidenceVerdict, TakeSnapshotFails, assertVars,
              AssertType
<1>2. CASE TakeSnapshot
  <2>1. i \in 0..Len(Tests) /\ mirror \in [Field -> Value]
    BY <1>2 DEF TakeSnapshot, Goto, FlowType, Body, WorldType
  <2>2. snapshot' = [values |-> mirror, at |-> i]
        /\ UNCHANGED <<baselines, violations, checked, consumedClear, unproven>>
    BY <1>2 DEF TakeSnapshot, assertVars
  <2>. QED  BY <2>1, <2>2 DEF AssertType
<1>3. CASE Account
  <2>0. i \in DOMAIN Tests /\ test.field \in Field
    BY <1>3, AccountCases, TestsFacts DEF FlowType, Body, test
  <2>1. Drifts(snapshot, i) \subseteq [field : AssertUnchanged, after : DOMAIN Tests]
    BY <2>0, DriftsFacts
  <2>2. \A c \in Checks(snapshot, test.field, i) :
           c \in [rep : Credited, entry : DOMAIN Tests, at : 0..Len(Tests),
                  cleared : BOOLEAN]
    <3>1. snapshot.at \in 0..Len(Tests)
      BY DEF AssertType
    <3>. TAKE c \in Checks(snapshot, test.field, i)
    <3>3. /\ c = [rep |-> c.rep, entry |-> i, at |-> snapshot.at,
                  cleared |-> clearedValue(snapshot.values[c.rep])]
          /\ c.rep \in Credited
      BY ChecksFacts
    <3>4. \A b \in BOOLEAN, rep \in Credited :
             [rep |-> rep, entry |-> i, at |-> snapshot.at, cleared |-> b]
                \in [rep : Credited, entry : DOMAIN Tests, at : 0..Len(Tests),
                    cleared : BOOLEAN]
      BY <2>0, <3>1, Zenon
    <3>5. clearedValue(snapshot.values[c.rep]) \in BOOLEAN
      BY SMT DEF clearedValue
    <3>. QED  BY <3>3, <3>4, <3>5, Zenon
  <2>. QED  BY <1>3, <2>0, <2>1, <2>2, AccountCases DEF AssertType
<1>4. CASE Return
  <2>1. UNION {pendingClear(f) : f \in Field \ consumedClear} \subseteq Credited
    BY DEF pendingClear
  <2>. QED  BY <1>4, <2>1 DEF Return, AssertType
<1>5. CASE PreReset \/ Reset \/ Patch \/ WorldStep \/ UNCHANGED vars
  BY <1>5, RestartFrame, PatchFrame, WorldFrame DEF AssertType
<1>. QED
  BY <1>1, <1>2, <1>3, <1>4, <1>5, StepCases, RunnerCases DEF Read

LEMMA FlagTypeStep == resetFailed \in BOOLEAN /\ [Next]_vars => resetFailed' \in BOOLEAN
<1>. SUFFICES ASSUME resetFailed \in BOOLEAN, [Next]_vars
              PROVE  resetFailed' \in BOOLEAN
  OBVIOUS
<1>1. CASE Read
  BY <1>1 DEF Read, Abort, CountPreExisting, CountPreExistingFails, Skip, Measure,
              NoOp, Begin, CountBefore, Reconciled, ApplyPatchAndReconcileFails,
              PollField, PollFieldFails, Evidenced, NotEvidenced, Finish,
              EvidenceUnchecked, EvidenceVerdict, TakeSnapshot,
              TakeSnapshotFails, Account, Return, loopVars
<1>2. CASE PreReset \/ Reset
  BY <1>2, RestartFrame
<1>3. CASE Patch \/ WorldStep \/ UNCHANGED vars
  BY <1>3, PatchFrame, WorldFrame
<1>. QED  BY <1>1, <1>2, <1>3, StepCases, RunnerCases

Typed ==
    /\ FlowType /\ ResultType /\ CountType /\ EventType /\ WorldType /\ AssertType
    /\ resetFailed \in BOOLEAN

LEMMA InitFacts ==
    ASSUME Init
    PROVE  /\ pc = "preRun" /\ i = 1 /\ result = {} /\ results = << >>
           /\ attempts = 0 /\ eventBaseline = Unknown /\ current = Unknown
           /\ eventsBefore = Unknown /\ resetFailed = FALSE
           /\ violations = {} /\ checked = {} /\ consumedClear = {}
           /\ unproven = NoTrigger /\ dirty = {} /\ reached = {}
           /\ baselines = mirror /\ snapshot = [values |-> mirror, at |-> 0]
           /\ spec \in [Field -> Value] /\ mirror \in [Field -> Value]
           /\ movedBy = [f \in Field |-> {}]
           /\ recorded \in PreExisting /\ recorded \in Nat /\ inflight = 0
           /\ tokens \in {Burst - recorded, Burst} /\ tokens \in 0..Burst
<1>1. spec \in [Field -> Value]
  BY RunTestsAssumption DEF Init
<1>2. mirror = [f \in Field |-> Backend[spec[f]]]
  BY DEF Init
<1>3. mirror \in [Field -> Value]
  BY <1>1, <1>2, RunTestsAssumption
<1>4. /\ recorded \in PreExisting /\ recorded \in 0..Burst /\ Burst \in Nat
      /\ tokens \in {Burst - recorded, Burst}
  BY RunTestsAssumption DEF Init
<1>5. recorded \in Nat /\ tokens \in 0..Burst
  BY <1>4
<1>. QED  BY <1>1, <1>3, <1>4, <1>5 DEF Init

LEMMA TypedInit == Init => Typed
<1>. SUFFICES ASSUME Init PROVE Typed
  OBVIOUS
<1>0. Len(Tests) \in Nat /\ MaxLag \in Nat
  BY TestsFacts, RunTestsAssumption
<1>1. FlowType
  BY <1>0, InitFacts DEF FlowType, PC, Body
<1>2. ResultType
  <2>1. << >> \in Seq(SUBSET Flag) /\ Len(<< >>) = 0
    OBVIOUS
  <2>. QED  BY <2>1, InitFacts DEF ResultType
<1>3. CountType /\ EventType
  BY <1>0, InitFacts DEF CountType, EventType
<1>4. WorldType
  BY InitFacts DEF WorldType
<1>5. AssertType
  <2>1. NoTrigger \subseteq Credited
    BY DEF NoTrigger
  <2>. QED  BY <1>0, <2>1, InitFacts DEF AssertType
<1>. QED  BY <1>1, <1>2, <1>3, <1>4, <1>5, InitFacts DEF Typed

LEMMA TypedStep == Typed /\ [Next]_vars => Typed'
BY FlowTypeStep, ResultTypeStep, CountTypeStep, EventTypeStep, WorldTypeStep,
   AssertTypeStep, FlagTypeStep DEF Typed

LEMMA TypedAlways == Spec => []Typed
BY TypedInit, TypedStep, PTL DEF Spec

LEMMA TypeOKParts == Typed => TypeOK
<1>. SUFFICES ASSUME Typed PROVE TypeOK
  OBVIOUS
<1>1. attempts \in 0..Len(Tests)
  BY TestsFacts DEF Typed, CountType, FlowType
<1>2. /\ {eventBaseline, current, eventsBefore} \subseteq Nat \cup {Unknown}
      /\ recorded \in Nat /\ inflight \in 0..MaxLag /\ tokens \in 0..Burst
  BY DEF Typed, CountType, EventType
<1>3. /\ pc \in PC /\ i \in 1..(Len(Tests) + 1) /\ result \subseteq Flag
      /\ results \in Seq(SUBSET Flag) /\ Len(results) = i - 1
  BY DEF Typed, FlowType, ResultType
<1>4. /\ {spec, mirror} \subseteq [Field -> Value]
      /\ {dirty, reached} \subseteq SUBSET DOMAIN Tests
      /\ movedBy \in [Field -> SUBSET DOMAIN Tests]
  BY DEF Typed, WorldType
<1>5. resetFailed \in BOOLEAN
  BY DEF Typed
<1>. QED
  BY <1>1, <1>2, <1>3, <1>4, <1>5 DEF TypeOK, Typed, AssertType

\* Every variable keeps the shape the code gives it, whatever the manifest, the
\* provider and the faults: in particular the attempts since the last restart
\* never exceed the entries, and every drift, credit and result is attributed to
\* an entry the manifest has.
THEOREM TypeOKAlways == Spec => []TypeOK
BY TypedAlways, TypeOKParts, PTL

-----------------------------------------------------------------------------
(***************************************************************************)
(* The finished results.                                                   *)
(***************************************************************************)
LEMMA OnlyTwoStore ==
    ASSUME [Next]_vars, ~Skip, ~Account
    PROVE  results' = results /\ i' = i
<1>1. CASE Read
  BY <1>1 DEF Read, Abort, CountPreExisting, CountPreExistingFails, Measure,
              NoOp, Begin, CountBefore, Reconciled, ApplyPatchAndReconcileFails,
              PollField, PollFieldFails, Evidenced, NotEvidenced, Finish,
              EvidenceUnchecked, EvidenceVerdict, TakeSnapshot,
              TakeSnapshotFails, Return
<1>2. CASE PreReset \/ Reset \/ Patch \/ WorldStep \/ UNCHANGED vars
  BY <1>2, RestartFrame, PatchFrame, WorldFrame
<1>. QED  BY <1>1, <1>2, StepCases, RunnerCases

LEMMA ResultsCases ==
    ASSUME Typed, [Next]_vars
    PROVE  /\ i \in Nat \ {0} /\ DOMAIN results = 1..(i - 1)
           /\ DOMAIN results' = 1..(i' - 1)
           /\ \A j \in DOMAIN results : results'[j] = results[j]
           /\ \/ i' = i /\ results' = results /\ ~Skip /\ ~Account
              \/ i' = i + 1 /\ results'[i] = {"Skipped"} /\ Skip
              \/ i' = i + 1 /\ results'[i] = Stored /\ Account
<1>1. /\ i \in Nat \ {0} /\ results \in Seq(SUBSET Flag) /\ Len(results) = i - 1
      /\ Stored \in SUBSET Flag
  BY TestsFacts, StoredFacts DEF Typed, FlowType, ResultType
<1>2. DOMAIN results = 1..(i - 1)
  BY <1>1, LenProperties
<1>3. CASE Skip
  <2>1. i' = i + 1 /\ results' = Append(results, {"Skipped"})
    BY <1>3 DEF Skip
  <2>2. {"Skipped"} \in SUBSET Flag
    BY DEF Flag
  <2>. HIDE DEF Skip
  <2>. QED  BY <1>1, <1>2, <1>3, <2>1, <2>2, AppendFacts
<1>4. CASE Account
  <2>1. i' = i + 1 /\ results' = Append(results, Stored)
    BY <1>4, AccountCases
  <2>. QED  BY <1>1, <1>2, <1>4, <2>1, AppendFacts
<1>5. CASE ~Skip /\ ~Account
  BY <1>1, <1>2, <1>5, OnlyTwoStore
<1>. QED  BY <1>3, <1>4, <1>5

-----------------------------------------------------------------------------
(***************************************************************************)
(* The clear credits.  A representative's check is keyed by the field of   *)
(* its first lender; consumedClear says which fields had their turn.       *)
(***************************************************************************)
LEMMA LendersFacts ==
    ASSUME NEW rep, Lenders(rep) # {}
    PROVE  /\ Min(Lenders(rep)) \in Lenders(rep)
           /\ Min(Lenders(rep)) \in DOMAIN Tests
           /\ triggerFieldFor(rep) \in Field
<1>1. Lenders(rep) \subseteq DOMAIN Tests
  BY DEF Lenders
<1>2. DOMAIN Tests \subseteq Nat
  BY TestsFacts
<1>3. Min(Lenders(rep)) \in Lenders(rep)
  BY <1>1, <1>2, MinOfNonEmpty
<1>. QED  BY <1>1, <1>3, TestsFacts DEF triggerFieldFor

LEMMA ChecksCover ==
    ASSUME NEW snap, NEW f, NEW j, NEW rep \in pendingClear(f),
           snap.values[rep] # Unreadable
    PROVE  \E c \in Checks(snap, f, j) : c.rep = rep /\ c.entry = j /\ c.at = snap.at
<1>. DEFINE c == [rep |-> rep, entry |-> j, at |-> snap.at,
                  cleared |-> clearedValue(snap.values[rep])]
<1>1. c \in Checks(snap, f, j)
  BY Zenon DEF Checks
<1>2. c.rep = rep /\ c.entry = j /\ c.at = snap.at
  OBVIOUS
<1>. QED  BY <1>1, <1>2, Zenon

IsChecked(rep) == \E c \in checked : c.rep = rep
HadItsTurn(rep) == \E f \in consumedClear : rep \in pendingClear(f)
Forgotten == UNION {pendingClear(f) : f \in Field \ consumedClear}

\* What is checked, what is unproven and what was lost to an error, along the run.
Credits ==
    /\ pc # "done" => unproven = NoTrigger
    /\ pc = "done" => unproven = NoTrigger \cup Forgotten
    /\ \A rep \in Credited :
          /\ IsChecked(rep) => HadItsTurn(rep)
          /\ HadItsTurn(rep) => IsChecked(rep) \/ TriggerFailed(rep)

LEMMA OnlyAccountChecks ==
    ASSUME [Next]_vars, ~Account
    PROVE  checked' = checked /\ consumedClear' = consumedClear
<1>1. CASE Read
  BY <1>1 DEF Read, Abort, CountPreExisting, CountPreExistingFails, Skip, Measure,
              NoOp, Begin, CountBefore, Reconciled, ApplyPatchAndReconcileFails,
              PollField, PollFieldFails, Evidenced, NotEvidenced, Finish,
              EvidenceUnchecked, EvidenceVerdict, TakeSnapshot,
              TakeSnapshotFails, Return, assertVars
<1>2. CASE PreReset \/ Reset \/ Patch \/ WorldStep \/ UNCHANGED vars
  BY <1>2, RestartFrame, PatchFrame, WorldFrame
<1>. QED  BY <1>1, <1>2, StepCases, RunnerCases

LEMMA OnlyReturnEnds ==
    ASSUME [Next]_vars, ~Return
    PROVE  unproven' = unproven /\ (pc' = "done" <=> pc = "done")
<1>1. CASE Read
  BY <1>1 DEF Read, Abort, CountPreExisting, CountPreExistingFails, Skip, Measure,
              NoOp, Begin, CountBefore, Reconciled, ApplyPatchAndReconcileFails,
              PollField, PollFieldFails, Evidenced, NotEvidenced, Finish, Goto,
              EvidenceUnchecked, EvidenceVerdict, TakeSnapshot,
              TakeSnapshotFails, Account, assertVars
<1>2. CASE PreReset \/ Reset
  BY <1>2, RestartFrame DEF PreReset, Reset, Goto
<1>3. CASE Patch \/ WorldStep \/ UNCHANGED vars
  BY <1>3, PatchFrame, WorldFrame
<1>. QED  BY <1>1, <1>2, <1>3, StepCases, RunnerCases

LEMMA TriggerFailedStays ==
    ASSUME Typed, [Next]_vars, NEW rep, TriggerFailed(rep)
    PROVE  TriggerFailed(rep)'
<1>1. PICK j \in DOMAIN results : /\ Tests[j].field = triggerFieldFor(rep)
                                  /\ "Error" \in results[j] /\ "NoOp" \notin results[j]
  BY DEF TriggerFailed
<1>2. j \in DOMAIN results' /\ results'[j] = results[j]
  BY ResultsCases
<1>. QED  BY <1>1, <1>2 DEF TriggerFailed, triggerFieldFor, Lenders

\* What the end of an entry does to a credit of the entry's field.
LEMMA AccountSettles ==
    ASSUME Typed, Account, [Next]_vars, "NoOp" \notin result,
           NEW rep \in pendingClear(test.field)
    PROVE  IsChecked(rep)' \/ TriggerFailed(rep)'
<1>1. /\ checked' = checked \cup Checks(snapshot, test.field, i)
      /\ i \in DOMAIN results' /\ results'[i] = Stored
  BY AccountCases, ResultsCases
<1>2. CASE snapshot.values[rep] = Unreadable
  <2>1. ReadFails(snapshot, test.field)
    BY <1>2 DEF ReadFails
  <2>2. "Error" \in Stored /\ "NoOp" \notin Stored
    BY <2>1, StoredFacts DEF Typed
  <2>3. Tests[i].field = triggerFieldFor(rep)
    BY DEF pendingClear, test
  <2>. QED  BY <1>1, <2>2, <2>3 DEF TriggerFailed, triggerFieldFor, Lenders
<1>3. CASE snapshot.values[rep] # Unreadable
  <2>1. \E c \in Checks(snapshot, test.field, i) : c.rep = rep
    BY <1>3, ChecksCover
  <2>. QED  BY <1>1, <2>1 DEF IsChecked
<1>. QED  BY <1>2, <1>3

LEMMA CreditsStep == Typed /\ Credits /\ [Next]_vars => Credits'
<1>. SUFFICES ASSUME Typed, Credits, [Next]_vars PROVE Credits'
  OBVIOUS
<1>1. CASE Account
  <2>1. pc = "account" /\ pc' = "loop" /\ unproven' = unproven
    BY <1>1, AccountCases
  <2>2. CASE checked' = checked /\ consumedClear' = consumedClear
    <3>1. ASSUME NEW rep \in Credited
          PROVE  /\ IsChecked(rep)' => HadItsTurn(rep)'
                 /\ HadItsTurn(rep)' => IsChecked(rep)' \/ TriggerFailed(rep)'
      BY <2>2, TriggerFailedStays DEF Credits, IsChecked, HadItsTurn
    <3>. QED  BY <2>1, <3>1 DEF Credits
  <2>3. CASE /\ "NoOp" \notin result
             /\ checked' = checked \cup Checks(snapshot, test.field, i)
             /\ consumedClear' = consumedClear \cup {test.field}
    <3>1. ASSUME NEW rep \in Credited, IsChecked(rep)' PROVE HadItsTurn(rep)'
      BY <2>3, <3>1, ChecksFacts DEF Credits, IsChecked, HadItsTurn
    <3>2. ASSUME NEW rep \in Credited, HadItsTurn(rep)'
          PROVE  IsChecked(rep)' \/ TriggerFailed(rep)'
      <4>1. CASE HadItsTurn(rep)
        BY <2>3, <3>2, <4>1, TriggerFailedStays DEF Credits, IsChecked
      <4>2. CASE rep \in pendingClear(test.field)
        BY <1>1, <2>3, <4>2, AccountSettles
      <4>. QED  BY <2>3, <3>2, <4>1, <4>2 DEF HadItsTurn
    <3>. QED  BY <2>1, <3>1, <3>2 DEF Credits
  <2>. QED  BY <1>1, <2>2, <2>3, AccountCases
<1>2. CASE ~Account
  <2>1. checked' = checked /\ consumedClear' = consumedClear
    BY <1>2, OnlyAccountChecks
  <2>2. ASSUME NEW rep \in Credited
        PROVE  /\ IsChecked(rep)' => HadItsTurn(rep)'
               /\ HadItsTurn(rep)' => IsChecked(rep)' \/ TriggerFailed(rep)'
    BY <2>1, TriggerFailedStays DEF Credits, IsChecked, HadItsTurn
  <2>3. CASE Return
    <3>1. pc = "loop" /\ pc' = "done" /\ unproven' = unproven \cup Forgotten
      BY <2>3 DEF Return, Goto, Forgotten
    <3>. QED  BY <2>1, <2>2, <3>1 DEF Credits, Forgotten
  <2>4. CASE ~Return
    <3>1. unproven' = unproven /\ (pc' = "done" <=> pc = "done")
      BY <2>4, OnlyReturnEnds
    <3>. QED  BY <2>1, <2>2, <3>1 DEF Credits, Forgotten
  <2>. QED  BY <2>3, <2>4
<1>. QED  BY <1>1, <1>2

LEMMA CreditsAlways == Spec => []Credits
<1>1. Init => Credits
  BY InitFacts DEF Credits, IsChecked, HadItsTurn
<1>2. Typed /\ Credits /\ [Next]_vars => Credits'
  BY CreditsStep
<1>. QED  BY <1>1, <1>2, TypedAlways, PTL DEF Spec

LEMMA CreditsSplit ==
    ASSUME Credits, pc = "done", NEW rep \in Credited
    PROVE  rep \in unproven <=> ~HadItsTurn(rep)
<1>1. unproven = NoTrigger \cup Forgotten
  BY DEF Credits
<1>2. CASE Lenders(rep) = {}
  <2>1. rep \in NoTrigger /\ \A f : rep \notin pendingClear(f)
    BY <1>2 DEF NoTrigger, pendingClear
  <2>. QED  BY <1>1, <2>1 DEF HadItsTurn
<1>3. CASE Lenders(rep) # {}
  <2>1. /\ triggerFieldFor(rep) \in Field /\ rep \notin NoTrigger
        /\ \A f : rep \in pendingClear(f) <=> f = triggerFieldFor(rep)
    BY <1>3, LendersFacts DEF NoTrigger, pendingClear
  <2>2. CASE triggerFieldFor(rep) \in consumedClear
    <3>1. HadItsTurn(rep) /\ rep \notin Forgotten
      BY <2>1, <2>2 DEF HadItsTurn, Forgotten
    <3>. QED  BY <1>1, <2>1, <3>1
  <2>3. CASE triggerFieldFor(rep) \notin consumedClear
    <3>1. ~HadItsTurn(rep) /\ rep \in Forgotten
      BY <2>1, <2>3 DEF HadItsTurn, Forgotten
    <3>. QED  BY <1>1, <2>1, <3>1
  <2>. QED  BY <2>2, <2>3
<1>. QED  BY <1>2, <1>3

LEMMA CreditsSettle == Credits => CreditAccounting
<1>. SUFFICES ASSUME Credits, pc = "done", NEW rep \in Credited
              PROVE  IF rep \in unproven THEN ~IsChecked(rep)
                     ELSE IsChecked(rep) \/ TriggerFailed(rep)
  BY DEF CreditAccounting, IsChecked
<1>1. rep \in unproven <=> ~HadItsTurn(rep)
  BY CreditsSplit
<1>. QED  BY <1>1 DEF Credits

\* When RunTests returns, a credit it reports as unproven was never judged, and
\* every other credit was judged on a snapshot, or an entry of its trigger field
\* carries an error, so that the run cannot look clean: whatever the manifest
\* (several lenders, none, the same field in several entries), whichever entries
\* were skipped or no-ops, whatever could not be read, and whatever else failed.
THEOREM CreditAccountingAlways == Spec => []CreditAccounting
BY CreditsAlways, CreditsSettle, PTL

-----------------------------------------------------------------------------
(***************************************************************************)
(* A clean run and the credits: the first lender patches, so the parser    *)
(* does not let it be skipped; it is clean, so its snapshot is its own and *)
(* every credit pending under its field was readable and judged on it.     *)
(***************************************************************************)
Judged ==
    /\ pc = "account" /\ "NoOp" \notin result
       => snapshot.at = i \/ "Error" \in result
    /\ \A j \in DOMAIN results : "Skipped" \in results[j] => Tests[j].skip
    /\ \A j \in DOMAIN results :
          {"Skipped", "NoOp", "Error"} \cap results[j] = {}
          => \A rep \in pendingClear(Tests[j].field) :
                \E c \in checked : c.rep = rep /\ c.entry = j /\ c.at = j
    /\ pc = "done" => i = Len(Tests) + 1

LEMMA OwnSnapshotStep == Judged /\ [Next]_vars =>
    (pc = "account" /\ "NoOp" \notin result => snapshot.at = i \/ "Error" \in result)'
<1>. SUFFICES ASSUME Judged, [Next]_vars, pc' = "account", "NoOp" \notin result'
              PROVE  snapshot'.at = i' \/ "Error" \in result'
  OBVIOUS
<1>1. CASE Abort \/ CountPreExisting \/ CountPreExistingFails \/ Skip \/ Measure
           \/ Begin \/ CountBefore \/ Reconciled \/ PollField \/ PollFieldFails
           \/ Evidenced \/ NotEvidenced \/ EvidenceUnchecked \/ Return
           \/ PreReset \/ Reset \/ Patch \/ Account
  BY <1>1, AccountCases DEF Abort, CountPreExisting, CountPreExistingFails, Skip,
              Measure, Begin, CountBefore, Reconciled, PollField,
              PollFieldFails, Evidenced, NotEvidenced, EvidenceUnchecked,
              EvidenceVerdict, Return, PreReset, Reset, Patch, Goto
<1>2. CASE NoOp \/ ApplyPatchAndReconcileFails \/ TakeSnapshotFails
  BY <1>2 DEF NoOp, ApplyPatchAndReconcileFails, TakeSnapshotFails, Finish
<1>3. CASE TakeSnapshot
  BY <1>3 DEF TakeSnapshot
<1>4. CASE WorldStep \/ UNCHANGED vars
  BY <1>4, WorldFrame DEF Judged
<1>. QED  BY <1>1, <1>2, <1>3, <1>4, StepCases DEF Runner

LEMMA JudgedStep == Typed /\ Judged /\ [Next]_vars => Judged'
<1>. SUFFICES ASSUME Typed, Judged, [Next]_vars PROVE Judged'
  OBVIOUS
<1>. DEFINE Settled(j) ==
        {"Skipped", "NoOp", "Error"} \cap results[j] = {}
        => \A rep \in pendingClear(Tests[j].field) :
              \E c \in checked : c.rep = rep /\ c.entry = j /\ c.at = j
<1>0. /\ i \in Nat \ {0} /\ DOMAIN results = 1..(i - 1)
      /\ DOMAIN results' = 1..(i' - 1)
      /\ \A j \in DOMAIN results : results'[j] = results[j]
  BY ResultsCases
<1>1. checked \subseteq checked'
  BY OnlyAccountChecks, AccountCases
<1>2. ASSUME NEW j \in DOMAIN results
      PROVE  /\ "Skipped" \in results'[j] => Tests[j].skip
             /\ Settled(j)'
  <2>1. results'[j] = results[j] /\ Settled(j)
    BY <1>0 DEF Judged
  <2>. QED  BY <1>1, <2>1 DEF Judged, pendingClear, Lenders, triggerFieldFor
<1>3. ASSUME Skip, NEW j, j = i, results'[j] = {"Skipped"}
      PROVE  ("Skipped" \in results'[j] => Tests[j].skip) /\ Settled(j)'
  <2>1. Tests[j].skip /\ {"Skipped", "NoOp", "Error"} \cap results'[j] # {}
    BY <1>3 DEF Skip, test
  <2>. QED  BY <2>1
<1>4. ASSUME Account, NEW j, j = i, results'[j] = Stored
      PROVE  ("Skipped" \in results'[j] => Tests[j].skip) /\ Settled(j)'
  <2>1. /\ "Skipped" \notin Stored /\ result \subseteq Stored
        /\ "NoOp" \notin result /\ ReadFails(snapshot, test.field) => "Error" \in Stored
    BY StoredFacts DEF Typed
  <2>2. ASSUME "NoOp" \notin Stored, "Error" \notin Stored,
               NEW rep \in pendingClear(test.field)
        PROVE  \E c \in checked' : c.rep = rep /\ c.entry = j /\ c.at = j
    <3>1. "NoOp" \notin result /\ "Error" \notin result
      BY <2>1, <2>2
    <3>2. snapshot.at = i
      BY <1>4, <3>1, AccountCases DEF Judged
    <3>3. snapshot.values[rep] # Unreadable
      BY <2>1, <2>2, <3>1 DEF ReadFails
    <3>4. \E c \in Checks(snapshot, test.field, i) :
             c.rep = rep /\ c.entry = i /\ c.at = snapshot.at
      BY <3>3, ChecksCover
    <3>5. Checks(snapshot, test.field, i) \subseteq checked'
      BY <1>4, <3>1, AccountCases
    <3>. QED  BY <1>4, <3>2, <3>4, <3>5
  <2>3. pendingClear(Tests[j].field)' = pendingClear(test.field)
    BY <1>4 DEF test, pendingClear, Lenders, triggerFieldFor
  <2>4. "Skipped" \notin results'[j]
    BY <1>4, <2>1
  <2>. QED  BY <1>4, <2>2, <2>3, <2>4
<1>5. \A j \in DOMAIN results' :
         ("Skipped" \in results'[j] => Tests[j].skip) /\ Settled(j)'
  <2>1. CASE i' = i
    <3>1. DOMAIN results' = DOMAIN results
      BY <1>0, <2>1
    <3>. QED  BY <1>2, <3>1
  <2>2. CASE i' = i + 1
    <3>1. \A j \in DOMAIN results' : j \in DOMAIN results \/ j = i
      BY <1>0, <2>2
    <3>2. ASSUME NEW j, j = i
          PROVE  ("Skipped" \in results'[j] => Tests[j].skip) /\ Settled(j)'
      <4>1. \/ Skip /\ results'[i] = {"Skipped"}
            \/ Account /\ results'[i] = Stored
        BY <1>0, <2>2, ResultsCases
      <4>. QED  BY <1>3, <1>4, <3>2, <4>1
    <3>. QED  BY <1>2, <3>1, <3>2
  <2>. QED  BY <2>1, <2>2, ResultsCases
<1>6. pc' = "done" => i' = Len(Tests) + 1
  <2>1. CASE Return
    <3>1. i' = i /\ i > Len(Tests)
      BY <2>1 DEF Return
    <3>2. i \in 1..(Len(Tests) + 1) /\ Len(Tests) \in Nat
      BY TestsFacts DEF Typed, FlowType
    <3>. QED  BY <3>1, <3>2
  <2>2. CASE ~Return
    <3>1. pc' = "done" => pc = "done"
      BY <2>2, OnlyReturnEnds
    <3>2. pc = "done" => ~Skip /\ ~Account
      BY DEF Skip, Account, Goto
    <3>. QED  BY <3>1, <3>2, OnlyTwoStore DEF Judged
  <2>. QED  BY <2>1, <2>2
<1>. QED
  BY <1>5, <1>6, OwnSnapshotStep DEF Judged

LEMMA CleanProves ==
    ASSUME Typed, Credits, Judged
    PROVE  CleanRunProvesCredits
<1>. SUFFICES ASSUME Clean, NEW rep \in Credited
              PROVE  \E c \in checked : /\ c.rep = rep /\ c.cleared
                                        /\ c.entry \in Lenders(rep)
                                        /\ c.at = c.entry
  BY DEF CleanRunProvesCredits
<1>. DEFINE j == Min(Lenders(rep))
<1>1. Lenders(rep) # {}
  BY DEF Clean, Credits, NoTrigger
<1>2. /\ j \in Lenders(rep) /\ j \in DOMAIN Tests
      /\ rep \in pendingClear(Tests[j].field)
  BY <1>1, LendersFacts DEF pendingClear, triggerFieldFor
<1>3. ~Tests[j].skip
  <2>1. Tests[j].skip => Tests[j].clear = {} /\ DOMAIN Tests[j].withValues = {}
    BY <1>2, RunTestsAssumption
  <2>2. rep \in Empties(Tests[j]) \cup Tombstones(Tests[j])
    BY <1>2 DEF Lenders
  <2>. QED  BY <2>1, <2>2 DEF Empties, Tombstones
<1>4. j \in DOMAIN results
  <2>1. i = Len(Tests) + 1 /\ DOMAIN results = 1..(i - 1)
    BY LenProperties, TestsFacts DEF Clean, Judged, Typed, ResultType
  <2>. QED  BY <1>2, <2>1, TestsFacts
<1>5. {"Skipped", "NoOp", "Error"} \cap results[j] = {}
  BY <1>3, <1>4 DEF Judged, Clean, Good
<1>6. PICK c \in checked : c.rep = rep /\ c.entry = j /\ c.at = j
  BY <1>2, <1>4, <1>5 DEF Judged
<1>7. c.cleared
  BY DEF Clean
<1>. QED  BY <1>2, <1>6, <1>7

\* For every manifest, the documented one with several entries for one field
\* included: a run with a clean verdict has checked every credited representative
\* after an entry whose own patch claims it, on the snapshot read after that very
\* patch, and found it cleared.  A snapshot left over from an earlier entry, which
\* the loop does check after an early return, never proves a credit, and neither
\* does the check after another entry of the same field.
THEOREM CleanRunProvesCreditsAlways == Spec => []CleanRunProvesCredits
<1>1. Init => Judged
  BY InitFacts DEF Judged
<1>2. Typed /\ Judged /\ [Next]_vars => Judged'
  BY JudgedStep
<1>3. Typed /\ Credits /\ Judged => CleanRunProvesCredits
  BY CleanProves
<1>. QED  BY <1>1, <1>2, <1>3, TypedAlways, CreditsAlways, PTL DEF Spec

-----------------------------------------------------------------------------
(***************************************************************************)
(* What spoils a verdict stays: a reported drift, a failed result, an      *)
(* error in the result that is being built.                                *)
(***************************************************************************)
Failed(j) == "Error" \in results[j] /\ "Skipped" \notin results[j]

Failing == pc \in {"evidence", "snapshot", "account"} /\ "Error" \in result

Spoiled == violations # {} \/ (\E j \in DOMAIN results : Failed(j)) \/ Failing

LEMMA SpoiledIsNotClean == Spoiled => ~Clean
BY DEF Spoiled, Failed, Failing, Clean, Good

\* The outcome of each step of an iteration in which an error has shown.
LEMMA FailingStays ==
    ASSUME Failing, [Next]_vars, ~Account
    PROVE  Failing'
<1>1. CASE Abort \/ CountPreExisting \/ CountPreExistingFails \/ PreReset \/ Return
           \/ Skip \/ Measure \/ Reset \/ NoOp \/ Begin \/ CountBefore \/ Patch
           \/ Reconciled \/ ApplyPatchAndReconcileFails \/ PollField
           \/ PollFieldFails
  BY <1>1 DEF Abort, CountPreExisting, CountPreExistingFails, PreReset, Return,
              Skip, Measure, Reset, NoOp, Begin, CountBefore, Patch, Reconciled,
              ApplyPatchAndReconcileFails, PollField, PollFieldFails, Goto, Failing
<1>2. CASE Evidenced \/ NotEvidenced \/ EvidenceUnchecked
  BY <1>2 DEF Evidenced, NotEvidenced, EvidenceUnchecked, EvidenceVerdict, Goto,
              Failing
<1>3. CASE TakeSnapshot \/ TakeSnapshotFails
  BY <1>3 DEF TakeSnapshot, TakeSnapshotFails, Finish, Goto, Failing
<1>4. CASE WorldStep \/ UNCHANGED vars
  BY <1>4, WorldFrame DEF Failing
<1>. QED  BY <1>1, <1>2, <1>3, <1>4, StepCases DEF Runner

LEMMA DriftsStay ==
    ASSUME [Next]_vars
    PROVE  violations \subseteq violations' /\ baselines' = baselines
<1>1. CASE Abort \/ CountPreExisting \/ CountPreExistingFails \/ Skip \/ Measure
           \/ NoOp \/ Begin \/ CountBefore \/ Reconciled
           \/ ApplyPatchAndReconcileFails \/ PollField \/ PollFieldFails
           \/ Evidenced \/ NotEvidenced \/ EvidenceUnchecked \/ TakeSnapshot
           \/ TakeSnapshotFails \/ Return
  BY <1>1 DEF Abort, CountPreExisting, CountPreExistingFails, Skip, Measure,
              NoOp, Begin, CountBefore, Reconciled, ApplyPatchAndReconcileFails,
              PollField, PollFieldFails, Evidenced, NotEvidenced, Finish,
              EvidenceUnchecked, EvidenceVerdict, TakeSnapshot,
              TakeSnapshotFails, Return, assertVars
<1>2. CASE Account
  BY <1>2, AccountCases
<1>3. CASE PreReset \/ Reset \/ Patch \/ WorldStep \/ UNCHANGED vars
  BY <1>3, RestartFrame, PatchFrame, WorldFrame
<1>. QED  BY <1>1, <1>2, <1>3, StepCases DEF Runner

LEMMA SpoiledStays ==
    ASSUME Typed, Spoiled, [Next]_vars
    PROVE  Spoiled'
<1>1. CASE violations # {}
  BY <1>1, DriftsStay DEF Spoiled
<1>2. CASE \E j \in DOMAIN results : Failed(j)
  <2>1. PICK j \in DOMAIN results : Failed(j)
    BY <1>2
  <2>2. j \in DOMAIN results' /\ results'[j] = results[j]
    BY ResultsCases
  <2>. QED  BY <2>1, <2>2 DEF Failed, Spoiled
<1>3. CASE Failing /\ ~Account
  BY <1>3, FailingStays DEF Spoiled
<1>4. CASE Failing /\ Account
  <2>1. i \in DOMAIN results' /\ results'[i] = Stored
    BY <1>4, ResultsCases, AccountCases
  <2>2. "Error" \in Stored /\ "Skipped" \notin Stored
    BY <1>4, StoredFacts DEF Failing, Typed
  <2>. QED  BY <2>1, <2>2 DEF Failed, Spoiled
<1>. QED  BY <1>1, <1>2, <1>3, <1>4 DEF Spoiled

-----------------------------------------------------------------------------
(***************************************************************************)
(* Drifts.  A field that an Update() has lost is missing from the mirror   *)
(* until this entry's snapshot, and then from the snapshot, unless the     *)
(* verdict is spoiled anyway; an entry that is left dirty spoils it.       *)
(***************************************************************************)
Unseen(f) ==
    \/ /\ pc \in {"wait", "poll", "evidence", "snapshot"}
       /\ Gone(mirror[f]) /\ dirty = {}
    \/ pc = "account" /\ Gone(snapshot.values[f]) /\ "NoOp" \notin result

Watched ==
    /\ pc \notin {"preRun", "aborted"}
       => \A f \in AssertUnchanged : ~Gone(baselines[f])
    /\ pc \in {"evidence", "snapshot"} => "NoOp" \notin result
    /\ dirty # {} => Spoiled \/ pc = "wait"
    /\ \A f \in AssertUnchanged : movedBy[f] # {} => Spoiled \/ Unseen(f)

LEMMA UpdateFacts ==
    ASSUME Update, NEW f \in Field
    PROVE  /\ dirty # {} /\ dirty' = {}
           /\ \/ movedBy'[f] = movedBy[f]
              \/ movedBy[f] = {} /\ Gone(mirror'[f])
<1>1. PICK drop, lose \in {{}} \cup
           (IF Fault("backend") THEN {{g} : g \in Field} ELSE {}),
           gone \in {Absent, Unreadable} :
         /\ drop \subseteq Patches(dirty) /\ lose \cap Patches(dirty) = {}
         /\ mirror' = [g \in Field |->
               IF g \in lose THEN gone
               ELSE IF g \in drop /\ gone = Unreadable THEN gone
               ELSE IF g \in Patches(dirty) \ drop THEN Backend[spec[g]]
               ELSE mirror[g]]
         /\ movedBy' = [g \in Field |->
               IF g \in lose /\ movedBy[g] = {} THEN dirty ELSE movedBy[g]]
  BY Zenon DEF Update
<1>2. \/ movedBy'[f] = movedBy[f]
      \/ movedBy[f] = {} /\ Gone(mirror'[f])
  BY <1>1 DEF Gone
<1>. QED  BY <1>2 DEF Update

LEMMA WatchedStep == Typed /\ Watched /\ [Next]_vars => Watched'
<1>. SUFFICES ASSUME Typed, Watched, [Next]_vars PROVE Watched'
  OBVIOUS
<1>0. AssertUnchanged \subseteq Field
  BY RunTestsAssumption
<1>1. pc' \notin {"preRun", "aborted"}
      => \A f \in AssertUnchanged : ~Gone(baselines'[f])
  <2>1. CASE pc' \in {"preRun", "aborted"} \/ pc \notin {"preRun", "aborted"}
    BY <2>1, DriftsStay DEF Watched
  <2>2. CASE Abort
    BY <2>2 DEF Abort, Goto
  <2>3. CASE CountPreExisting \/ CountPreExistingFails
    <3>1. \A f \in AssertUnchanged : ~Gone(baselines[f])
      BY <2>3 DEF CountPreExisting, CountPreExistingFails
    <3>. QED  BY <3>1, DriftsStay
  <2>4. CASE WorldStep \/ UNCHANGED vars
    BY <2>4, WorldFrame DEF Watched
  <2>5. CASE /\ pc \in {"preRun", "aborted"} /\ Runner
             /\ ~(Abort \/ CountPreExisting \/ CountPreExistingFails)
    BY <2>5 DEF Runner, PreReset, Return, Skip, Measure, Reset, NoOp, Begin,
                CountBefore, Patch, Reconciled, ApplyPatchAndReconcileFails,
                PollField, PollFieldFails, Evidenced, NotEvidenced,
                EvidenceUnchecked, EvidenceVerdict, TakeSnapshot,
                TakeSnapshotFails, Account, Goto
  <2>. QED  BY <2>1, <2>2, <2>3, <2>4, <2>5, StepCases
<1>2. pc' \in {"evidence", "snapshot"} => "NoOp" \notin result'
  <2>1. CASE Abort \/ CountPreExisting \/ CountPreExistingFails \/ PreReset
             \/ Return \/ Skip \/ Measure \/ Reset \/ NoOp \/ Begin \/ CountBefore
             \/ Patch \/ Reconciled \/ ApplyPatchAndReconcileFails \/ TakeSnapshot
             \/ TakeSnapshotFails \/ Account
    BY <2>1 DEF Abort, CountPreExisting, CountPreExistingFails, PreReset, Return,
                Skip, Measure, Reset, NoOp, Begin, CountBefore, Patch, Reconciled,
                ApplyPatchAndReconcileFails, TakeSnapshot, TakeSnapshotFails,
                Finish, Account, Goto
  <2>2. CASE PollField \/ PollFieldFails \/ Evidenced \/ NotEvidenced
             \/ EvidenceUnchecked
    BY <2>2 DEF PollField, PollFieldFails, Evidenced, NotEvidenced,
                EvidenceUnchecked, EvidenceVerdict, Goto, Watched
  <2>3. CASE WorldStep \/ UNCHANGED vars
    BY <2>3, WorldFrame DEF Watched
  <2>. QED  BY <2>1, <2>2, <2>3, StepCases DEF Runner
<1>3. dirty' # {} => Spoiled' \/ pc' = "wait"
  <2>1. CASE Patch
    BY <2>1, PatchFrame
  <2>2. CASE WorldStep \/ UNCHANGED vars
    <3>1. dirty' \subseteq dirty /\ pc' = pc
      BY <2>2, WorldCases, WorldFrame, StutterFrame
    <3>. QED  BY <3>1, SpoiledStays DEF Watched
  <2>3. CASE Reconciled
    BY <2>3, ReadFrame DEF Reconciled, Read
  <2>4. CASE ApplyPatchAndReconcileFails
    BY <2>4 DEF ApplyPatchAndReconcileFails, Finish, Spoiled, Failing
  <2>5. CASE Runner /\ pc # "wait" /\ ~Patch
    BY <2>5, SpoiledStays, RunnerCases, ReadFrame, RestartFrame DEF Watched
  <2>6. CASE Runner /\ pc = "wait" /\ ~Reconciled /\ ~ApplyPatchAndReconcileFails
    BY <2>6 DEF Runner, Abort, CountPreExisting, CountPreExistingFails, PreReset,
                Return, Skip, Measure, Reset, NoOp, Begin, CountBefore, Patch,
                PollField, PollFieldFails, Evidenced, NotEvidenced,
                EvidenceUnchecked, EvidenceVerdict, TakeSnapshot,
                TakeSnapshotFails, Account, Goto
  <2>. QED  BY <2>1, <2>2, <2>3, <2>4, <2>5, <2>6, StepCases
<1>4. ASSUME NEW f \in AssertUnchanged, movedBy'[f] # {}
      PROVE  Spoiled' \/ Unseen(f)'
  <2>0. f \in Field /\ (pc \notin {"preRun", "aborted"} => ~Gone(baselines[f]))
    BY <1>0, <1>4 DEF Watched
  <2>1. CASE Spoiled
    BY <2>1, SpoiledStays
  <2>2. CASE ~Spoiled /\ Update /\ WorldStep
    <3>1. pc = "wait" /\ pc' = "wait" /\ dirty # {}
      BY <2>0, <2>2, UpdateFacts, WorldFrame DEF Watched
    <3>2. movedBy[f] = {}
      BY <2>2, <3>1, <1>4 DEF Watched, Unseen
    <3>3. Gone(mirror'[f]) /\ dirty' = {}
      BY <2>0, <2>2, <3>2, <1>4, UpdateFacts
    <3>. QED  BY <3>1, <3>3 DEF Unseen
  <2>3. CASE ~Spoiled /\ WorldStep /\ ~Update
    <3>1. movedBy' = movedBy /\ mirror' = mirror /\ (dirty = {} => dirty' = {})
      BY <2>3 DEF WorldStep, World, UpdateFails, NoUpdate, EventListed
    <3>. QED  BY <1>4, <2>3, <3>1, WorldFrame DEF Watched, Unseen
  <2>4. CASE ~Spoiled /\ UNCHANGED vars
    BY <1>4, <2>4, WorldFrame, StutterFrame DEF Watched, Unseen
  <2>5. CASE ~Spoiled /\ Runner
    <3>1. movedBy' = movedBy /\ mirror' = mirror /\ Unseen(f)
      BY <1>4, <2>5, RunnerCases, ReadFrame, PatchFrame, RestartFrame DEF Watched
    <3>2. CASE Reconciled \/ PollField \/ Evidenced \/ NotEvidenced
               \/ EvidenceUnchecked
      <4>1. /\ pc \in {"wait", "poll", "evidence"}
            /\ pc' \in {"poll", "evidence", "snapshot"}
        BY <3>2 DEF Reconciled, PollField, Evidenced, NotEvidenced,
                    EvidenceUnchecked, EvidenceVerdict, Goto
      <4>2. dirty' = dirty
        BY <3>2, ReadFrame DEF Read
      <4>. QED  BY <3>1, <4>1, <4>2 DEF Unseen
    <3>3. CASE ApplyPatchAndReconcileFails \/ TakeSnapshotFails
      BY <3>3 DEF ApplyPatchAndReconcileFails, TakeSnapshotFails, Finish, Spoiled,
                  Failing
    <3>4. CASE PollFieldFails
      BY <3>4 DEF PollFieldFails, Goto, Spoiled, Failing
    <3>5. CASE TakeSnapshot
      <4>1. /\ pc = "snapshot" /\ pc' = "account" /\ result' = result
            /\ snapshot' = [values |-> mirror, at |-> i]
        BY <3>5 DEF TakeSnapshot, Goto
      <4>. QED  BY <3>1, <4>1 DEF Unseen, Watched
    <3>6. CASE Account
      <4>1. /\ pc = "account" /\ snapshot.values[f] \in {Absent, Unreadable}
            /\ violations' = violations \cup Drifts(snapshot, i)
            /\ "NoOp" \notin result
        BY <3>1, <3>6, AccountCases DEF Unseen, Gone
      <4>2. f \notin violatedFields
        BY <2>5 DEF violatedFields, Spoiled
      <4>3. CASE snapshot.values[f] = Unreadable
        <5>1. ReadFails(snapshot, test.field)
          BY <1>4, <4>2, <4>3 DEF ReadFails
        <5>2. "Error" \in Stored /\ "Skipped" \notin Stored
          BY <4>1, <5>1, StoredFacts DEF Typed
        <5>3. i \in DOMAIN results' /\ results'[i] = Stored
          BY <3>6, ResultsCases, AccountCases
        <5>. QED  BY <5>2, <5>3 DEF Failed, Spoiled
      <4>4. CASE snapshot.values[f] = Absent
        <5>1. snapshot.values[f] \notin {Unreadable, baselines[f]}
          BY <2>0, <4>1, <4>4, RunTestsAssumption DEF Gone
        <5>2. [field |-> f, after |-> i] \in Drifts(snapshot, i)
          BY <1>4, <4>2, <5>1 DEF Drifts
        <5>. QED  BY <4>1, <5>2 DEF Spoiled
      <4>. QED  BY <4>1, <4>3, <4>4
    <3>7. CASE Abort \/ CountPreExisting \/ CountPreExistingFails \/ PreReset
               \/ Return \/ Skip \/ Measure \/ Reset \/ NoOp \/ Begin
               \/ CountBefore \/ Patch
      BY <3>1, <3>7 DEF Unseen, Abort, CountPreExisting, CountPreExistingFails,
                  PreReset, Return, Skip, Measure, Reset, NoOp, Begin,
                  CountBefore, Patch, Goto
    <3>. QED  BY <2>5, <3>2, <3>3, <3>4, <3>5, <3>6, <3>7 DEF Runner
  <2>. QED  BY <2>1, <2>2, <2>3, <2>4, <2>5, StepCases
<1>. QED  BY <1>1, <1>2, <1>3, <1>4 DEF Watched

LEMMA WatchedAlways == Spec => []Watched
<1>1. Init => Watched
  <2>. SUFFICES ASSUME Init PROVE Watched
    OBVIOUS
  <2>1. \A f \in AssertUnchanged : movedBy[f] = {}
    BY InitFacts, RunTestsAssumption
  <2>. QED  BY <2>1, InitFacts DEF Watched
<1>2. Typed /\ Watched /\ [Next]_vars => Watched'
  BY WatchedStep
<1>. QED  BY <1>1, <1>2, TypedAlways, PTL DEF Spec

\* A run with a clean verdict saw no assert-unchanged field move under any of its
\* patches: a field that an Update() lost is missing from the snapshot that is
\* compared next, or the entry fails; no order of timeouts, failed calls, no-ops
\* and late reconciles lets it slip by.
THEOREM CleanRunSawNoDriftAlways == Spec => []CleanRunSawNoDrift
<1>1. Watched => CleanRunSawNoDrift
  BY SpoiledIsNotClean DEF Watched, CleanRunSawNoDrift, Unseen, Clean
<1>. QED  BY <1>1, WatchedAlways, PTL

-----------------------------------------------------------------------------
(***************************************************************************)
(* The evidence of an Update().  When events are listed at once, a growing *)
(* count comes from the entry that is being run, unless the verdict is     *)
(* spoiled: then an entry left dirty may still be updated.                 *)
(***************************************************************************)
Exercised ==
    /\ dirty # {} => Spoiled \/ (pc = "wait" /\ i \in dirty)
    /\ pc \in {"patch", "wait", "poll", "evidence"} /\ eventsBefore # Unknown
          /\ recorded > eventsBefore
       => Spoiled \/ i \in reached
    /\ pc \in {"snapshot", "account"} /\ "Passed" \in result
       => Spoiled \/ i \in reached
    /\ \A j \in DOMAIN results :
          "Passed" \in results[j] => Spoiled \/ j \in reached

\* The steps of the runner that matter to Exercised, and what the others keep.
Judging ==
    \/ CountBefore \/ Patch \/ Reconciled \/ ApplyPatchAndReconcileFails
    \/ PollField \/ PollFieldFails \/ Evidenced \/ NotEvidenced
    \/ EvidenceUnchecked \/ TakeSnapshot \/ TakeSnapshotFails \/ NoOp \/ Account

LEMMA OtherSteps ==
    ASSUME Runner, ~Judging
    PROVE  /\ dirty' = dirty /\ reached' = reached /\ recorded' = recorded
           /\ pc \notin {"count", "patch", "wait", "poll", "evidence", "snapshot",
                         "account"}
           /\ pc' \notin {"count", "patch", "wait", "poll", "evidence", "snapshot",
                          "account"} \/ Begin
           /\ Begin => pc' = "count"
<1>1. CASE Abort \/ CountPreExisting \/ CountPreExistingFails \/ Skip \/ Measure
           \/ Begin \/ Return
  <2>1. dirty' = dirty /\ reached' = reached /\ recorded' = recorded
    BY <1>1, ReadFrame DEF Read
  <2>2. /\ pc \notin {"count", "patch", "wait", "poll", "evidence", "snapshot",
                      "account"}
        /\ pc' \notin {"count", "patch", "wait", "poll", "evidence", "snapshot",
                       "account"} \/ Begin
    BY <1>1 DEF Abort, CountPreExisting, CountPreExistingFails, Skip, Measure,
                Return, Begin, Goto
  <2>. QED  BY <2>1, <2>2 DEF Begin, Goto
<1>2. CASE PreReset \/ Reset
  <2>1. dirty' = dirty /\ reached' = reached /\ recorded' = recorded
    BY <1>2, RestartFrame
  <2>2. pc \in {"preReset", "reset"} /\ pc' \in {"loop", "begin"}
    BY <1>2 DEF PreReset, Reset, Goto
  <2>. QED  BY <2>1, <2>2 DEF Begin, Goto
<1>. QED  BY <1>1, <1>2 DEF Runner, Judging

LEMMA ExercisedStep ==
    ASSUME MaxLag = 0
    PROVE  Typed /\ Watched /\ Exercised /\ [Next]_vars => Exercised'
<1>. SUFFICES ASSUME Typed, Watched, Exercised, [Next]_vars PROVE Exercised'
  OBVIOUS
<1>0. /\ recorded \in Nat /\ inflight = 0 /\ tokens \in Nat /\ Unknown = -1
      /\ eventsBefore \in Nat \cup {Unknown} /\ i \in Nat
      /\ result \subseteq Flag /\ DOMAIN results = 1..(i - 1)
  BY ResultsCases, RunTestsAssumption DEF Typed, EventType, CountType, ResultType,
     Unknown
<1>1. CASE Spoiled
  BY <1>1, SpoiledStays DEF Exercised
<1>2. ASSUME NEW j \in DOMAIN results, "Passed" \in results'[j], ~Spoiled
      PROVE  j \in reached'
  <2>1. results'[j] = results[j] /\ reached \subseteq reached'
    BY ResultsCases, StepCases, RunnerCases, ReadFrame, PatchFrame, RestartFrame,
       WorldCases, StutterFrame
  <2>. QED  BY <1>2, <2>1 DEF Exercised
<1>3. CASE ~Spoiled /\ WorldStep
  <2>1. /\ pc' = pc /\ i' = i /\ result' = result /\ results' = results
        /\ eventsBefore' = eventsBefore
    BY <1>3, WorldFrame
  <2>2. CASE dirty # {}
    <3>1. pc = "wait" /\ i \in dirty
      BY <1>3, <2>2 DEF Exercised
    <3>2. CASE reached' = reached \cup dirty /\ dirty' \subseteq dirty
      <4>1. i \in reached' /\ (dirty' # {} => i \in dirty')
        BY <1>3, <3>1, <3>2, <2>2 DEF WorldStep, World, Update, UpdateFails,
           NoUpdate, EventListed
      <4>. QED  BY <1>2, <1>3, <2>1, <3>1, <4>1 DEF Exercised
    <3>3. CASE dirty' = {} /\ reached' = reached /\ recorded' = recorded
      BY <1>2, <1>3, <2>1, <3>1, <3>3 DEF Exercised
    <3>. QED  BY <1>0, <1>3, <3>2, <3>3, WorldCases
  <2>3. CASE dirty = {}
    <3>1. reached' = reached /\ dirty' = {} /\ recorded' = recorded
      BY <1>0, <1>3, <2>3, WorldCases
    <3>. QED  BY <1>2, <1>3, <2>1, <3>1 DEF Exercised
  <2>. QED  BY <2>2, <2>3
<1>4. CASE UNCHANGED vars
  <2>1. UNCHANGED <<pc, i, result, results, eventsBefore, dirty, reached, recorded>>
    BY <1>4, WorldFrame, StutterFrame
  <2>2. Spoiled' <=> Spoiled
    BY <1>4, WorldFrame DEF Spoiled, Failed, Failing
  <2>. QED  BY <2>1, <2>2 DEF Exercised
<1>5. CASE ~Spoiled /\ Runner /\ ~Judging
  <2>1. /\ dirty' = dirty /\ reached' = reached /\ recorded' = recorded
        /\ pc # "wait" /\ dirty = {}
    BY <1>5, OtherSteps DEF Exercised
  <2>2. pc' \notin {"patch", "wait", "poll", "evidence", "snapshot", "account"}
    BY <1>5, OtherSteps
  <2>3. \A j \in DOMAIN results' : "Passed" \in results'[j] => j \in reached'
    <3>1. ~Account
      BY <1>5 DEF Judging
    <3>2. CASE results' = results
      BY <1>2, <1>5, <3>2
    <3>3. CASE i' = i + 1 /\ results'[i] = {"Skipped"} /\ DOMAIN results' = 1..i
      BY <1>0, <1>2, <1>5, <3>3
    <3>. QED  BY <1>0, <3>1, <3>2, <3>3, ResultsCases
  <2>. QED  BY <2>1, <2>2, <2>3 DEF Exercised
<1>6. CASE ~Spoiled /\ Judging /\ ~Account
  <2>0. /\ ~Skip /\ ~Account /\ results' = results /\ i' = i
    <3>1. ~Skip
      BY <1>6 DEF Skip, Judging, CountBefore, Patch, Reconciled, PollField,
         ApplyPatchAndReconcileFails, PollFieldFails, Evidenced, NotEvidenced,
         EvidenceUnchecked, EvidenceVerdict, TakeSnapshot, TakeSnapshotFails, NoOp,
         Account, Goto
    <3>. QED  BY <1>6, <3>1, OnlyTwoStore
  <2>1. CASE CountBefore
    <3>1. /\ pc = "count" /\ pc' = "patch"
          /\ eventsBefore' \in {recorded} \cup {Unknown}
      BY <2>1 DEF CountBefore, Goto
    <3>2. dirty' = dirty /\ recorded' = recorded /\ reached' = reached
      BY <2>1, ReadFrame DEF Read
    <3>. QED  BY <1>0, <1>2, <1>6, <2>0, <3>1, <3>2 DEF Exercised
  <2>2. CASE Patch
    <3>1. /\ pc = "patch" /\ pc' = "wait" /\ dirty' = dirty \cup {i}
          /\ UNCHANGED <<recorded, reached, eventsBefore>>
      BY <2>2, PatchFrame
    <3>. QED  BY <1>2, <1>6, <2>0, <3>1 DEF Exercised
  <2>3. CASE Reconciled \/ PollField
    <3>1. /\ pc \in {"wait", "poll"} /\ pc' \in {"poll", "evidence"}
          /\ eventsBefore' = eventsBefore
      BY <2>3 DEF Reconciled, PollField, Goto
    <3>2. dirty' = dirty /\ recorded' = recorded /\ reached' = reached
      BY <2>3, ReadFrame DEF Read
    <3>3. dirty = {}
      BY <1>6, <2>3 DEF Reconciled, PollField, Goto, Exercised
    <3>. QED  BY <1>2, <1>6, <2>0, <3>1, <3>2, <3>3 DEF Exercised
  <2>4. CASE ApplyPatchAndReconcileFails \/ TakeSnapshotFails \/ NoOp
    <3>1. Spoiled'
      BY <2>4 DEF ApplyPatchAndReconcileFails, TakeSnapshotFails, NoOp, Finish,
                  Spoiled, Failing
    <3>. QED  BY <3>1 DEF Exercised
  <2>5. CASE PollFieldFails \/ EvidenceUnchecked
    <3>1. Spoiled'
      BY <2>5 DEF PollFieldFails, EvidenceUnchecked, EvidenceVerdict, Goto,
                  Spoiled, Failing
    <3>. QED  BY <3>1 DEF Exercised
  <2>6. CASE Evidenced \/ NotEvidenced
    <3>1. /\ pc = "evidence" /\ pc' = "snapshot"
          /\ dirty' = dirty /\ recorded' = recorded /\ reached' = reached
      BY <2>6, ReadFrame DEF Read, Evidenced, NotEvidenced, EvidenceVerdict, Goto
    <3>2. CASE Evidenced
      BY <1>2, <1>6, <2>0, <3>1, <3>2 DEF Exercised, Evidenced
    <3>3. CASE NotEvidenced
      <4>1. "Passed" \notin result'
        BY <3>3 DEF NotEvidenced, EvidenceVerdict
      <4>. QED  BY <1>2, <1>6, <2>0, <3>1, <4>1 DEF Exercised
    <3>. QED  BY <2>6, <3>2, <3>3
  <2>7. CASE TakeSnapshot
    <3>1. /\ pc = "snapshot" /\ pc' = "account" /\ result' = result
          /\ dirty' = dirty /\ recorded' = recorded /\ reached' = reached
      BY <2>7, ReadFrame DEF Read, TakeSnapshot, Goto
    <3>. QED  BY <1>2, <1>6, <2>0, <3>1 DEF Exercised
  <2>. QED
    BY <1>6, <2>1, <2>2, <2>3, <2>4, <2>5, <2>6, <2>7 DEF Judging
<1>7. CASE ~Spoiled /\ Account
  <2>1. /\ pc = "account" /\ pc' = "loop" /\ DOMAIN results' = 1..i
        /\ results'[i] = Stored
    BY <1>0, <1>7, ResultsCases, AccountCases
  <2>2. dirty' = dirty /\ reached' = reached
    BY <1>7, ReadFrame DEF Read
  <2>3. "Passed" \in results'[i] => i \in reached'
    <3>1. "Passed" \in Stored => "Passed" \in result
      BY StoredFacts DEF Typed
    <3>. QED  BY <1>7, <2>1, <2>2, <3>1 DEF Exercised
  <2>4. \A j \in DOMAIN results' : "Passed" \in results'[j] => j \in reached'
    BY <1>0, <1>2, <1>7, <2>1, <2>3
  <2>. QED  BY <1>7, <2>1, <2>2, <2>4 DEF Exercised
<1>. QED
  BY <1>1, <1>3, <1>4, <1>5, <1>6, <1>7, StepCases DEF Judging

\* When events are listed at once, a clean verdict proves that the provider's
\* Update() carried every entry that was tested, whatever failed on the way and
\* whatever the backend made of the values: an entry whose value was there
\* already, or arrived without Update(), never passes.  MCRunTestsLateEvent.cfg
\* shows what a late event does to it.
THEOREM CleanRunExercisedUpdateAlways ==
    ASSUME MaxLag = 0
    PROVE  Spec => []CleanRunExercisedUpdate
<1>1. Init => Exercised
  BY InitFacts DEF Exercised
<1>2. Typed /\ Watched /\ Exercised /\ [Next]_vars => Exercised'
  BY ExercisedStep
<1>3. Exercised => CleanRunExercisedUpdate
  BY SpoiledIsNotClean DEF Exercised, CleanRunExercisedUpdate, Clean, Good, Tested
<1>. QED  BY <1>1, <1>2, <1>3, TypedAlways, WatchedAlways, PTL DEF Spec

-----------------------------------------------------------------------------
(***************************************************************************)
(* The burst, when the runner's own calls succeed.  What a process has     *)
(* recorded since its start is at most what was accepted since the         *)
(* baseline of the loop's count, plus the events before the run.           *)
(***************************************************************************)
CallsSucceed == "api" \notin Faults /\ "count" \notin Faults

\* The margin between the ceiling and the burst covers the events that are not
\* listed yet and those from before the run that did not reach the ceiling.
MarginCovers ==
    \A p \in PreExisting \cup {0} : p < Ceiling => Ceiling + MaxLag + p <= Burst

Counted ==
    /\ dirty # {} => pc = "wait" /\ dirty = {i}
    /\ pc = "preRun" => /\ Burst - tokens <= recorded /\ recorded \in PreExisting
                        /\ inflight = 0
    /\ pc \notin {"preRun", "aborted"}
       => eventBaseline \in Nat /\ eventBaseline <= recorded
    /\ pc = "preReset" => Accepted = eventBaseline
    /\ pc = "reset" => /\ current \in Nat /\ current <= recorded
                       /\ Accepted - current <= MaxLag
    /\ eventsBefore <= recorded

LEMMA EventNumbers ==
    ASSUME Typed
    PROVE  /\ recorded \in Nat /\ inflight \in Nat /\ inflight <= MaxLag
           /\ tokens \in Nat /\ tokens <= Burst /\ Burst \in Nat /\ MaxLag \in Nat
           /\ Ceiling \in Nat \ {0} /\ PreExisting \subseteq Nat
           /\ Accepted \in Nat /\ Accepted = recorded + inflight
           /\ attempts \in Nat /\ i \in Nat \ {0} /\ Unknown = -1
           /\ eventsBefore \in Nat \cup {Unknown}
           /\ eventBaseline \in Nat \cup {Unknown}
<1>1. /\ recorded \in Nat /\ inflight \in Nat /\ inflight <= MaxLag
      /\ tokens \in Nat /\ tokens <= Burst
  BY RunTestsAssumption DEF Typed, EventType
<1>2. attempts \in Nat /\ i \in Nat \ {0} /\ eventsBefore \in Nat \cup {Unknown}
      /\ eventBaseline \in Nat \cup {Unknown}
  BY TestsFacts DEF Typed, CountType, FlowType
<1>. QED  BY <1>1, <1>2, RunTestsAssumption DEF Accepted, Unknown

LEMMA WorldCounts ==
    ASSUME Typed, WorldStep
    PROVE  /\ recorded <= recorded' /\ tokens' <= tokens
           /\ Accepted' = Accepted + (tokens - tokens')
           /\ dirty' \subseteq dirty
           /\ dirty = {} => tokens' = tokens /\ reached' = reached
           /\ \/ reached' = reached
              \/ reached' = reached \cup dirty /\ (tokens > 0 => tokens' < tokens)
<1>0. EventType
  BY DEF Typed
<1>1. CASE /\ dirty # {} /\ \E n \in Nat \ {0} : Emit(n)
           /\ reached' = reached \cup dirty /\ dirty' \subseteq dirty
  BY <1>0, <1>1, EmitFacts
<1>2. CASE /\ dirty' = {} /\ reached' = reached
           /\ UNCHANGED <<recorded, inflight, tokens>>
  BY <1>2, EventNumbers DEF Accepted
<1>3. CASE /\ inflight > 0 /\ inflight' = inflight - 1
           /\ recorded' = recorded + 1 /\ tokens' = tokens
           /\ reached' = reached /\ dirty' = dirty
  BY <1>3, EventNumbers DEF Accepted
<1>. QED  BY <1>1, <1>2, <1>3, WorldCases

LEMMA CountedStep ==
    ASSUME CallsSucceed
    PROVE  Typed /\ Counted /\ [Next]_vars => Counted'
<1>. SUFFICES ASSUME Typed, Counted, [Next]_vars PROVE Counted'
  OBVIOUS
<1>0. ~Fault("api") /\ ~Fault("count")
  BY DEF CallsSucceed, Fault
<1>. USE EventNumbers
<1>1. CASE Abort \/ Skip \/ NoOp \/ Begin \/ Return
  <2>1. /\ pc # "wait" /\ pc' \notin {"preRun", "preReset", "reset"}
        /\ pc' = "aborted" \/ pc \notin {"preRun", "aborted"}
        /\ UNCHANGED <<eventBaseline, eventsBefore>>
    BY <1>1 DEF Abort, Skip, NoOp, Begin, Return, Finish, Goto, loopVars
  <2>2. UNCHANGED <<dirty, recorded, inflight>>
    BY <1>1, ReadFrame DEF Read
  <2>. QED  BY <2>1, <2>2 DEF Counted
<1>2. CASE CountPreExisting
  <2>1. /\ pc = "preRun" /\ pc' \in {"preReset", "loop"}
        /\ eventBaseline' = recorded /\ eventsBefore' = eventsBefore
    BY <1>2 DEF CountPreExisting, Goto
  <2>2. UNCHANGED <<dirty, recorded, inflight>>
    BY <1>2, ReadFrame DEF Read
  <2>. QED  BY <2>1, <2>2 DEF Counted, Accepted
<1>3. CASE PreReset
  <2>1. /\ pc = "preReset" /\ pc' = "loop"
        /\ UNCHANGED <<eventBaseline, eventsBefore, recorded, dirty>>
    BY <1>3, RestartFrame DEF PreReset, Goto
  <2>. QED  BY <2>1 DEF Counted
<1>4. CASE Measure
  <2>1. /\ pc = "loop" /\ UNCHANGED <<eventBaseline, eventsBefore>>
        /\ pc' = "begin" \/ (pc' = "reset" /\ current' = recorded)
    BY <1>0, <1>4 DEF Measure
  <2>2. UNCHANGED <<dirty, recorded, inflight>>
    BY <1>4, ReadFrame DEF Read
  <2>. QED  BY <2>1, <2>2 DEF Counted, Accepted
<1>5. CASE Reset
  <2>1. /\ pc = "reset" /\ pc' = "begin"
        /\ UNCHANGED <<eventsBefore, recorded, dirty>>
        /\ eventBaseline' = IF current = Unknown THEN eventBaseline ELSE current
    BY <1>5, RestartFrame DEF Reset, Goto
  <2>. QED  BY <2>1 DEF Counted
<1>6. CASE CountBefore
  <2>1. /\ pc = "count" /\ pc' = "patch" /\ eventsBefore' = recorded
        /\ eventBaseline' = eventBaseline
    BY <1>0, <1>6 DEF CountBefore, Goto, loopVars
  <2>2. UNCHANGED <<dirty, recorded, inflight>>
    BY <1>6, ReadFrame DEF Read
  <2>. QED  BY <2>1, <2>2 DEF Counted
<1>7. CASE Patch
  <2>1. /\ pc = "patch" /\ pc' = "wait" /\ dirty' = dirty \cup {i} /\ i' = i
        /\ UNCHANGED <<eventsBefore, eventBaseline, recorded>>
    BY <1>7, PatchFrame
  <2>2. dirty = {}
    BY <2>1 DEF Counted
  <2>. QED  BY <2>1, <2>2 DEF Counted
<1>8. CASE Reconciled \/ PollField \/ PollFieldFails \/ Evidenced
           \/ NotEvidenced \/ EvidenceUnchecked \/ TakeSnapshot \/ Account
  <2>1. /\ pc \in {"wait", "poll", "evidence", "snapshot", "account"}
        /\ pc' \in {"poll", "evidence", "snapshot", "account", "loop"}
        /\ pc = "wait" => dirty = {}
        /\ eventBaseline' = eventBaseline /\ eventsBefore' \in {eventsBefore, Unknown}
    BY <1>8 DEF Reconciled, PollField, PollFieldFails, Evidenced, NotEvidenced,
                EvidenceUnchecked, EvidenceVerdict, TakeSnapshot, Account, Goto,
                loopVars
  <2>2. UNCHANGED <<dirty, recorded, inflight>>
    BY <1>8, ReadFrame DEF Read
  <2>. QED  BY <2>1, <2>2 DEF Counted
<1>9. CASE CountPreExistingFails \/ ApplyPatchAndReconcileFails \/ TakeSnapshotFails
  BY <1>0, <1>9 DEF CountPreExistingFails, ApplyPatchAndReconcileFails,
                    TakeSnapshotFails
<1>10. CASE WorldStep
  <2>1. UNCHANGED <<pc, i, eventsBefore, eventBaseline, current>>
    BY <1>10, WorldFrame
  <2>2. dirty = {} \/ (pc = "wait" /\ dirty = {i})
    BY DEF Counted
  <2>3. /\ recorded' \in Nat /\ inflight' \in Nat /\ tokens' \in Nat
        /\ Accepted' = recorded' + inflight'
    <3>1. Typed'
      BY TypedStep
    <3>2. recorded' \in Nat /\ inflight' \in 0..MaxLag /\ tokens' \in 0..Burst
      BY <3>1 DEF Typed, EventType
    <3>. QED  BY <3>2 DEF Accepted
  <2>4. /\ recorded <= recorded' /\ dirty' \subseteq dirty
        /\ dirty = {} => Accepted' = Accepted /\ tokens' = tokens
    <3>1. /\ recorded <= recorded' /\ dirty' \subseteq dirty
          /\ Accepted' = Accepted + (tokens - tokens')
          /\ dirty = {} => tokens' = tokens
      BY <1>10, WorldCounts
    <3>2. Accepted \in Nat /\ tokens \in Nat
      OBVIOUS
    <3>3. ASSUME tokens' = tokens PROVE Accepted' = Accepted
      BY <3>1, <3>2, <3>3
    <3>. QED  BY <3>1, <3>3
  <2>10. ASSUME pc = "preRun"
         PROVE  recorded' = recorded /\ inflight' = inflight /\ tokens' = tokens
    <3>1. dirty = {} /\ inflight = 0
      BY <2>10 DEF Counted
    <3>. QED  BY <2>3, <2>4, <3>1
  <2>5. dirty' # {} => pc' = "wait" /\ dirty' = {i'}
    BY <2>1, <2>2, <2>4
  <2>6. pc' = "preRun" => /\ Burst - tokens' <= recorded'
                          /\ recorded' \in PreExisting /\ inflight' = 0
    BY <2>1, <2>10 DEF Counted
  <2>7. pc' \notin {"preRun", "aborted"}
        => eventBaseline' \in Nat /\ eventBaseline' <= recorded'
    BY <2>1, <2>3, <2>4 DEF Counted
  <2>8. /\ pc' = "preReset" => Accepted' = eventBaseline'
        /\ pc' = "reset" => /\ current' \in Nat /\ current' <= recorded'
                            /\ Accepted' - current' <= MaxLag
    BY <2>1, <2>2, <2>3, <2>4 DEF Counted
  <2>9. eventsBefore' <= recorded'
    BY <2>1, <2>3, <2>4 DEF Counted
  <2>. QED  BY <2>5, <2>6, <2>7, <2>8, <2>9 DEF Counted
<1>11. CASE UNCHANGED vars
  BY <1>11, WorldFrame, StutterFrame DEF Counted, Accepted
<1>. QED
  BY <1>1, <1>2, <1>3, <1>4, <1>5, <1>6, <1>7, <1>8, <1>9, <1>10, <1>11, StepCases
     DEF Runner

LEMMA CountedAlways ==
    ASSUME CallsSucceed
    PROVE  Spec => []Counted
<1>1. Init => Counted
  BY InitFacts, RunTestsAssumption DEF Counted, Unknown
<1>2. Typed /\ Counted /\ [Next]_vars => Counted'
  BY CountedStep
<1>. QED  BY <1>1, <1>2, TypedAlways, PTL DEF Spec

-----------------------------------------------------------------------------
(***************************************************************************)
(* Headroom: a bound on what the process has spent, which the margin keeps *)
(* below the burst as long as the loop decides not to reset.               *)
(***************************************************************************)
LEMMA WorldQuiet ==
    ASSUME Typed, WorldStep, dirty = {}
    PROVE  /\ Accepted' = Accepted /\ tokens' = tokens
           /\ reached' = reached /\ dirty' = {}
<1>1. /\ Accepted' = Accepted + (tokens - tokens') /\ tokens' = tokens
      /\ reached' = reached /\ dirty' = {}
  BY WorldCounts
<1>2. Accepted \in Nat /\ tokens \in Nat
  BY EventNumbers
<1>3. Accepted' = Accepted
  BY <1>1, <1>2
<1>. QED  BY <1>1, <1>3

LEMMA RestartCounts ==
    ASSUME Typed, PreReset \/ Reset
    PROVE  /\ recorded' = recorded /\ Accepted' \in Nat
           /\ recorded <= Accepted' /\ Accepted' <= Accepted
           /\ tokens' = Burst \/ resetFailed' = TRUE
<1>1. Typed' /\ recorded' = recorded /\ (tokens' = Burst \/ resetFailed' = TRUE)
      /\ (inflight' \in 0..inflight \/ inflight' = inflight)
  BY TypedStep, RestartFrame, StepCases, RunnerCases
<1>2. inflight' \in Nat /\ inflight' <= inflight
  BY <1>1, EventNumbers
<1>. QED  BY <1>1, <1>2, EventNumbers DEF Accepted

Allowance ==
    \E p \in PreExisting \cup {0} :
        p < Ceiling /\ Burst - tokens <= Accepted - eventBaseline + p

Spent ==
    /\ pc \notin {"preRun", "preReset", "aborted"} => resetFailed \/ Allowance
    /\ pc \in {"begin", "count", "patch"} => resetFailed \/ tokens > 0

LEMMA SpentStep ==
    ASSUME CallsSucceed, MarginCovers
    PROVE  Typed /\ Counted /\ Spent /\ [Next]_vars => Spent'
<1>. SUFFICES ASSUME Typed, Counted, Spent, [Next]_vars PROVE Spent'
  OBVIOUS
<1>0. ~Fault("api") /\ ~Fault("count")
  BY DEF CallsSucceed, Fault
<1>1. CASE Abort
  BY <1>1 DEF Abort, Goto, Spent
<1>2. CASE CountPreExisting
  <2>1. /\ pc = "preRun" /\ eventBaseline' = recorded
        /\ pc' = IF recorded >= Ceiling THEN "preReset" ELSE "loop"
    BY <1>2 DEF CountPreExisting, Goto
  <2>2. UNCHANGED <<recorded, inflight, tokens>>
    BY <1>2, ReadFrame DEF Read
  <2>3. /\ Burst - tokens <= recorded /\ recorded \in PreExisting /\ inflight = 0
    BY <2>1 DEF Counted
  <2>4. CASE recorded >= Ceiling
    BY <2>1, <2>4 DEF Spent
  <2>5. CASE recorded < Ceiling
    <3>1. Accepted' = recorded /\ pc' = "loop"
      BY <2>1, <2>2, <2>3, <2>5, EventNumbers DEF Accepted
    <3>2. Burst - tokens' <= Accepted' - eventBaseline' + recorded
      BY <2>1, <2>2, <2>3, <3>1, EventNumbers
    <3>3. Allowance'
      BY <2>3, <2>5, <3>2 DEF Allowance
    <3>. QED  BY <3>1, <3>3 DEF Spent
  <2>. QED  BY <2>4, <2>5, EventNumbers
<1>3. CASE PreReset \/ Reset
  <2>1. eventBaseline' \in Nat /\ eventBaseline' <= recorded
    BY <1>3, EventNumbers DEF PreReset, Reset, Goto, Counted
  <2>2. ASSUME tokens' = Burst PROVE Allowance' /\ tokens' > 0
    <3>1. Burst - tokens' <= Accepted' - eventBaseline' + 0
      BY <1>3, <2>1, <2>2, RestartCounts, EventNumbers
    <3>2. Burst > 0 /\ 0 < Ceiling
      BY RunTestsAssumption
    <3>. QED  BY <2>2, <3>1, <3>2 DEF Allowance
  <2>3. CASE tokens' = Burst
    BY <2>2, <2>3 DEF Spent
  <2>4. CASE resetFailed' = TRUE
    BY <2>4 DEF Spent
  <2>. QED  BY <1>3, <2>3, <2>4, RestartCounts
<1>4. CASE Measure
  <2>1. UNCHANGED <<recorded, inflight, tokens>>
    BY <1>4, ReadFrame DEF Read
  <2>2. /\ pc = "loop" /\ UNCHANGED <<eventBaseline, resetFailed>>
        /\ pc' = "reset" \/ (pc' = "begin" /\ ~shouldReset(recorded))
    BY <1>0, <1>4 DEF Measure
  <2>3. ASSUME ~shouldReset(recorded), Allowance PROVE tokens > 0
    <3>1. PICK p \in PreExisting \cup {0} :
             p < Ceiling /\ Burst - tokens <= Accepted - eventBaseline + p
      BY <2>3 DEF Allowance
    <3>2. p \in Nat /\ Ceiling + MaxLag + p <= Burst
      BY <3>1, EventNumbers DEF MarginCovers
    <3>3. eventBaseline \in Nat
      BY <2>2 DEF Counted
    <3>4. recorded - eventBaseline < Ceiling
      BY <2>3, <3>3, EventNumbers DEF shouldReset
    <3>. QED  BY <3>1, <3>2, <3>3, <3>4, EventNumbers
  <2>4. (resetFailed \/ Allowance) /\ (Allowance => Allowance')
    BY <2>1, <2>2 DEF Spent, Allowance, Accepted
  <2>. QED  BY <2>1, <2>2, <2>3, <2>4 DEF Spent
<1>5. CASE Skip \/ NoOp \/ Begin \/ CountBefore \/ Patch \/ Reconciled
           \/ PollField \/ PollFieldFails \/ Evidenced \/ NotEvidenced
           \/ EvidenceUnchecked \/ TakeSnapshot \/ Account \/ Return
  <2>1. /\ pc \notin {"preRun", "preReset", "aborted"}
        /\ pc' \in {"begin", "count", "patch"} => pc \in {"begin", "count"}
        /\ UNCHANGED <<eventBaseline, resetFailed>>
    BY <1>5 DEF Skip, NoOp, Begin, CountBefore, Patch, Reconciled, PollField,
       PollFieldFails, Evidenced, NotEvidenced, EvidenceUnchecked, EvidenceVerdict,
       TakeSnapshot, Account, Return, Finish, Goto, loopVars
  <2>2. UNCHANGED <<recorded, inflight, tokens>>
    BY <1>5, ReadFrame, PatchFrame DEF Read
  <2>. QED  BY <2>1, <2>2 DEF Spent, Allowance, Accepted
<1>6. CASE CountPreExistingFails \/ ApplyPatchAndReconcileFails \/ TakeSnapshotFails
  BY <1>0, <1>6 DEF CountPreExistingFails, ApplyPatchAndReconcileFails,
                    TakeSnapshotFails
<1>7. CASE WorldStep
  <2>1. UNCHANGED <<pc, eventBaseline, resetFailed>>
    BY <1>7, WorldFrame
  <2>2. ASSUME pc \notin {"preRun", "preReset", "aborted"}, Allowance PROVE Allowance'
    <3>1. PICK p \in PreExisting \cup {0} :
             p < Ceiling /\ Burst - tokens <= Accepted - eventBaseline + p
      BY <2>2 DEF Allowance
    <3>2. Accepted' = Accepted + (tokens - tokens') /\ tokens' \in Nat
      <4>1. Typed'
        BY TypedStep
      <4>. QED  BY <1>7, <4>1, WorldCounts, EventNumbers DEF Typed, EventType
    <3>3. eventBaseline \in Nat /\ p \in Nat
      BY <2>2, EventNumbers DEF Counted
    <3>4. Burst - tokens' <= Accepted' - eventBaseline + p
      BY <3>1, <3>2, <3>3, EventNumbers
    <3>. QED  BY <2>1, <3>1, <3>4 DEF Allowance
  <2>3. pc \in {"begin", "count", "patch"} => tokens' = tokens
    BY <1>7, WorldQuiet DEF Counted
  <2>. QED  BY <2>1, <2>2, <2>3 DEF Spent
<1>8. CASE UNCHANGED vars
  BY <1>8, WorldFrame, StutterFrame DEF Spent, Allowance, Accepted
<1>. QED
  BY <1>1, <1>2, <1>3, <1>4, <1>5, <1>6, <1>7, <1>8, StepCases DEF Runner

LEMMA SpentAlways ==
    ASSUME CallsSucceed, MarginCovers
    PROVE  Spec => []Spent
<1>1. Init => Spent
  BY InitFacts DEF Spent
<1>2. Typed /\ Counted /\ Spent /\ [Next]_vars => Spent'
  BY SpentStep
<1>3. Spec => []Counted
  BY CountedAlways
<1>. QED  BY <1>1, <1>2, <1>3, TypedAlways, PTL DEF Spec

\* As long as no restart failed, a patch is only issued to a controller that can
\* still record an event for it: for every ceiling and burst with a margin for the
\* events that are not listed yet and for those from before the run, and for any
\* number of events per Update().  MCRunTestsPreExisting.cfg has no such margin.
THEOREM HeadroomBeforePatchAlways ==
    ASSUME CallsSucceed, MarginCovers
    PROVE  Spec => []HeadroomBeforePatch
<1>1. Spec => []Spent
  BY SpentAlways
<1>2. Spent => HeadroomBeforePatch
  BY DEF Spent, HeadroomBeforePatch
<1>. QED  BY <1>1, <1>2, PTL

-----------------------------------------------------------------------------
(***************************************************************************)
(* A verdict of not-evidenced.  An Update() for the entry either had an    *)
(* event to spend, which shows before the window ends, or met a burst that *)
(* was spent, on this very entry, which shows as well.                     *)
(***************************************************************************)
Attributed ==
    /\ reached \subseteq 1..i
    /\ pc \notin {"wait", "poll", "evidence", "snapshot", "account"}
       => i \notin reached
    /\ pc = "wait" => resetFailed \/ tokens > 0 \/ Accepted > eventsBefore
    /\ pc \in {"wait", "poll", "evidence"} /\ i \in reached
       => resetFailed \/ Accepted > eventsBefore
    /\ pc = "evidence" => "NotEvidenced" \notin result
    /\ pc \in {"snapshot", "account"} /\ "NotEvidenced" \in result
       => "NoOp" \notin result /\ (resetFailed \/ i \notin reached)

LEMMA AttributedStep ==
    ASSUME CallsSucceed
    PROVE  Typed /\ Watched /\ Counted /\ Spent /\ Attributed /\ [Next]_vars
           => Attributed'
<1>. SUFFICES ASSUME Typed, Watched, Counted, Spent, Attributed, [Next]_vars
              PROVE  Attributed'
  OBVIOUS
<1>0. ~Fault("api") /\ ~Fault("count")
  BY DEF CallsSucceed, Fault
<1>1. CASE Abort \/ CountPreExisting \/ Measure \/ Begin \/ CountBefore \/ Return
  <2>1. /\ pc \notin {"wait", "poll", "evidence", "snapshot", "account"}
        /\ pc' \notin {"wait", "poll", "evidence", "snapshot", "account"}
        /\ i' = i
    BY <1>1 DEF Abort, CountPreExisting, Measure, Begin, CountBefore, Return, Goto
  <2>2. reached' = reached
    BY <1>1, ReadFrame DEF Read
  <2>. QED  BY <2>1, <2>2 DEF Attributed
<1>2. CASE PreReset \/ Reset
  <2>1. /\ pc \in {"preReset", "reset"} /\ pc' \in {"loop", "begin"}
        /\ i' = i /\ reached' = reached
    BY <1>2, RestartFrame DEF PreReset, Reset, Goto
  <2>. QED  BY <2>1 DEF Attributed
<1>3. CASE Skip
  <2>1. pc = "loop" /\ pc' = "loop" /\ i' = i + 1 /\ reached' = reached
    BY <1>3, ReadFrame DEF Skip, Read
  <2>. QED  BY <2>1, EventNumbers DEF Attributed
<1>4. CASE NoOp
  <2>1. /\ pc = "begin" /\ pc' = "account" /\ i' = i /\ reached' = reached
        /\ result' = {"NoOp", "Error"}
    BY <1>4, ReadFrame DEF NoOp, Finish, Read
  <2>. QED  BY <2>1 DEF Attributed
<1>5. CASE Patch
  <2>1. /\ pc = "patch" /\ pc' = "wait" /\ i' = i /\ resetFailed' = resetFailed
        /\ UNCHANGED <<reached, tokens>>
    BY <1>5, PatchFrame
  <2>2. (resetFailed \/ tokens > 0) /\ i \notin reached
    BY <2>1 DEF Spent, Attributed
  <2>. QED  BY <2>1, <2>2 DEF Attributed
<1>6. CASE Reconciled \/ PollField \/ PollFieldFails
  <2>1. /\ pc \in {"wait", "poll"} /\ pc' \in {"poll", "evidence"} /\ i' = i
        /\ UNCHANGED <<resetFailed, eventsBefore>>
        /\ pc' = "evidence" => "NotEvidenced" \notin result'
    BY <1>6 DEF Reconciled, PollField, PollFieldFails, Goto, loopVars
  <2>2. UNCHANGED <<reached, recorded, inflight>>
    BY <1>6, ReadFrame DEF Read
  <2>. QED  BY <2>1, <2>2 DEF Attributed, Accepted
<1>7. CASE Evidenced \/ EvidenceUnchecked
  <2>1. /\ pc = "evidence" /\ pc' = "snapshot" /\ i' = i
        /\ result' \in {result \cup {"UpdateEvidenced"}, result \cup {"Error"}}
    BY <1>7 DEF Evidenced, EvidenceUnchecked, EvidenceVerdict, Goto
  <2>2. reached' = reached
    BY <1>7, ReadFrame DEF Read
  <2>. QED  BY <2>1, <2>2 DEF Attributed
<1>8. CASE NotEvidenced
  <2>1. /\ pc = "evidence" /\ pc' = "snapshot" /\ i' = i
        /\ recorded <= eventsBefore /\ inflight = 0
        /\ resetFailed' = resetFailed
        /\ "NotEvidenced" \in result' => "NoOp" \notin result'
    BY <1>8 DEF NotEvidenced, EvidenceVerdict, Goto, loopVars, Watched, Attributed
  <2>2. ~(Accepted > eventsBefore)
    BY <2>1, EventNumbers
  <2>3. resetFailed \/ i \notin reached
    BY <2>1, <2>2 DEF Attributed
  <2>4. reached' = reached
    BY <1>8, ReadFrame DEF Read
  <2>. QED  BY <2>1, <2>3, <2>4 DEF Attributed
<1>9. CASE TakeSnapshot
  <2>1. /\ pc = "snapshot" /\ pc' = "account" /\ i' = i
        /\ UNCHANGED <<result, resetFailed, reached>>
    BY <1>9, ReadFrame DEF TakeSnapshot, Goto, Read, loopVars
  <2>. QED  BY <2>1 DEF Attributed
<1>10. CASE Account
  <2>1. pc' = "loop" /\ i' = i + 1 /\ reached' = reached
    BY <1>10, AccountCases, ReadFrame DEF Read
  <2>. QED  BY <2>1, EventNumbers DEF Attributed
<1>11. CASE CountPreExistingFails \/ ApplyPatchAndReconcileFails \/ TakeSnapshotFails
  BY <1>0, <1>11 DEF CountPreExistingFails, ApplyPatchAndReconcileFails,
                    TakeSnapshotFails
<1>12. CASE WorldStep
  <2>1. UNCHANGED <<pc, i, result, resetFailed, eventsBefore>>
    BY <1>12, WorldFrame
  <2>2. CASE dirty = {}
    BY <1>12, <2>1, <2>2, WorldQuiet DEF Attributed
  <2>3. CASE dirty # {}
    <3>1. pc = "wait" /\ dirty = {i} /\ eventsBefore <= recorded
      BY <2>3 DEF Counted
    <3>2. /\ tokens' <= tokens /\ Accepted' = Accepted + (tokens - tokens')
          /\ \/ reached' = reached
             \/ reached' = reached \cup {i} /\ (tokens > 0 => tokens' < tokens)
      BY <1>12, <3>1, WorldCounts
    <3>3. tokens' \in Nat /\ eventsBefore \in Int
      <4>1. Typed'
        BY TypedStep
      <4>. QED  BY <4>1, EventNumbers DEF Typed, EventType
    <3>4. reached' \subseteq 1..i
      <4>1. reached \subseteq 1..i /\ i \in 1..i
        BY EventNumbers DEF Attributed
      <4>. QED  BY <3>2, <4>1
    <3>5. tokens > 0 => tokens' > 0 \/ Accepted' > eventsBefore
      BY <3>1, <3>2, <3>3, EventNumbers
    <3>6. Accepted > eventsBefore => Accepted' > eventsBefore
      BY <3>2, <3>3, EventNumbers
    <3>7. resetFailed \/ tokens > 0 \/ Accepted > eventsBefore
      BY <3>1 DEF Attributed
    <3>8. tokens > 0 /\ tokens' < tokens => Accepted' > eventsBefore
      BY <3>1, <3>2, <3>3, EventNumbers
    <3>9. i \in reached' => resetFailed \/ Accepted' > eventsBefore
      <4>1. CASE reached' = reached
        BY <3>1, <3>6, <4>1 DEF Attributed
      <4>2. CASE tokens > 0 => tokens' < tokens
        BY <3>6, <3>7, <3>8, <4>2
      <4>. QED  BY <3>2, <4>1, <4>2
    <3>. QED  BY <2>1, <3>1, <3>4, <3>5, <3>6, <3>7, <3>9 DEF Attributed
  <2>. QED  BY <2>2, <2>3
<1>13. CASE UNCHANGED vars
  BY <1>13, WorldFrame, StutterFrame DEF Attributed, Accepted
<1>. QED
  BY <1>1, <1>2, <1>3, <1>4, <1>5, <1>6, <1>7, <1>8, <1>9, <1>10, <1>11, <1>12,
     <1>13, StepCases DEF Runner

LEMMA HonestStep ==
    ASSUME CallsSucceed
    PROVE  Typed /\ Counted /\ Attributed /\ NotEvidencedIsHonest /\ [Next]_vars
           => NotEvidencedIsHonest'
<1>. SUFFICES ASSUME Typed, Counted, Attributed, NotEvidencedIsHonest,
                     [Next]_vars
              PROVE  NotEvidencedIsHonest'
  OBVIOUS
<1>0. i \in Nat \ {0} /\ DOMAIN results = 1..(i - 1)
  BY ResultsCases
<1>1. reached' \subseteq reached \cup {i} /\ (~WorldStep => reached' = reached)
  <2>1. CASE WorldStep
    BY <2>1, WorldCounts DEF Counted
  <2>2. CASE ~WorldStep
    BY <2>2, StepCases, RunnerCases, ReadFrame, PatchFrame, RestartFrame,
       StutterFrame
  <2>. QED  BY <2>1, <2>2
<1>2. ASSUME NEW j \in DOMAIN results, "NotEvidenced" \in results'[j],
             "EvidenceUntrusted" \notin results'[j]
      PROVE  j \notin reached'
  <2>1. results'[j] = results[j] /\ j # i
    BY <1>0, ResultsCases
  <2>. QED  BY <1>1, <1>2, <2>1 DEF NotEvidencedIsHonest
<1>3. CASE i' = i /\ results' = results
  BY <1>2, <1>3 DEF NotEvidencedIsHonest
<1>4. CASE Skip
  <2>1. results'[i] = {"Skipped"} /\ DOMAIN results' = 1..i
    <3>1. ~Account /\ i' = i + 1
      <4>1. pc = "loop" /\ i' = i + 1
        BY <1>4 DEF Skip
      <4>. QED  BY <4>1, AccountCases
    <3>. QED  BY <1>0, <1>4, <3>1, ResultsCases
  <2>. QED  BY <1>0, <1>2, <2>1 DEF NotEvidencedIsHonest
<1>5. CASE Account
  <2>1. /\ pc = "account" /\ results'[i] = Stored
        /\ DOMAIN results' = 1..i
    BY <1>0, <1>5, ResultsCases, AccountCases
  <2>2. ASSUME "NotEvidenced" \in Stored, "EvidenceUntrusted" \notin Stored
        PROVE  i \notin reached'
    <3>1. "NotEvidenced" \in result
      BY <2>2, StoredFacts DEF Typed
    <3>2. "NoOp" \notin result /\ (resetFailed \/ i \notin reached)
      BY <2>1, <3>1 DEF Attributed
    <3>3. ~resetFailed
      BY <2>2, <3>2, StoredFacts DEF Typed
    <3>4. ~WorldStep
      BY <1>5, <2>1, AccountCases, WorldFrame
    <3>. QED  BY <1>1, <3>2, <3>3, <3>4
  <2>. QED  BY <1>0, <1>2, <2>1, <2>2 DEF NotEvidencedIsHonest
<1>. QED  BY <1>3, <1>4, <1>5, ResultsCases

\* A verdict of not-evidenced that is not marked untrusted is true: Update() never
\* carried the entry, for every sequence of retries, late events and restarts, as
\* long as the margin covers them.  The verdict never comes from an event that a
\* spent burst dropped.
THEOREM NotEvidencedIsHonestAlways ==
    ASSUME CallsSucceed, MarginCovers
    PROVE  Spec => []NotEvidencedIsHonest
<1>1. Init => Attributed /\ NotEvidencedIsHonest
  BY InitFacts DEF Attributed, NotEvidencedIsHonest
<1>2. Typed /\ Watched /\ Counted /\ Spent /\ Attributed /\ [Next]_vars
      => Attributed'
  BY AttributedStep
<1>3. Typed /\ Counted /\ Attributed /\ NotEvidencedIsHonest /\ [Next]_vars
      => NotEvidencedIsHonest'
  BY HonestStep
<1>4. Spec => []Counted
  BY CountedAlways
<1>5. Spec => []Spent
  BY SpentAlways
<1>. QED
  BY <1>1, <1>2, <1>3, <1>4, <1>5, TypedAlways, WatchedAlways, PTL DEF Spec

-----------------------------------------------------------------------------
(***************************************************************************)
(* Restarts.  Right after a restart the count has grown by no more than    *)
(* what was not listed yet, and it grows no further until a patch.         *)
(***************************************************************************)
Unspent == pc \in {"preReset", "loop", "begin"} \/ (pc = "account" /\ "NoOp" \in result)

Earned ==
    /\ attempts = 0 /\ Unspent => Accepted - eventBaseline <= MaxLag
    /\ pc = "reset" => attempts > 0

LEMMA EarnedStep ==
    ASSUME CallsSucceed, MaxLag < Ceiling
    PROVE  Typed /\ Watched /\ Counted /\ Earned /\ [Next]_vars => Earned'
<1>. SUFFICES ASSUME Typed, Watched, Counted, Earned, [Next]_vars PROVE Earned'
  OBVIOUS
<1>0. ~Fault("api") /\ ~Fault("count")
  BY DEF CallsSucceed, Fault
<1>1. CASE Skip \/ Begin \/ NoOp
  <2>1. /\ Unspent /\ pc' # "reset"
        /\ UNCHANGED <<attempts, eventBaseline>>
    BY <1>1 DEF Skip, Begin, NoOp, Finish, Goto, loopVars, Unspent
  <2>2. UNCHANGED <<recorded, inflight>>
    BY <1>1, ReadFrame DEF Read
  <2>. QED  BY <2>1, <2>2 DEF Earned, Accepted
<1>2. CASE CountPreExisting
  <2>1. /\ pc = "preRun" /\ pc' # "reset" /\ eventBaseline' = recorded
    BY <1>2 DEF CountPreExisting, Goto
  <2>2. UNCHANGED <<recorded, inflight>>
    BY <1>2, ReadFrame DEF Read
  <2>3. Accepted' = recorded
    BY <2>1, <2>2, EventNumbers DEF Counted, Accepted
  <2>. QED  BY <2>1, <2>3, EventNumbers DEF Earned
<1>3. CASE PreReset
  <2>1. /\ pc = "preReset" /\ pc' = "loop" /\ eventBaseline' = eventBaseline
        /\ eventBaseline \in Nat /\ Accepted = eventBaseline
    BY <1>3 DEF PreReset, Goto, Counted
  <2>2. Accepted' - eventBaseline' <= MaxLag
    BY <1>3, <2>1, RestartCounts, EventNumbers
  <2>. QED  BY <2>1, <2>2 DEF Earned
<1>4. CASE Reset
  <2>1. /\ pc = "reset" /\ pc' = "begin" /\ eventBaseline' = current
        /\ current \in Nat /\ Accepted - current <= MaxLag
    BY <1>4, EventNumbers DEF Reset, Goto, Counted
  <2>2. Accepted' - eventBaseline' <= MaxLag
    BY <1>4, <2>1, RestartCounts, EventNumbers
  <2>. QED  BY <2>1, <2>2 DEF Earned
<1>5. CASE Measure
  <2>1. UNCHANGED <<recorded, inflight>>
    BY <1>5, ReadFrame DEF Read
  <2>2. /\ pc = "loop" /\ UNCHANGED <<attempts, eventBaseline>>
        /\ pc' = "begin" \/ (pc' = "reset" /\ shouldReset(recorded))
    BY <1>0, <1>5 DEF Measure
  <2>3. ASSUME shouldReset(recorded) PROVE attempts > 0
    <3>1. eventBaseline \in Nat
      BY <2>2 DEF Counted
    <3>2. attempts = 0 => recorded - eventBaseline < Ceiling
      BY <2>2, <3>1, EventNumbers DEF Earned, Unspent
    <3>. QED  BY <2>3, <3>1, <3>2, EventNumbers DEF shouldReset
  <2>4. attempts = 0 => Accepted - eventBaseline <= MaxLag
    BY <2>2 DEF Earned, Unspent
  <2>. QED  BY <2>1, <2>2, <2>3, <2>4 DEF Earned, Unspent, Accepted
<1>6. CASE Abort \/ CountBefore \/ Patch \/ Reconciled \/ PollField
           \/ PollFieldFails \/ Evidenced \/ NotEvidenced \/ EvidenceUnchecked
           \/ Return
  BY <1>6 DEF Abort, CountBefore, Patch, Reconciled, PollField, PollFieldFails, Evidenced,
     NotEvidenced, EvidenceUnchecked, EvidenceVerdict, Return, Goto, Earned, Unspent
<1>7. CASE TakeSnapshot
  BY <1>7 DEF TakeSnapshot, Goto, Earned, Unspent, Watched
<1>8. CASE Account
  <2>1. /\ pc = "account" /\ pc' = "loop"
        /\ \/ "NoOp" \in result /\ attempts' = attempts
           \/ attempts' = attempts + 1
    BY <1>8, AccountCases
  <2>2. UNCHANGED <<recorded, inflight, eventBaseline>>
    BY <1>8, ReadFrame DEF Read, Account
  <2>3. CASE attempts' = attempts + 1
    BY <2>1, <2>3, EventNumbers DEF Earned
  <2>4. CASE "NoOp" \in result /\ attempts' = attempts
    BY <2>1, <2>2, <2>4 DEF Earned, Unspent, Accepted
  <2>. QED  BY <2>1, <2>3, <2>4
<1>9. CASE CountPreExistingFails \/ ApplyPatchAndReconcileFails \/ TakeSnapshotFails
  BY <1>0, <1>9 DEF CountPreExistingFails, ApplyPatchAndReconcileFails,
                    TakeSnapshotFails
<1>10. CASE WorldStep
  <2>1. UNCHANGED <<pc, result, attempts, eventBaseline>>
    BY <1>10, WorldFrame
  <2>2. Unspent => Accepted' = Accepted
    BY <1>10, WorldQuiet DEF Counted, Unspent
  <2>. QED  BY <2>1, <2>2 DEF Earned, Unspent
<1>11. CASE UNCHANGED vars
  BY <1>11, WorldFrame, StutterFrame DEF Earned, Unspent, Accepted
<1>. QED
  BY <1>1, <1>2, <1>3, <1>4, <1>5, <1>6, <1>7, <1>8, <1>9, <1>10, <1>11, StepCases
     DEF Runner

\* Between two restarts of the controller at least one patch was attempted: the
\* events that were not listed at a restart never add up to a reason for the next
\* one, and neither do skips and no-ops.
THEOREM RestartsAreEarnedAlways ==
    ASSUME CallsSucceed, MaxLag < Ceiling
    PROVE  Spec => RestartsAreEarned
<1>1. Init => Earned
  BY InitFacts DEF Earned, Unspent
<1>2. Typed /\ Watched /\ Counted /\ Earned /\ [Next]_vars => Earned'
  BY EarnedStep
<1>3. Earned => (Reset => attempts > 0)
  BY DEF Earned, Reset, Goto
<1>4. Earned /\ [Next]_vars => [Reset => attempts > 0]_vars
  BY <1>3
<1>5. Spec => []Counted
  BY CountedAlways
<1>. QED
  BY <1>1, <1>2, <1>4, <1>5, TypedAlways, WatchedAlways, PTL
     DEF Spec, RestartsAreEarned

=============================================================================
