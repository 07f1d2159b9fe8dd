------------------------------- MODULE RunTests -------------------------------
(***************************************************************************)
(* internal/runner/runner.go: RunTests, the field-test loop of the `run`   *)
(* command, against the provider's controller.  One entry at a time the    *)
(* runner patches a field, waits for the controller to reconcile, polls    *)
(* the observed value and compares the number of update events before and  *)
(* after; around that it rations the event burst of the controller by      *)
(* restarting it, watches the assert-unchanged fields and checks the       *)
(* container-clear credits.  The controller, the backend and the event     *)
(* pipeline are external: they are modelled by what src/ relies on.        *)
(***************************************************************************)
EXTENDS Integers, Sequences, FiniteSets, FiniteSetsExt

CONSTANTS
    Field,              \* the fields of spec.forProvider
    Value,              \* their values, Absent among them
    Absent,             \* the value of a field that is not there
    Empty,              \* an empty list or map
    Unreadable,         \* a field below something that is no JSON object
    Above,              \* the containers a field lies in
    Backend,            \* what the backend stores for a value it is sent
    Tests,              \* manifest.Tests: a sequence of entries
    AssertUnchanged,    \* manifest.AssertUnchanged
    Credited,           \* the representatives validate credits to a sibling
    Route,              \* and the route it credits each of them by
    InitSpecs,          \* the values spec.forProvider may start with
    PreExisting,        \* how many update events may predate the run
    Ceiling,            \* eventBurstCeiling()
    Burst,              \* the events one controller process can record
    MaxEvents,          \* bound: events of one Update() with its retries
    MaxLag,             \* bound: recorded events a LIST does not show yet
    Faults              \* what may go wrong outside the runner

Readable == Value \ {Unreadable}
Container == UNION {Above[f] : f \in Field}

Entry == [field : Field, value : Readable, expect : Readable, skip : BOOLEAN,
          clear : SUBSET (Field \cup Container),
          withValues : UNION {[S -> Readable] : S \in SUBSET Field}]

ClearRoute == {"sibling clear", "sibling withValues", "ancestor tombstone"}

FaultKind == {"api", "count", "restart", "update", "refuse", "backend"}

\* A rule of the manifest parser: a skipped entry patches nothing.
ASSUME RunTestsAssumption ==
    /\ Tests \in Seq(Entry)
    /\ \A j \in DOMAIN Tests :
          Tests[j].skip => Tests[j].clear = {} /\ DOMAIN Tests[j].withValues = {}
    /\ {Absent, Empty, Unreadable} \subseteq Value
    /\ Unreadable \notin {Absent, Empty}
    /\ Route \in [Credited -> ClearRoute]
    /\ Backend \in [Value -> Value]
    /\ AssertUnchanged \subseteq Field
    /\ Credited \subseteq Field
    /\ InitSpecs \subseteq [Field -> Value]
    /\ Ceiling \in Nat \ {0}
    /\ Burst \in Nat \ {0}
    /\ PreExisting \subseteq 0..Burst
    /\ MaxEvents \in Nat \ {0}
    /\ MaxLag \in Nat
    /\ Faults \subseteq FaultKind

VARIABLES
    \* the runner
    pc,             \* where RunTests is
    i,              \* the entry of the loop's iteration
    result,         \* the flags of the TestResult being built
    results,        \* the finished TestResults
    attempts,       \* attemptsSinceReset
    eventBaseline,  \* eventBaseline, Unknown while !haveEventBaseline
    current,        \* the count measured at the top of the loop
    eventsBefore,   \* the count measured before the patch
    resetFailed,
    snapshot,       \* the observed values, and the entry they were read after
    baselines,      \* the observed values when the run started
    violations,     \* drifts reported: field, afterField's entry
    checked,        \* the clear credits checked, and what was found
    consumedClear,
    unproven,       \* the representatives of unprovenClear
    \* the controller, the backend and the event pipeline
    spec,           \* spec.forProvider
    mirror,         \* status.atProvider
    dirty,          \* entries patched and not yet reconciled
    recorded,       \* the update events a LIST shows
    inflight,       \* the events accepted by the recorder but not listed yet
    tokens,         \* what is left of this process's burst
    \* history
    reached,        \* the entries whose patch an Update() call carried
    movedBy         \* for each field, the entries whose Update() first lost it

loopVars == <<attempts, eventBaseline, current, resetFailed>>
assertVars == <<baselines, violations, checked, consumedClear, unproven>>
runnerVars == <<pc, i, result, results, eventsBefore, snapshot, loopVars,
                assertVars>>
eventVars == <<recorded, inflight, tokens>>
worldVars == <<spec, mirror, dirty, eventVars, reached, movedBy>>
vars == <<runnerVars, worldVars>>

Unknown == -1

Flag == {"Skipped", "NoOp", "Passed", "UpdateEvidenced", "NotEvidenced",
         "EvidenceUntrusted", "Error"}

PC == {"preRun", "preReset", "loop", "reset", "begin", "count", "patch",
       "wait", "poll", "evidence", "snapshot", "account", "done", "aborted"}

Running == pc \notin {"done", "aborted"}
Fault(kind) == kind \in Faults
test == Tests[i]

-----------------------------------------------------------------------------
(***************************************************************************)
(* clear_assert.go: which entry lends each credited representative its     *)
(* proof.  The bookkeeping is keyed by the entry's FIELD.                  *)
(***************************************************************************)
Tombstones(t) == {f \in Field : ({f} \cup Above[f]) \cap t.clear # {}}

Empties(t) == {f \in DOMAIN t.withValues : t.withValues[f] = Empty}

Lenders(rep) ==
    {j \in DOMAIN Tests :
        rep \in IF Route[rep] = "sibling withValues" THEN Empties(Tests[j])
               ELSE Tombstones(Tests[j])}

triggerFieldFor(rep) == Tests[Min(Lenders(rep))].field

pendingClear(f) ==
    {rep \in Credited : Lenders(rep) # {} /\ triggerFieldFor(rep) = f}

NoTrigger == {rep \in Credited : Lenders(rep) = {}}

clearedValue(v) == v \in {Absent, Empty}

\* Seeded fault: the field's first entry settles the credit.
ChecksOnce(snap, f, entry) ==
    {[rep |-> rep, entry |-> entry, at |-> snap.at,
      cleared |-> clearedValue(snap.values[rep])] :
        rep \in {r \in pendingClear(f) :
                   f \notin consumedClear /\ snap.values[r] # Unreadable}}

\* A representative that cannot be read is not checked.
Checks(snap, f, entry) ==
    {[rep |-> rep, entry |-> entry, at |-> snap.at,
      cleared |-> clearedValue(snap.values[rep])] :
        rep \in {r \in pendingClear(f) : snap.values[r] # Unreadable}}

(***************************************************************************)
(* assert_unchanged.go: the fields that moved and were not reported yet.   *)
(***************************************************************************)
violatedFields == {v.field : v \in violations}

\* Seeded fault: a field that is gone is taken for one that has not moved.
DriftsOfPresentFields(snap, entry) ==
    {[field |-> f, after |-> entry] :
        f \in {g \in AssertUnchanged \ violatedFields :
                   snap.values[g] \notin {Absent, Unreadable, baselines[g]}}}

Drifts(snap, entry) ==
    {[field |-> f, after |-> entry] :
        f \in {g \in AssertUnchanged \ violatedFields :
                   snap.values[g] \notin {Unreadable, baselines[g]}}}

\* Seeded fault: what cannot be read is passed over.
ReadFailsQuietly(snap, f) == FALSE

\* One of the two checks could not read a field of the snapshot.
ReadFails(snap, f) ==
    \E g \in (AssertUnchanged \ violatedFields) \cup pendingClear(f) :
        snap.values[g] = Unreadable

-----------------------------------------------------------------------------

Init ==
    /\ pc = "preRun" /\ i = 1
    /\ result = {} /\ results = << >>
    /\ attempts = 0 /\ eventBaseline = Unknown /\ current = Unknown
    /\ eventsBefore = Unknown /\ resetFailed = FALSE
    /\ violations = {} /\ checked = {} /\ consumedClear = {}
    /\ unproven = NoTrigger
    /\ spec \in InitSpecs
    /\ mirror = [f \in Field |-> Backend[spec[f]]]
    /\ baselines = mirror
    /\ snapshot = [values |-> mirror, at |-> 0]
    /\ dirty = {} /\ reached = {}
    /\ movedBy = [f \in Field |-> {}]
    /\ recorded \in PreExisting
    /\ inflight = 0
    /\ tokens \in {Burst - recorded, Burst}

Goto(from, to) == pc = from /\ pc' = to

(***************************************************************************)
(* RunTests before the loop.                                               *)
(***************************************************************************)
Gone(v) == v \in {Absent, Unreadable}

\* The initial snapshot fails, or an assert-unchanged field is not in it.
Abort ==
    /\ Goto("preRun", "aborted")
    /\ Fault("api") \/ \E f \in AssertUnchanged : Gone(baselines[f])
    /\ UNCHANGED <<i, result, results, eventsBefore, snapshot, loopVars,
                   assertVars, worldVars>>

\* Settling events of the creation may have spent the burst already.
CountPreExisting ==
    /\ \A f \in AssertUnchanged : ~Gone(baselines[f])
    /\ Goto("preRun", IF recorded >= Ceiling THEN "preReset" ELSE "loop")
    /\ eventBaseline' = recorded
    /\ UNCHANGED <<i, result, results, eventsBefore, snapshot, attempts,
                   current, resetFailed, assertVars, worldVars>>

CountPreExistingFails ==
    /\ Fault("count")
    /\ \A f \in AssertUnchanged : ~Gone(baselines[f])
    /\ Goto("preRun", "loop")
    /\ UNCHANGED <<i, result, results, eventsBefore, snapshot, loopVars,
                   assertVars, worldVars>>

(***************************************************************************)
(* resetEventBurst.  A new process starts with a whole burst; the events   *)
(* the old one still had queued may be lost.  When the restart fails, the  *)
(* process may or may not have been replaced.                              *)
(***************************************************************************)
Restarted ==
    /\ tokens' = Burst
    /\ inflight' \in 0..inflight
    /\ UNCHANGED <<recorded, spec, mirror, dirty, reached, movedBy>>

\* Seeded fault: the failure of a restart is not remembered.
resetEventBurstForgiving ==
    /\ Restarted \/ (Fault("restart") /\ UNCHANGED worldVars)
    /\ UNCHANGED resetFailed

resetEventBurst ==
    \/ Restarted /\ UNCHANGED resetFailed
    \/ /\ Fault("restart")
       /\ resetFailed' = TRUE
       /\ Restarted \/ UNCHANGED worldVars

PreReset ==
    /\ Goto("preReset", "loop")
    /\ resetEventBurst
    /\ UNCHANGED <<i, result, results, eventsBefore, snapshot, attempts,
                   eventBaseline, current, assertVars>>

(***************************************************************************)
(* The top of the loop.                                                    *)
(***************************************************************************)
Skip ==
    /\ pc = "loop" /\ i <= Len(Tests) /\ test.skip
    /\ results' = Append(results, {"Skipped"})
    /\ i' = i + 1
    /\ UNCHANGED <<pc, result, eventsBefore, snapshot, loopVars, assertVars,
                   worldVars>>

\* Seeded fault: each attempt is taken for one event.
shouldResetByAttempts(cur) == attempts >= Ceiling

\* shouldReset, when the count is cur or could not be established.
shouldReset(cur) ==
    \/ attempts >= Ceiling
    \/ /\ cur # Unknown /\ eventBaseline # Unknown
       /\ cur - eventBaseline >= Ceiling

Measure ==
    /\ pc = "loop" /\ i <= Len(Tests) /\ ~test.skip
    /\ \E cur \in {recorded} \cup (IF Fault("count") THEN {Unknown} ELSE {}) :
          IF shouldReset(cur)
          THEN pc' = "reset" /\ current' = cur
          ELSE pc' = "begin" /\ UNCHANGED current
    /\ UNCHANGED <<i, result, results, eventsBefore, snapshot, attempts,
                   eventBaseline, resetFailed, assertVars, worldVars>>

\* Seeded fault: the baseline of the measured growth stays.
ResetOldBaseline ==
    /\ Goto("reset", "begin")
    /\ resetEventBurst
    /\ attempts' = 0
    /\ current' = Unknown
    /\ UNCHANGED <<i, result, results, eventsBefore, snapshot, eventBaseline,
                   assertVars>>

Reset ==
    /\ Goto("reset", "begin")
    /\ resetEventBurst
    /\ attempts' = 0
    /\ eventBaseline' = IF current = Unknown THEN eventBaseline ELSE current
    /\ current' = Unknown
    /\ UNCHANGED <<i, result, results, eventsBefore, snapshot, assertVars>>

(***************************************************************************)
(* runFieldTest.                                                           *)
(***************************************************************************)

\* The end of runFieldTest with the given flags; the snapshot stays.
Finish(flags) ==
    /\ pc' = "account"
    /\ result' = flags
    /\ UNCHANGED <<i, results, eventsBefore, snapshot, loopVars, assertVars>>

\* readCurrentValue: what the patch overwrites, or else what is observed.
readCurrentValue(f) == IF Gone(spec[f]) THEN mirror[f] ELSE spec[f]

NoOp ==
    /\ pc = "begin"
    /\ readCurrentValue(test.field) = test.value
    /\ Finish({"NoOp", "Error"})
    /\ UNCHANGED worldVars

\* The value differs, or could not be read: the test goes ahead.
Begin ==
    /\ Goto("begin", "count")
    /\ readCurrentValue(test.field) # test.value \/ Fault("api")
    /\ UNCHANGED <<i, result, results, eventsBefore, snapshot, loopVars,
                   assertVars, worldVars>>

CountBefore ==
    /\ Goto("count", "patch")
    /\ eventsBefore' \in
          {recorded} \cup (IF Fault("count") THEN {Unknown} ELSE {})
    /\ UNCHANGED <<i, result, results, snapshot, loopVars, assertVars,
                   worldVars>>

\* One merge patch sets the field and its withValues and nulls the clear list.
Patched(s, t) ==
    [f \in Field |-> IF f = t.field THEN t.value
                     ELSE IF f \in DOMAIN t.withValues THEN t.withValues[f]
                     ELSE IF f \in Tombstones(t) THEN Absent ELSE s[f]]

Patch ==
    /\ Goto("patch", "wait")
    /\ spec' = Patched(spec, test)
    /\ dirty' = dirty \cup {i}
    /\ UNCHANGED <<i, result, results, eventsBefore, snapshot, loopVars,
                   assertVars, mirror, eventVars, reached, movedBy>>

\* Ready and Synced at the current generation, after two forced reconciles.
Reconciled ==
    /\ Goto("wait", "poll")
    /\ dirty = {}
    /\ UNCHANGED <<i, result, results, eventsBefore, snapshot, loopVars,
                   assertVars, worldVars>>

\* The patch is refused, or the wait for the reconciles fails or times out.
ApplyPatchAndReconcileFails ==
    /\ pc \in {"patch", "wait"}
    /\ Fault("api")
    /\ Finish({"Error"})
    /\ UNCHANGED worldVars

\* pollField reads the field until it matches or the timeout is over: the
\* observed value does not change any more once the reconcile is through.
PollField ==
    /\ Goto("poll", "evidence")
    /\ mirror[test.field] # Unreadable
    /\ result' = IF mirror[test.field] = test.expect THEN {"Passed"} ELSE {}
    /\ UNCHANGED <<i, results, eventsBefore, snapshot, loopVars, assertVars,
                   worldVars>>

PollFieldFails ==
    /\ Goto("poll", "evidence")
    /\ Fault("api") \/ mirror[test.field] = Unreadable
    /\ result' = {"Error"} \cup (IF test.expect = Absent THEN {"Passed"} ELSE {})
    /\ UNCHANGED <<i, results, eventsBefore, snapshot, loopVars, assertVars,
                   worldVars>>

(***************************************************************************)
(* applyEvidenceCheck: recount until the count has grown or the window of  *)
(* evidenceRetryWindow is over.  The window outlasts the lag of the event  *)
(* pipeline: no event is in flight any more when it ends.                  *)
(***************************************************************************)
EvidenceVerdict(flags) ==
    /\ Goto("evidence", "snapshot")
    /\ result' = flags
    /\ eventsBefore' = Unknown
    /\ UNCHANGED <<i, results, snapshot, loopVars, assertVars, worldVars>>

Evidenced ==
    /\ eventsBefore # Unknown /\ recorded > eventsBefore
    /\ EvidenceVerdict(result \cup {"UpdateEvidenced"})

\* Seeded fault: a matching value without an event stays a pass.
NotEvidencedPasses ==
    /\ eventsBefore # Unknown /\ recorded <= eventsBefore /\ inflight = 0
    /\ EvidenceVerdict(result)

NotEvidenced ==
    /\ eventsBefore # Unknown /\ recorded <= eventsBefore /\ inflight = 0
    /\ EvidenceVerdict(IF "Passed" \in result
                       THEN (result \ {"Passed"}) \cup {"NotEvidenced", "Error"}
                       ELSE result)

EvidenceUnchecked ==
    /\ eventsBefore = Unknown \/ Fault("count")
    /\ EvidenceVerdict(result \cup {"Error"})

TakeSnapshot ==
    /\ Goto("snapshot", "account")
    /\ snapshot' = [values |-> mirror, at |-> i]
    /\ UNCHANGED <<i, result, results, eventsBefore, loopVars, assertVars,
                   worldVars>>

\* Seeded fault: the error of the post-update snapshot is swallowed.
TakeSnapshotFailsQuietly ==
    /\ pc = "snapshot"
    /\ Fault("api")
    /\ Finish(result)
    /\ UNCHANGED worldVars

TakeSnapshotFails ==
    /\ pc = "snapshot"
    /\ Fault("api")
    /\ Finish(result \cup {"Error"})
    /\ UNCHANGED worldVars

(***************************************************************************)
(* RunTests after runFieldTest: the result is stored, and unless it was a  *)
(* no-op, whatever snapshot runFieldTest handed back is checked against    *)
(* the baselines and against the credits pending under the entry's field.  *)
(* A field that cannot be read fails the entry; its credits are consumed.  *)
(***************************************************************************)
Untrusted(flags) ==
    IF resetFailed /\ "NoOp" \notin flags
    THEN flags \cup {"EvidenceUntrusted"}
    ELSE flags

Misread ==
    IF "NoOp" \notin result /\ ReadFails(snapshot, test.field) THEN {"Error"} ELSE {}

Account ==
    /\ Goto("account", "loop")
    /\ results' = Append(results, Untrusted(result \cup Misread))
    /\ i' = i + 1
    /\ result' = {}
    /\ eventsBefore' = Unknown
    /\ IF "NoOp" \in result
       THEN UNCHANGED <<attempts, assertVars>>
       ELSE /\ attempts' = attempts + 1
            /\ violations' = violations \cup Drifts(snapshot, i)
            /\ checked' = checked \cup Checks(snapshot, test.field, i)
            /\ consumedClear' = consumedClear \cup {test.field}
            /\ UNCHANGED <<baselines, unproven>>
    /\ UNCHANGED <<snapshot, eventBaseline, current, resetFailed, worldVars>>

\* Credits whose lender's field the loop never checked are unproven.
Return ==
    /\ i > Len(Tests)
    /\ Goto("loop", "done")
    /\ unproven' = unproven \cup
          UNION {pendingClear(f) : f \in Field \ consumedClear}
    /\ UNCHANGED <<i, result, results, eventsBefore, snapshot, loopVars,
                   baselines, violations, checked, consumedClear, worldVars>>

-----------------------------------------------------------------------------
(***************************************************************************)
(* The controller.  It reconciles what was patched: when the backend       *)
(* differs from the spec it calls Update(), which emits events, and        *)
(* observes the outcome; otherwise it does nothing.                        *)
(***************************************************************************)
Patches(entries) ==
    UNION {{Tests[j].field} \cup Tombstones(Tests[j]) \cup DOMAIN Tests[j].withValues :
              j \in entries}

UpToDate(entries) == \A f \in Patches(entries) : mirror[f] = Backend[spec[f]]

\* The event recorder drops what exceeds the burst; up to MaxLag of the
\* accepted events are not listed at once.
Emit(n) ==
    LET accepted == Min({n, tokens})
    IN  /\ tokens' = tokens - accepted
        /\ \E late \in 0..Min({accepted, MaxLag - inflight}) :
              /\ inflight' = inflight + late
              /\ recorded' = recorded + accepted - late

\* Update() with the events of its failed tries.  A faulty backend or
\* controller drops one patched field, or loses one it was not asked about:
\* with its parent gone the one reads as absent, with the parent null not at all.
Update ==
    /\ dirty # {} /\ ~UpToDate(dirty)
    /\ \E n \in 1..MaxEvents : Emit(n)
    /\ \E drop, lose \in {{}} \cup
             (IF Fault("backend") THEN {{f} : f \in Field} ELSE {}) :
          \E gone \in {Absent, Unreadable} :
          /\ drop \subseteq Patches(dirty) /\ lose \cap Patches(dirty) = {}
          /\ mirror' = [f \in Field |->
                IF f \in lose THEN gone
                ELSE IF f \in drop /\ gone = Unreadable THEN gone
                ELSE IF f \in Patches(dirty) \ drop THEN Backend[spec[f]]
                ELSE mirror[f]]
          /\ movedBy' = [f \in Field |->
                IF f \in lose /\ movedBy[f] = {} THEN dirty ELSE movedBy[f]]
    /\ reached' = reached \cup dirty
    /\ dirty' = {}
    /\ UNCHANGED spec

\* Update() keeps failing: CannotUpdateExternalResource, and no Synced.
UpdateFails ==
    /\ Fault("update")
    /\ dirty # {} /\ ~UpToDate(dirty)
    /\ Emit(1)
    /\ reached' = reached \cup dirty
    /\ UNCHANGED <<spec, mirror, dirty, movedBy>>

\* Nothing to do, or a controller that does not see that there is.
NoUpdate ==
    /\ dirty # {}
    /\ UpToDate(dirty) \/ Fault("refuse")
    /\ dirty' = {}
    /\ UNCHANGED <<spec, mirror, eventVars, reached, movedBy>>

\* An accepted event appears in the list.
EventListed ==
    /\ inflight > 0
    /\ inflight' = inflight - 1
    /\ recorded' = recorded + 1
    /\ UNCHANGED <<spec, mirror, dirty, tokens, reached, movedBy>>

-----------------------------------------------------------------------------

Runner ==
    \/ Abort \/ CountPreExisting \/ CountPreExistingFails \/ PreReset
    \/ Skip \/ Measure \/ Reset
    \/ NoOp \/ Begin \/ CountBefore \/ Patch
    \/ Reconciled \/ ApplyPatchAndReconcileFails
    \/ PollField \/ PollFieldFails
    \/ Evidenced \/ NotEvidenced \/ EvidenceUnchecked
    \/ TakeSnapshot \/ TakeSnapshotFails
    \/ Account \/ Return

World == Running /\ (Update \/ UpdateFails \/ NoUpdate \/ EventListed)

Next == Runner \/ (World /\ UNCHANGED runnerVars)

Spec == Init /\ [][Next]_vars

-----------------------------------------------------------------------------
(***************************************************************************)
(* Properties.                                                             *)
(***************************************************************************)

\* Every variable has the shape the code gives it.
TypeOK ==
    /\ pc \in PC
    /\ i \in 1..(Len(Tests) + 1)
    /\ result \subseteq Flag
    /\ results \in Seq(SUBSET Flag) /\ Len(results) = i - 1
    /\ attempts \in 0..Len(Tests)
    /\ {eventBaseline, current, eventsBefore} \subseteq Nat \cup {Unknown}
    /\ resetFailed \in BOOLEAN
    /\ snapshot \in [values : [Field -> Value], at : 0..Len(Tests)]
    /\ baselines \in [Field -> Value]
    /\ violations \subseteq [field : AssertUnchanged, after : DOMAIN Tests]
    /\ checked \subseteq [rep : Credited, entry : DOMAIN Tests,
                          at : 0..Len(Tests), cleared : BOOLEAN]
    /\ consumedClear \subseteq Field
    /\ unproven \subseteq Credited
    /\ {spec, mirror} \subseteq [Field -> Value]
    /\ {dirty, reached} \subseteq SUBSET DOMAIN Tests
    /\ recorded \in Nat /\ inflight \in 0..MaxLag /\ tokens \in 0..Burst
    /\ movedBy \in [Field -> SUBSET DOMAIN Tests]

Tested(j) == "Skipped" \notin results[j]

\* printResults: a result that does not count as failed.
Good(flags) ==
    \/ "Skipped" \in flags
    \/ /\ "Passed" \in flags
       /\ {"NoOp", "EvidenceUntrusted", "NotEvidenced", "Error"} \cap flags = {}

\* cmdRun: the verdict that makes the command succeed.
Clean ==
    /\ pc = "done"
    /\ \A j \in DOMAIN results : Good(results[j])
    /\ violations = {}
    /\ \A c \in checked : c.cleared
    /\ unproven = {}

\* A clean run means that the provider's Update() carried every tested entry,
\* whatever failed on the way: an entry whose value was there without Update()
\* never passes.  (With events that are listed in time, see EvidenceIsOwn.)
CleanRunExercisedUpdate ==
    Clean => \A j \in DOMAIN results : Tested(j) => j \in reached

\* A recorded event proves that Update() carried this very entry.
EvidenceIsOwn ==
    \A j \in DOMAIN results : "UpdateEvidenced" \in results[j] => j \in reached

\* A verdict of not-evidenced that is not marked untrusted is true: it never
\* comes from an event that the spent burst of the controller dropped.
NotEvidencedIsHonest ==
    \A j \in DOMAIN results :
        /\ "NotEvidenced" \in results[j]
        /\ "EvidenceUntrusted" \notin results[j]
        => j \notin reached

\* As long as no reset failed, a patch is only issued to a controller that can
\* still record an event for it.
HeadroomBeforePatch == pc = "patch" /\ ~resetFailed => tokens > 0

\* A clean run checked every credited representative on a snapshot taken after
\* the patch of the entry that lends the credit, and found it cleared.
CleanRunProvesCredits ==
    Clean => \A rep \in Credited : \E c \in checked :
        c.rep = rep /\ c.cleared /\ c.entry \in Lenders(rep) /\ c.at = c.entry

\* An entry of the credit's trigger field failed, so that the run is not clean.
TriggerFailed(rep) ==
    \E j \in DOMAIN results :
        /\ Tests[j].field = triggerFieldFor(rep)
        /\ "Error" \in results[j] /\ "NoOp" \notin results[j]

\* When RunTests returns, a credit reported as unproven was never judged, and every
\* other one was judged, or lost to the error of an entry of its trigger field.
CreditAccounting ==
    pc = "done" => \A rep \in Credited :
        LET judged == \E c \in checked : c.rep = rep
        IN  IF rep \in unproven THEN ~judged ELSE judged \/ TriggerFailed(rep)

\* A credit is reported as refuted only after an entry whose own patch claims it.
\* (Two entries for one field, and it is not: see MCRunTestsTwoEntries.cfg.)
RefutedByItsLender ==
    \A c \in checked : ~c.cleared => c.entry \in Lenders(c.rep)

\* A clean run saw no assert-unchanged field move under any of its patches.
CleanRunSawNoDrift == Clean => \A f \in AssertUnchanged : movedBy[f] = {}

\* A reported drift is attributed to the entry whose patch moved the field,
\* and a field is reported once.
DriftBlamesItsMover ==
    \A v \in violations :
        /\ v.after \in movedBy[v.field]
        /\ \A w \in violations : w.field = v.field => w = v

\* Between two restarts of the controller at least one patch was attempted: the
\* loop never restarts twice for the same growth of the count.
RestartsAreEarned == [][Reset => attempts > 0]_vars

=============================================================================
