------------------------------- MODULE Converge -------------------------------
(***************************************************************************)
(* internal/runner/converge.go: RunConverge on one resource.  convergeArm  *)
(* waits for the resource and the controller to settle and records a       *)
(* baseline; after a window of one and a half poll intervals               *)
(* convergeAssert compares.  A restart of the controller discards the      *)
(* window.  The controller goes on reconciling all the while.              *)
(*                                                                         *)
(* What is observed is only ever compared with the baseline, so "changed"  *)
(* records what differs from it.  Time is in ticks, of which two make a    *)
(* poll interval in the instances.                                         *)
(***************************************************************************)
EXTENDS Integers

CONSTANTS
    PollInterval,
    Providers       \* the kinds of provider, and of cluster, considered

\* A controller that calls Update() in every reconcile, has a Synced condition,
\* runs with --debug, is rolled out, is killed; a cluster where other pods match
\* the log's selector, or where an event may be listed only after a later count; a
\* manifest that declares ready conditions other than Ready.
Trait == {"looping", "synced", "debug", "rolled out", "killed", "crowded",
          "late events", "declared"}

ASSUME ConvergeAssumption ==
    /\ PollInterval \in Nat \ {0}
    /\ Providers \subseteq SUBSET Trait

VARIABLES
    pc,         \* where RunConverge is
    verdict,    \* the ConvergeResult, by its message
    restarts,   \* restarts of convergeAssertAttempt
    notes,      \* convergeBaseline.Notes, then the log's
    problems,   \* what buildConvergeResult will list
    elapsed,    \* ticks since convergeBaseline.ArmedAt
    changed,    \* what differs from the convergeBaseline
    provider,   \* the traits of the provider under test
    object,     \* the resource's conditions, and whether an Update() is owed
    pending,    \* an accepted event that is not listed yet
    aged,       \* the pod has passed controllerPodSettleThreshold
    starting,   \* the process has yet to reconcile everything once
    lastCall,   \* ticks since the last Update() in the log, as far as it is read
    sincePoll,  \* ticks since the last reconcile
    causes,     \* history: what happened since the snapshot
    unseen      \* history: a restart that the pod's identity did not tell

runnerVars == <<pc, verdict, restarts, notes, problems>>
controllerVars == <<provider, object, pending, aged, starting>>
historyVars == <<causes, unseen>>
vars == <<runnerVars, elapsed, changed, controllerVars, lastCall, sincePoll,
          historyVars>>

convergeMaxRestartRetries == 2

convergeWait == PollInterval + PollInterval \div 2

\* The states of the runner: convergeArm, the sleep, convergeAssertAttempt.
Arming == {"settle", "sync", "ready", "pod", "snapshot", "events"}
Comparing == {"snapshot2", "events2", "object2", "log"}
PC == Arming \cup {"armed", "identity"} \cup Comparing \cup {"done"}

Verdict == {"none", "skipped", "stable", "loop", "unsteady", "inconclusive",
            "error"}
RestartNote == <<"first restart", "second restart">>
Note == {"readiness", "log unavailable", "log silent"}
            \cup {RestartNote[n] : n \in 1..convergeMaxRestartRetries}
Problem == {"atProvider", "events", "calls", "generation", "readiness"}

\* What may happen since the snapshot besides updates.
Cause == {"coming up", "flap", "late init"}

Part == {"pod", "generation", "atProvider", "events"}
NothingChanged == [part \in Part |-> FALSE]

Never == -1     \* no Update() in the last convergeWait ticks of the log
Ages == {Never} \cup 0..convergeWait

Init ==
    /\ pc = "settle" /\ verdict = "none"
    /\ restarts = 0 /\ notes = {} /\ problems = {}
    /\ elapsed = 0
    /\ changed = NothingChanged
    /\ provider \in Providers
    /\ object \in {[observed |-> FALSE, synced |-> FALSE, owed |-> o,
                    ready |-> "not yet"] : o \in BOOLEAN}
    /\ object.owed => "looping" \notin provider    \* which owes one always
    /\ pending = FALSE
    /\ aged \in BOOLEAN /\ starting = ~aged
    /\ lastCall = Never /\ sincePoll = 0
    /\ causes = {} /\ unseen = FALSE

Goto(from, to) == pc = from /\ pc' = to

End(v) == pc' = "done" /\ verdict' = v

-----------------------------------------------------------------------------
(***************************************************************************)
(* convergeArm.  Each wait has a deadline, so it may end without what it   *)
(* waits for at any time.                                                  *)
(***************************************************************************)
otherVars == <<elapsed, controllerVars, lastCall, sincePoll>>

Skip ==
    /\ pc = "settle" /\ restarts = 0
    /\ End("skipped")
    /\ UNCHANGED <<restarts, notes, problems, changed, otherVars,
                   historyVars>>

waitGenerationSettled ==
    /\ pc = "settle"
    /\ \/ object.observed /\ pc' = "sync" /\ UNCHANGED verdict
       \/ End("unsteady")
    /\ UNCHANGED <<restarts, notes, problems, changed, otherVars,
                   historyVars>>

\* waitSynced.  A reconciler without the condition is not waited for.
Synced == "synced" \in provider => object.observed /\ object.synced

\* The generation seen here is the one of the baseline.
waitSynced ==
    /\ pc = "sync"
    /\ \/ Synced /\ pc' = "ready" /\ UNCHANGED verdict
       \/ End("unsteady")
    /\ UNCHANGED <<restarts, notes, problems, changed, otherVars,
                   historyVars>>

\* Here it is always the condition Ready that counts, in GetObject the declared
\* ones, which are what object.ready holds.
waitReady ==
    /\ Goto("ready", "pod")
    /\ \/ ("declared" \in provider \/ object.ready = "yes") /\ UNCHANGED notes
       \/ notes' = notes \cup {"readiness"}
    /\ UNCHANGED <<verdict, restarts, problems, changed, otherVars,
                   historyVars>>

\* The pod's identity is read here.
waitControllerPodSettled ==
    /\ pc = "pod"
    /\ \/ aged /\ pc' = "snapshot" /\ UNCHANGED verdict
       \/ End("unsteady")
    /\ UNCHANGED <<restarts, notes, problems, changed, otherVars,
                   historyVars>>

\* recordConvergeBaseline is two calls; ArmedAt is the time after the second.
Snapshot ==
    /\ Goto("snapshot", "events")
    /\ UNCHANGED <<verdict, restarts, notes, problems, changed, otherVars,
                   historyVars>>

CountEvents ==
    /\ Goto("events", "armed")
    /\ UNCHANGED <<verdict, restarts, notes, problems, changed,
                   otherVars, historyVars>>

-----------------------------------------------------------------------------
(***************************************************************************)
(* The window, and convergeAssertAttempt.                                  *)
(***************************************************************************)

\* Seeded fault: the window of a second measurement is not waited for.
WakeAtOnce ==
    /\ restarts = 0 => elapsed = convergeWait
    /\ Goto("armed", "identity")
    /\ UNCHANGED <<verdict, restarts, notes, problems, changed,
                   otherVars, historyVars>>

Wake ==
    /\ elapsed = convergeWait
    /\ Goto("armed", "identity")
    /\ UNCHANGED <<verdict, restarts, notes, problems, changed,
                   otherVars, historyVars>>

\* Seeded fault: the pod is not compared.
SamePodAlways ==
    /\ Goto("identity", "snapshot2")
    /\ UNCHANGED <<verdict, restarts, notes, problems, changed,
                   otherVars, historyVars>>

SamePod ==
    /\ ~changed.pod
    /\ Goto("identity", "snapshot2")
    /\ UNCHANGED <<verdict, restarts, notes, problems, changed,
                   otherVars, historyVars>>

\* What was found out about the old baseline is void.
Discard ==
    /\ changed' = NothingChanged
    /\ elapsed' = 0
    /\ lastCall' = Never /\ sincePoll' = 0
    /\ causes' = {} /\ unseen' = FALSE
    /\ UNCHANGED <<problems, controllerVars>>

\* Seeded fault: the notes of the fresh baseline replace the old ones.
RearmForgetful ==
    /\ changed.pod /\ restarts < convergeMaxRestartRetries
    /\ Goto("identity", "settle")
    /\ restarts' = restarts + 1
    /\ notes' = {RestartNote[restarts + 1]}
    /\ Discard
    /\ UNCHANGED verdict

\* The window is discarded, convergeArm is run again, the old notes kept.
Rearm ==
    /\ changed.pod /\ restarts < convergeMaxRestartRetries
    /\ Goto("identity", "settle")
    /\ restarts' = restarts + 1
    /\ notes' = notes \cup {RestartNote[restarts + 1]}
    /\ Discard
    /\ UNCHANGED verdict

Inconclusive ==
    /\ pc = "identity"
    /\ changed.pod /\ restarts >= convergeMaxRestartRetries
    /\ End("inconclusive")
    /\ UNCHANGED <<restarts, notes, problems, changed, otherVars,
                   historyVars>>

Found(p, here) == problems' = problems \cup (IF here THEN {p} ELSE {})

\* recordConvergeOutcome is three calls.
SnapshotAfter ==
    /\ Goto("snapshot2", "events2")
    /\ Found("atProvider", changed.atProvider)
    /\ UNCHANGED <<verdict, restarts, notes, changed, otherVars,
                   historyVars>>

CountEventsAfter ==
    /\ Goto("events2", "object2")
    /\ Found("events", changed.events)
    /\ UNCHANGED <<verdict, restarts, notes, changed, otherVars,
                   historyVars>>

GetObject ==
    /\ Goto("object2", "log")
    /\ problems' = problems
         \cup (IF changed.generation THEN {"generation"} ELSE {})
         \cup (IF object.ready # "yes" THEN {"readiness"} ELSE {})
    /\ UNCHANGED <<verdict, restarts, notes, changed, otherVars,
                   historyVars>>

\* The streams that are read: one that fails is skipped, and its lines are missing.
ProviderLogs ==
    {streams \in SUBSET {"own", "others"} :
        "others" \in streams => "crowded" \in provider}

\* Seeded fault: kubectl's default tail, which other resources' lines fill.
countUpdateLogCallsTail(streams) ==
    "own" \in streams /\ "debug" \in provider /\ lastCall = 0

\* The resource's lines of the last convergeWait ticks, since ArmedAt.
countUpdateLogCalls(streams) ==
    "own" \in streams /\ "debug" \in provider /\ lastCall # Never

LoopSignal == {"atProvider", "events", "calls"}

\* Lines of any pod, on whatever, keep the log from counting as silent.
buildConvergeResult ==
    /\ pc = "log"
    /\ \E streams \in ProviderLogs, lines \in BOOLEAN :
        /\ countUpdateLogCalls(streams) => lines
        /\ notes' = notes \cup (IF streams = {} THEN {"log unavailable"}
                               ELSE IF lines THEN {} ELSE {"log silent"})
        /\ Found("calls", countUpdateLogCalls(streams))
        /\ End(IF problems' = {} THEN "stable"
               ELSE IF problems' \cap LoopSignal # {} THEN "loop"
               ELSE "unsteady")
    /\ UNCHANGED <<restarts, changed, otherVars, historyVars>>

\* Every call but the reading of the log ends the check when it fails, the
\* comparison after it too.
Fail ==
    /\ pc \notin {"armed", "done"}
    /\ End("error")
    /\ UNCHANGED <<restarts, notes, problems, changed, otherVars,
                   historyVars>>

Runner ==
    \/ waitGenerationSettled \/ waitSynced \/ waitReady
    \/ waitControllerPodSettled \/ Snapshot \/ CountEvents
    \/ Wake \/ SamePod \/ Rearm \/ Inconclusive
    \/ SnapshotAfter \/ CountEventsAfter \/ GetObject \/ buildConvergeResult

-----------------------------------------------------------------------------
(***************************************************************************)
(* The controller.                                                         *)
(***************************************************************************)

\* After the verdict nothing is of interest.
Checking == pc # "done"

\* Whether a reconcile calls Update(): when it owes one, when it loops, and it
\* may when the process has just started and acts on every resource.
Updates ==
    IF object.owed \/ "looping" \in provider THEN {TRUE}
    ELSE IF starting THEN BOOLEAN ELSE {FALSE}

\* Only what follows the reading of a baseline's part can differ from it.
Unread == [generation |-> {"settle", "sync"},
           pod |-> {"settle", "sync", "ready", "pod"},
           atProvider |-> Arming \ {"events"},
           events |-> Arming]

Change(parts) ==
    changed' = [p \in Part |->
                  changed[p] \/ (p \in parts /\ pc \notin Unread[p])]

\* What is written to atProvider may be what the baseline has.
ChangeMirror(parts) ==
    \E differs \in BOOLEAN :
        changed' = [p \in Part |->
            IF p = "atProvider" THEN differs /\ pc \notin Unread[p]
            ELSE changed[p] \/ (p \in parts /\ pc \notin Unread[p])]

Because(cause) ==
    causes' = IF pc \in Unread.atProvider THEN causes
                                         ELSE causes \cup {cause}

\* The event of an Update() is listed, accepted but listed later, or dropped by
\* the recorder.
Update ==
    /\ \/ ChangeMirror({"events"}) /\ UNCHANGED pending
       \/ ChangeMirror({}) /\ "late events" \in provider /\ pending' = TRUE
       \/ ChangeMirror({}) /\ UNCHANGED pending
    /\ lastCall' = IF pc \in Arming THEN Never ELSE 0

\* A reconcile, which may fail; Synced then is False at this generation.
Reconcile ==
    \E updates \in Updates, ok \in BOOLEAN :
        /\ Checking
        /\ object' = [object EXCEPT !.observed = TRUE, !.synced = ok,
                                    !.owed = object.owed /\ ~ok]
        /\ starting' = FALSE /\ sincePoll' = 0
        /\ IF updates THEN Update ELSE UNCHANGED <<changed, pending, lastCall>>
        /\ UNCHANGED <<runnerVars, elapsed, provider, aged, historyVars>>

EventListed ==
    /\ Checking
    /\ pending /\ pending' = FALSE
    /\ Change({"events"})
    /\ UNCHANGED <<runnerVars, elapsed, provider, object, aged,
                   starting, lastCall, sincePoll, historyVars>>

\* atProvider mirrors what readiness is made of.
ReadyChanges ==
    /\ Checking
    /\ object' = [object EXCEPT !.ready = IF @ = "yes" THEN "no" ELSE "yes"]
    /\ ChangeMirror({})
    /\ Because(IF object.ready = "not yet" THEN "coming up" ELSE "flap")
    /\ UNCHANGED <<runnerVars, elapsed, provider, pending, aged,
                   starting, lastCall, sincePoll, unseen>>

\* A late initialisation is a new generation, with nothing to update.
LateInit ==
    /\ Checking
    /\ Change({"generation"})
    /\ object' = [object EXCEPT !.observed = FALSE]
    /\ Because("late init")
    /\ UNCHANGED <<runnerVars, elapsed, provider, pending, aged,
                   starting, lastCall, sincePoll, unseen>>

(***************************************************************************)
(* Restarts.  A rollout brings a new pod, and the log may still hold the   *)
(* old one's lines; a container that is killed restarts in its pod.        *)
(***************************************************************************)
Replace ==
    /\ Checking
    /\ "rolled out" \in provider
    /\ Change({"pod"})
    /\ aged' = FALSE /\ starting' = TRUE /\ sincePoll' = 0
    /\ pending' \in {FALSE, pending}
    /\ lastCall' \in {Never, lastCall}
    /\ unseen' = (unseen \/ pc \in Comparing)
    /\ UNCHANGED <<runnerVars, elapsed, provider, object, causes>>

RestartInPlace ==
    /\ Checking
    /\ "killed" \in provider
    /\ starting' = TRUE /\ sincePoll' = 0
    /\ pending' \in {FALSE, pending}
    /\ lastCall' = Never
    /\ unseen' = (pc \notin Unread.pod)
    /\ UNCHANGED <<runnerVars, elapsed, changed, provider, object,
                   aged, causes>>

\* The threshold outlasts the burst of a start.
Age ==
    /\ Checking
    /\ ~aged /\ ~starting
    /\ aged' = TRUE
    /\ UNCHANGED <<runnerVars, elapsed, changed, provider, object,
                   pending, starting, lastCall, sincePoll, historyVars>>

\* The controller reconciles at least once in a poll interval.
Tick ==
    /\ pc \in {"armed", "identity"} \cup Comparing
    /\ sincePoll < PollInterval
    /\ sincePoll' = sincePoll + 1
    /\ elapsed' = IF elapsed < convergeWait THEN elapsed + 1 ELSE elapsed
    /\ lastCall' = IF lastCall \in {Never, convergeWait} THEN Never
                   ELSE lastCall + 1
    /\ UNCHANGED <<runnerVars, changed, controllerVars, historyVars>>

Controller ==
    \/ Reconcile \/ EventListed \/ ReadyChanges \/ LateInit
    \/ Replace \/ RestartInPlace \/ Age

-----------------------------------------------------------------------------

Next == Runner \/ Skip \/ Fail \/ Controller \/ Tick

Spec == Init /\ [][Next]_vars

-----------------------------------------------------------------------------
(***************************************************************************)
(* Properties.                                                             *)
(***************************************************************************)

\* Every variable has the shape the code gives it.
TypeOK ==
    /\ pc \in PC /\ verdict \in Verdict
    /\ restarts \in 0..convergeMaxRestartRetries
    /\ notes \subseteq Note /\ problems \subseteq Problem
    /\ elapsed \in 0..convergeWait
    /\ changed \in [Part -> BOOLEAN]
    /\ object \in [observed : BOOLEAN, synced : BOOLEAN, owed : BOOLEAN,
                   ready : {"not yet", "yes", "no"}]
    /\ provider \subseteq Trait
    /\ {pending, aged, starting, unseen} \subseteq BOOLEAN
    /\ lastCall \in Ages /\ sincePoll \in 0..PollInterval
    /\ causes \subseteq Cause

\* A reported loop is one: it is neither an Update() owed since before the
\* baseline nor what a controller does when it starts, as far as the pod's
\* identity tells; a resource still coming up is mistaken for one only under
\* the readiness note, or where the manifest declares conditions waitReady does
\* not wait for.
LoopIsReal ==
    verdict = "loop" /\ ~unseen =>
        \/ "looping" \in provider \/ "flap" \in causes
        \/ "coming up" \in causes /\ ("readiness" \in notes \/ "declared" \in provider)

\* A controller that loops and logs with --debug gets no clean pass, whatever the
\* event recorder drops, without a note that the log could not be read: one full
\* poll falls into the window, and countUpdateLogCalls finds its line.  With other
\* pods under the selector nothing can be said: their lines hide that the
\* controller's own stream was skipped.
LoopIsNoticed ==
    /\ verdict = "stable" /\ ~unseen
    /\ {"looping", "debug"} \subseteq provider /\ "crowded" \notin provider
    => "log unavailable" \in notes

\* The same where other pods match the selector, which the code does not keep.
LoopIsNoticedInACrowd ==
    verdict = "stable" /\ ~unseen /\ {"looping", "debug"} \subseteq provider =>
        notes \cap {"log unavailable", "log silent"} # {}

\* A verdict reached after restarts tells every one of them, also the first.
RestartsAreTold ==
    verdict \in {"stable", "loop"} =>
        \A n \in 1..restarts : RestartNote[n] \in notes

\* A restart of the controller is never reported as a loop.
RestartIsNoLoop ==
    verdict = "loop" =>
        "looping" \in provider \/ "flap" \in causes \/ "readiness" \in notes

\* "Generation changed" means that it changed since the baseline snapshot.
GenerationIsOfBaseline ==
    verdict = "unsteady" /\ problems = {"generation"} => "late init" \in causes

(***************************************************************************)
(* RunConverge keeps the promise of Observation.                           *)
(***************************************************************************)
Judged ==
    \/ verdict \in {"stable", "loop"}
    \/ verdict = "unsteady" /\ problems # {}

Stage ==
    IF pc \in Arming THEN "arming"
    ELSE IF pc # "done" THEN "observing"
    ELSE IF Judged THEN "judged" ELSE "ended"

Promise == INSTANCE Observation WITH
    Window <- convergeWait, Rearms <- convergeMaxRestartRetries,
    stage <- Stage, rearmed <- restarts

\* Every judgement compares with a baseline one window old, after at most
\* convergeMaxRestartRetries discarded windows, and is final.
KeepsPromise == Promise!ObsSpec

=============================================================================
