------------------------------ MODULE ConvergeAll ------------------------------
(***************************************************************************)
(* internal/runner/convergeall.go: RunConvergeAll.  Every target is armed, *)
(* one sleep serves them all, and every armed target is asserted; arming   *)
(* and asserting run in forEachConcurrently, a goroutine per target of     *)
(* which `limit` may be in flight.  What convergeArm and convergeAssert do *)
(* to one target is in Converge; here they take any time and have any      *)
(* outcome.                                                                *)
(***************************************************************************)
EXTENDS Integers, FiniteSets

CONSTANTS
    Target,     \* the targets, by their index
    Wait,       \* convergeWait of each target's options
    limit,      \* the concurrency
    Rearms,     \* convergeMaxRestartRetries
    MaxElapsed  \* bound: time is not counted further than this

ASSUME ConvergeAllAssumption ==
    /\ Wait \in [Target -> Nat]
    /\ limit \in Nat \ {0}
    /\ Rearms \in Nat
    /\ MaxElapsed \in Nat /\ \A t \in Target : Wait[t] <= MaxElapsed

VARIABLES
    phase,      \* where RunConvergeAll is
    pc,         \* where the goroutine of a target is
    baselines,  \* the targets that have a baseline
    elapsed,    \* ticks since ArmedAt
    restarts,   \* restarts of convergeAssertAttempt
    result,     \* ConvergeAllResult.Result
    errs,       \* the targets with a ConvergeAllResult.Err
    timer       \* what is left of the shared sleep

targetVars == <<pc, baselines, elapsed, restarts, result, errs>>
vars == <<phase, targetVars, timer>>

Phase == {"arm", "sleep", "assert", "returned"}
Holding == {"arming", "asserting", "rearming", "napping", "leaving"}
PC == {"queued", "done"} \cup Holding
Result == {"none", "early", "verdict", "inconclusive"}

Init ==
    /\ phase = "arm"
    /\ pc = [t \in Target |-> "queued"]
    /\ baselines = {}
    /\ elapsed = [t \in Target |-> 0]
    /\ restarts = [t \in Target |-> 0]
    /\ result = [t \in Target |-> "none"]
    /\ errs = {}
    /\ timer = 0

Goto(t, from, to) == pc[t] = from /\ pc' = [pc EXCEPT ![t] = to]

-----------------------------------------------------------------------------
(***************************************************************************)
(* forEachConcurrently.                                                    *)
(***************************************************************************)
InFlight == {t \in Target : pc[t] \in Holding}

\* Phase 3 has nothing to do for a target without a baseline.
Enter(t) ==
    /\ Cardinality(InFlight) < limit
    /\ Goto(t, "queued", IF phase = "arm" THEN "arming"
                         ELSE IF t \in baselines THEN "asserting"
                         ELSE "leaving")
    /\ UNCHANGED <<phase, baselines, elapsed, restarts, result, errs, timer>>

\* Seeded fault: an early return forgets the slot.
LeaveNotEarly(t) ==
    /\ phase = "assert" => t \in baselines
    /\ Goto(t, "leaving", "done")
    /\ UNCHANGED <<phase, baselines, elapsed, restarts, result, errs, timer>>

Leave(t) ==
    /\ Goto(t, "leaving", "done")
    /\ UNCHANGED <<phase, baselines, elapsed, restarts, result, errs, timer>>

-----------------------------------------------------------------------------
(***************************************************************************)
(* Phase 1.                                                                *)
(***************************************************************************)
Arm(t) ==
    /\ Goto(t, "arming", "leaving")
    /\ baselines' = baselines \cup {t}
    /\ elapsed' = [elapsed EXCEPT ![t] = 0]
    /\ UNCHANGED <<phase, restarts, result, errs, timer>>

ArmEarly(t) ==
    /\ Goto(t, "arming", "leaving")
    /\ result' = [result EXCEPT ![t] = "early"]
    /\ UNCHANGED <<phase, baselines, elapsed, restarts, errs, timer>>

ArmFails(t) ==
    /\ Goto(t, "arming", "leaving")
    /\ errs' = errs \cup {t}
    /\ UNCHANGED <<phase, baselines, elapsed, restarts, result, timer>>

-----------------------------------------------------------------------------
(***************************************************************************)
(* Phase 2.                                                                *)
(***************************************************************************)

\* Seeded fault: the first baseline is taken for the last.
LastArmedFirst(t) ==
    t \in baselines /\ \A u \in baselines : elapsed[u] <= elapsed[t]

LastArmed(t) ==
    t \in baselines /\ \A u \in baselines : elapsed[t] <= elapsed[u]

LongestWait(t) ==
    t \in baselines /\ \A u \in baselines : Wait[u] <= Wait[t]

\* convergeAllDeadline, seen from now: the latest ArmedAt plus the longest wait.
Barrier ==
    /\ phase = "arm" /\ \A t \in Target : pc[t] = "done"
    /\ \/ baselines = {} /\ phase' = "returned" /\ UNCHANGED timer
       \/ \E last, longest \in baselines :
            /\ LastArmed(last) /\ LongestWait(longest)
            /\ phase' = "sleep"
            /\ timer' = IF elapsed[last] <= Wait[longest]
                        THEN Wait[longest] - elapsed[last] ELSE 0
    /\ UNCHANGED targetVars

Wake ==
    /\ phase = "sleep" /\ timer = 0
    /\ phase' = "assert"
    /\ pc' = [t \in Target |-> "queued"]
    /\ UNCHANGED <<baselines, elapsed, restarts, result, errs, timer>>

-----------------------------------------------------------------------------
(***************************************************************************)
(* Phase 3: convergeAssertAttempt, its goroutine's slot held throughout.   *)
(***************************************************************************)
Judge(t) ==
    /\ Goto(t, "asserting", "leaving")
    /\ result' = [result EXCEPT ![t] = "verdict"]
    /\ UNCHANGED <<phase, baselines, elapsed, restarts, errs, timer>>

\* Seeded fault: the error is recorded next to a verdict.
AssertFailsOn(t) ==
    /\ Goto(t, "asserting", "leaving")
    /\ errs' = errs \cup {t}
    /\ result' = [result EXCEPT ![t] = "verdict"]
    /\ UNCHANGED <<phase, baselines, elapsed, restarts, timer>>

AssertFails(t) ==
    /\ pc[t] \in {"asserting", "rearming"}
    /\ pc' = [pc EXCEPT ![t] = "leaving"]
    /\ errs' = errs \cup {t}
    /\ UNCHANGED <<phase, baselines, elapsed, restarts, result, timer>>

\* Seeded fault: one restart more than allowed.
RestartedOnceMore(t) ==
    /\ restarts[t] <= Rearms
    /\ Goto(t, "asserting", "rearming")
    /\ restarts' = [restarts EXCEPT ![t] = @ + 1]
    /\ elapsed' = [elapsed EXCEPT ![t] = 0]
    /\ UNCHANGED <<phase, baselines, result, errs, timer>>

\* The controller's pod is another one.
Restarted(t) ==
    /\ restarts[t] < Rearms
    /\ Goto(t, "asserting", "rearming")
    /\ restarts' = [restarts EXCEPT ![t] = @ + 1]
    /\ elapsed' = [elapsed EXCEPT ![t] = 0]
    /\ UNCHANGED <<phase, baselines, result, errs, timer>>

Inconclusive(t) ==
    /\ restarts[t] = Rearms
    /\ Goto(t, "asserting", "leaving")
    /\ result' = [result EXCEPT ![t] = "inconclusive"]
    /\ UNCHANGED <<phase, baselines, elapsed, restarts, errs, timer>>

Rearm(t) ==
    /\ Goto(t, "rearming", "napping")
    /\ UNCHANGED <<phase, baselines, elapsed, restarts, result, errs, timer>>

RearmEarly(t) ==
    /\ Goto(t, "rearming", "leaving")
    /\ result' = [result EXCEPT ![t] = "early"]
    /\ UNCHANGED <<phase, baselines, elapsed, restarts, errs, timer>>

\* Its own sleep: the shared one is over.
FreshWait(t) ==
    /\ elapsed[t] >= Wait[t]
    /\ Goto(t, "napping", "asserting")
    /\ UNCHANGED <<phase, baselines, elapsed, restarts, result, errs, timer>>

Return ==
    /\ phase = "assert" /\ \A t \in Target : pc[t] = "done"
    /\ phase' = "returned"
    /\ UNCHANGED <<targetVars, timer>>

-----------------------------------------------------------------------------

\* The targets with a baseline and no outcome.
Observed ==
    {t \in baselines \ errs : result[t] = "none" /\ pc[t] # "rearming"}

\* Time passes for all of them; what exceeds every wait is not counted.
Tick ==
    /\ phase # "returned"
    /\ elapsed' = [t \in Target |->
         IF t \in Observed /\ elapsed[t] < MaxElapsed
         THEN elapsed[t] + 1 ELSE elapsed[t]]
    /\ timer' = IF timer > 0 THEN timer - 1 ELSE 0
    /\ UNCHANGED <<phase, pc, baselines, restarts, result, errs>>

Goroutine(t) ==
    \/ Enter(t) \/ Leave(t)
    \/ Arm(t) \/ ArmEarly(t) \/ ArmFails(t)
    \/ Judge(t) \/ AssertFails(t) \/ Restarted(t) \/ Inconclusive(t)
    \/ Rearm(t) \/ RearmEarly(t) \/ FreshWait(t)

Main == Barrier \/ Wake \/ Return

Next == Main \/ Tick \/ \E t \in Target : Goroutine(t)

Spec == Init /\ [][Next]_vars

\* Goroutines are scheduled, sleeps end, and every wait has a deadline.
FairSpec ==
    /\ Spec
    /\ WF_vars(Main) /\ WF_vars(Tick)
    /\ \A t \in Target : WF_vars(Goroutine(t))

-----------------------------------------------------------------------------
(***************************************************************************)
(* Properties.                                                             *)
(***************************************************************************)

\* Every variable has the shape the code gives it.
TypeOK ==
    /\ phase \in Phase
    /\ pc \in [Target -> PC]
    /\ baselines \subseteq Target /\ errs \subseteq Target
    /\ elapsed \in [Target -> 0..MaxElapsed]
    /\ restarts \in [Target -> 0..Rearms]
    /\ result \in [Target -> Result]
    /\ timer \in 0..MaxElapsed

\* What RunConvergeAll returns has exactly one of a result and an error for
\* every target, however its arming, its assertion and their repetitions ended.
OneOutcome ==
    phase = "returned" =>
        \A t \in Target : (result[t] # "none") <=> (t \notin errs)

\* RunConvergeAll returns, whatever the controller's restarts and the targets'
\* failures, with fewer slots than targets.
AllReturn == <>(phase = "returned")

(***************************************************************************)
(* One sleep keeps for every target what RunConverge promises for one.     *)
(***************************************************************************)
Stage(t) ==
    IF result[t] = "verdict" THEN "judged"
    ELSE IF result[t] # "none" \/ t \in errs THEN "ended"
    ELSE IF t \notin baselines \/ pc[t] = "rearming" THEN "arming"
    ELSE "observing"

\* What exceeds its own wait is nothing to a target.
Watched(t) == IF elapsed[t] < Wait[t] THEN elapsed[t] ELSE Wait[t]

Promise(t) == INSTANCE Observation WITH
    Window <- Wait[t], Rearms <- Rearms, stage <- Stage(t),
    elapsed <- Watched(t), rearmed <- restarts[t]

\* Every target is judged against a baseline at least its own wait old,
\* although baselines and waits differ and the barrier is one for all.
KeepsPromises ==
    /\ \A t \in Target : Promise(t)!ObsInit
    /\ [][\A t \in Target : [Promise(t)!ObsNext]_(Promise(t)!obsVars)]_vars

=============================================================================
