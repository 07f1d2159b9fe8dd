------------------------------- MODULE Reconcile -------------------------------
(***************************************************************************)
(* internal/runner/runner.go: applyPatchAndReconcile.  The runner patches  *)
(* the spec and forces two reconciles, each by clearing the conditions,    *)
(* nudging an annotation and waiting for Ready and for Synced at the       *)
(* current generation.  The controller works concurrently: it is woken by  *)
(* spec and annotation changes, not by status changes, and its writes      *)
(* conflict with any write since it read the object.                       *)
(***************************************************************************)
EXTENDS Integers

CONSTANTS
    MaxFailures,    \* bound: failing Update() calls
    MaxLateInits    \* bound: late initialisations, each a new generation

ASSUME ReconcileAssumption ==
    /\ MaxFailures \in Nat
    /\ MaxLateInits \in Nat

VARIABLES
    pc,         \* where applyPatchAndReconcile is
    round,      \* 1 in reconcileOnce, 2 in nudgeAndReconcile
    wanted,     \* the value in spec.forProvider
    gen,        \* metadata.generation
    conds,      \* status.conditions
    mirror,     \* the value in status.atProvider
    external,   \* the value the backend holds
    wake,       \* the object is in the controller's work queue
    pass,       \* the controller's reconcile in progress
    failures,   \* Update() calls that failed
    lateInits   \* late initialisations so far

runnerVars == <<pc, round>>
objectVars == <<wanted, gen, conds, mirror>>
controllerVars == <<external, wake, pass, failures, lateInits>>
vars == <<runnerVars, objectVars, controllerVars>>

Old == 0    \* the value before the patch
New == 1    \* and after it

Status == {"none", "True", "False"}
Conditions == [Ready : Status, Synced : Status, observedGeneration : Nat]
Cleared == [Ready |-> "none", Synced |-> "none", observedGeneration |-> 0]

\* A reconcile: how far it is, what it read, and whether the object has been
\* written by anybody else since.
Idle == [at |-> "idle"]
Pass == [at : {"observed", "done", "failed"}, wants : {Old, New}, gen : Nat,
         sees : {Old, New}, stale : BOOLEAN]

PC == {"patch", "clear", "nudge", "ready", "synced", "returned", "failed"}

Init ==
    /\ pc = "patch" /\ round = 1
    /\ wanted = Old /\ gen = 1
    /\ conds = [Ready |-> "True", Synced |-> "True", observedGeneration |-> 1]
    /\ mirror = Old /\ external = Old
    /\ wake = FALSE /\ pass = Idle
    /\ failures = 0 /\ lateInits = 0

Goto(from, to) == pc = from /\ pc' = to

\* A write of the object by somebody else than the controller.
Overtake == pass' = IF pass = Idle THEN Idle ELSE [pass EXCEPT !.stale = TRUE]

-----------------------------------------------------------------------------
(***************************************************************************)
(* The runner.                                                             *)
(***************************************************************************)
Patch ==
    /\ Goto("patch", "clear")
    /\ wanted' = New
    /\ gen' = gen + 1
    /\ wake' = TRUE
    /\ Overtake
    /\ UNCHANGED <<round, conds, mirror, external, failures, lateInits>>

\* A merge patch of the status: a write only if there is something to clear,
\* and nothing the controller watches.
ClearConditions ==
    /\ Goto("clear", "nudge")
    /\ conds' = Cleared
    /\ IF conds = Cleared THEN UNCHANGED pass ELSE Overtake
    /\ UNCHANGED <<round, wanted, gen, mirror, external, wake, failures,
                   lateInits>>

\* Seeded fault: the nudge is a change the controller does not watch.
NudgeReconcileUnwatched ==
    /\ Goto("nudge", "ready")
    /\ Overtake
    /\ UNCHANGED <<round, objectVars, external, wake, failures, lateInits>>

NudgeReconcile ==
    /\ Goto("nudge", "ready")
    /\ wake' = TRUE
    /\ Overtake
    /\ UNCHANGED <<round, objectVars, external, failures, lateInits>>

WaitReady ==
    /\ Goto("ready", "synced")
    /\ conds.Ready = "True"
    /\ UNCHANGED <<round, objectVars, controllerVars>>

\* Seeded fault: the status of the condition is not looked at.
SyncedAtAll == conds.Synced = "none" \/ conds.observedGeneration = gen

\* waitSynced; a controller without that condition is not waited for.
Synced ==
    \/ conds.Synced = "none"
    \/ conds.Synced = "True" /\ conds.observedGeneration = gen

\* Seeded fault: one reconcile is taken to suffice.
WaitSyncedOnce ==
    /\ Goto("synced", "returned")
    /\ Synced
    /\ UNCHANGED <<round, objectVars, controllerVars>>

WaitSynced ==
    /\ pc = "synced"
    /\ Synced
    /\ IF round = 1
       THEN pc' = "clear" /\ round' = 2
       ELSE pc' = "returned" /\ UNCHANGED round
    /\ UNCHANGED <<objectVars, controllerVars>>

\* Any call may fail, and either wait may time out.
Fail ==
    /\ pc \notin {"returned", "failed"}
    /\ pc' = "failed"
    /\ UNCHANGED <<round, objectVars, controllerVars>>

Runner ==
    Patch \/ ClearConditions \/ NudgeReconcile \/ WaitReady \/ WaitSynced

-----------------------------------------------------------------------------
(***************************************************************************)
(* The controller (crossplane-runtime's managed reconciler).               *)
(***************************************************************************)

\* It reads the object and observes the backend.
Observe ==
    /\ pass = Idle
    /\ pass' = [at |-> "observed", wants |-> wanted, gen |-> gen,
                sees |-> external, stale |-> FALSE]
    /\ wake' = FALSE
    /\ UNCHANGED <<runnerVars, objectVars, external, failures, lateInits>>

Woken == wake /\ Observe

\* The poll interval: nothing here may depend on it.
PollTick == ~wake /\ Observe

\* A late-initialised field is written to the spec.  The reconcile goes on, or
\* ends before it marks Synced.
LateInit ==
    /\ pass # Idle /\ pass.at = "observed" /\ ~pass.stale
    /\ lateInits < MaxLateInits
    /\ lateInits' = lateInits + 1
    /\ gen' = gen + 1
    /\ wake' = TRUE
    /\ pass' \in {Idle, [pass EXCEPT !.gen = gen + 1]}
    /\ UNCHANGED <<runnerVars, wanted, conds, mirror, external, failures>>

Update ==
    /\ pass # Idle /\ pass.at = "observed" /\ pass.sees # pass.wants
    /\ external' = pass.wants
    /\ pass' = [pass EXCEPT !.at = "done"]
    /\ UNCHANGED <<runnerVars, objectVars, wake, failures, lateInits>>

UpdateFails ==
    /\ pass # Idle /\ pass.at = "observed" /\ pass.sees # pass.wants
    /\ failures < MaxFailures
    /\ failures' = failures + 1
    /\ pass' = [pass EXCEPT !.at = "failed"]
    /\ UNCHANGED <<runnerVars, objectVars, external, wake, lateInits>>

UpToDate ==
    /\ pass # Idle /\ pass.at = "observed" /\ pass.sees = pass.wants
    /\ pass' = [pass EXCEPT !.at = "done"]
    /\ UNCHANGED <<runnerVars, objectVars, external, wake, failures, lateInits>>

\* The deferred status write: what Observe saw, Ready, and the outcome.
WriteStatus ==
    /\ pass # Idle /\ pass.at \in {"done", "failed"} /\ ~pass.stale
    /\ mirror' = pass.sees
    /\ conds' = [Ready |-> "True",
                 Synced |-> IF pass.at = "done" THEN "True" ELSE "False",
                 observedGeneration |-> pass.gen]
    /\ wake' = (wake \/ pass.at = "failed")
    /\ pass' = Idle
    /\ UNCHANGED <<runnerVars, wanted, gen, external, failures, lateInits>>

\* The write conflicts, or the late initialisation would: tried again.
Conflict ==
    /\ pass # Idle /\ pass.stale
    /\ wake' = TRUE
    /\ pass' = Idle
    /\ UNCHANGED <<runnerVars, objectVars, external, failures, lateInits>>

Working ==
    LateInit \/ Update \/ UpdateFails \/ UpToDate \/ WriteStatus \/ Conflict

-----------------------------------------------------------------------------

Next == Runner \/ Fail \/ Woken \/ PollTick \/ Working

Spec == Init /\ [][Next]_vars

(***************************************************************************)
(* The runner goes on when it can, and the controller works off its queue  *)
(* and ends what it began.  Neither PollTick nor Fail has any fairness.    *)
(***************************************************************************)
Fairness == WF_vars(Runner) /\ WF_vars(Woken) /\ WF_vars(Working)

FairSpec == Spec /\ Fairness

-----------------------------------------------------------------------------
(***************************************************************************)
(* Properties.                                                             *)
(***************************************************************************)

\* Every variable has the shape the code gives it.
TypeOK ==
    /\ pc \in PC
    /\ round \in {1, 2}
    /\ {wanted, mirror, external} \subseteq {Old, New}
    /\ gen \in Nat
    /\ conds \in Conditions
    /\ wake \in BOOLEAN
    /\ pass \in Pass \cup {Idle}
    /\ failures \in 0..MaxFailures /\ lateInits \in 0..MaxLateInits

\* Once the first reconcileOnce has returned, the patched value has reached the
\* backend: no status of an older or a failing reconcile ends the wait.
FirstRoundUpdates == round = 2 => external = New

\* Once applyPatchAndReconcile has returned, status.atProvider shows what was
\* observed after Update(): the poll that follows reads no stale value.
ReturnedIsFresh == pc = "returned" => external = New /\ mirror = New

\* Unless a call fails, the handshake ends by the wake-ups it causes itself, never
\* waiting for the provider's poll interval.
HandshakeEnds == <>(pc \in {"returned", "failed"})

=============================================================================
