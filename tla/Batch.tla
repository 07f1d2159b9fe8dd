-------------------------------- MODULE Batch --------------------------------
(***************************************************************************)
(* internal/runner/batch.go: RunBatch.  One goroutine per target acquires  *)
(* a slot of the AdaptiveLimiter, runs the target's field tests (whose     *)
(* HTTP requests all pass the shared ThrottleTracker), stores its result   *)
(* and releases the slot.  A 429 calls adaptiveThrottleHandler in the      *)
(* goroutine that received it; the handler reads the limit and asks for    *)
(* half of it in two separate critical sections, so two handlers can       *)
(* interleave.                                                             *)
(***************************************************************************)
EXTENDS AdaptiveLimiter, ThrottleTracker, FiniteSets

CONSTANT MaxAnswers     \* bound on the HTTP responses of one behaviour

ASSUME BoundsAssumption ==
    /\ IsFiniteSet(Caller)
    /\ MaxAnswers \in Nat

Target == Caller
Parallel == Initial

sustainedThrottleStreak == 3

VARIABLES
    pc,         \* where the goroutine of each target is
    streak,     \* the streak its pending callback was called with
    seen,       \* the limit its callback read (cur in the handler)
    filled,     \* the targets whose results[i] has been written
    summary     \* RunBatch's return value, or NotReturned

batchVars == <<pc, streak, seen, filled, summary>>
vars == <<limiterVars, trackerVars, batchVars>>

NotReturned == [returned |-> FALSE]

BatchSummary ==
    [returned : {TRUE}, Results : SUBSET Target, Throttle : Seq(ThrottleEvent)]

PC == {"acquiring", "running", "notified", "halving", "stored", "released",
       "done"}

\* The goroutines that hold a slot: between Acquire and the deferred Release.
Holders == {t \in Target : pc[t] \in {"running", "notified", "halving", "stored"}}

\* Seeded fault: wg.Add(1) moved into the goroutine, so that a goroutine that
\* has not started yet is not waited for.
AllDoneAddedLate == \A t \in Target : pc[t] \in {"acquiring", "done"}

\* No goroutine has work left: what wg.Wait waits for.
AllDone == \A t \in Target : pc[t] = "done"

-----------------------------------------------------------------------------

Init ==
    /\ NewAdaptiveLimiter
    /\ newThrottleTracker
    /\ pc = [t \in Target |-> "acquiring"]
    /\ streak = [t \in Target |-> 0]
    /\ seen = [t \in Target |-> 0]
    /\ filled = {}
    /\ summary = NotReturned

Goto(t, from, to) ==
    /\ pc[t] = from
    /\ pc' = [pc EXCEPT ![t] = to]

\* limiter.Acquire() in the goroutine of t.
Park(t) ==
    /\ pc[t] = "acquiring"
    /\ AcquireParks(t)
    /\ UNCHANGED <<trackerVars, batchVars>>

Enter(t) ==
    /\ Goto(t, "acquiring", "running")
    /\ AcquirePasses(t)
    /\ UNCHANGED <<trackerVars, streak, seen, filled, summary>>

\* One HTTP response of the field tests of t reaches throttleRoundTripper.
\* The requests of one target are serial, so at most one is outstanding.
Respond(t, is429) ==
    /\ Len(answers) < MaxAnswers
    /\ Goto(t, "running", IF is429 THEN "notified" ELSE "running")
    /\ Observe(is429)
    /\ streak' = [streak EXCEPT ![t] = NextStreak(is429)]
    /\ UNCHANGED <<limiterVars, seen, filled, summary>>

\* adaptiveThrottleHandler: a short streak is ordinary backend pressure.
Ignore(t) ==
    /\ streak[t] < sustainedThrottleStreak
    /\ Goto(t, "notified", "running")
    /\ UNCHANGED <<limiterVars, trackerVars, streak, seen, filled, summary>>

\* cur := limiter.CurrentLimit()
ReadLimit(t) ==
    /\ streak[t] >= sustainedThrottleStreak
    /\ Goto(t, "notified", "halving")
    /\ seen' = [seen EXCEPT ![t] = limit]
    /\ UNCHANGED <<limiterVars, trackerVars, streak, filled, summary>>

Half(n) == IF n \div 2 < 1 THEN 1 ELSE n \div 2

\* limiter.Throttle(reason, next)
Halve(t) ==
    /\ Goto(t, "halving", "running")
    /\ Throttle(Half(seen[t]))
    /\ UNCHANGED <<trackerVars, streak, seen, filled, summary>>

\* results[i] = runOneBatchTarget(t), then the deferred Release and wg.Done.
Store(t) ==
    /\ Goto(t, "running", "stored")
    /\ filled' = filled \cup {t}
    /\ UNCHANGED <<limiterVars, trackerVars, streak, seen, summary>>

Leave(t) ==
    /\ Goto(t, "stored", "released")
    /\ Release
    /\ UNCHANGED <<trackerVars, streak, seen, filled, summary>>

Done(t) ==
    /\ Goto(t, "released", "done")
    /\ UNCHANGED <<limiterVars, trackerVars, streak, seen, filled, summary>>

\* wg.Wait returns and RunBatch hands back the results and limiter.Events().
Return ==
    /\ summary = NotReturned
    /\ AllDone
    /\ summary' = [returned |-> TRUE, Results |-> filled, Throttle |-> events]
    /\ UNCHANGED <<limiterVars, trackerVars, pc, streak, seen, filled>>

Callback(t) == Ignore(t) \/ ReadLimit(t) \/ Halve(t)

Worker(t) ==
    \/ Park(t)
    \/ Enter(t)
    \/ \E is429 \in BOOLEAN : Respond(t, is429)
    \/ Callback(t)
    \/ Store(t)
    \/ Leave(t)
    \/ Done(t)

Next == Return \/ \E t \in Target : Worker(t)

Spec == Init /\ [][Next]_vars

(***************************************************************************)
(* The Go scheduler runs every runnable goroutine eventually, and a        *)
(* target's field tests end (each of their waits has a deadline), so a     *)
(* goroutine that can take a step other than a further response takes one. *)
(***************************************************************************)
Progress(t) == Park(t) \/ Enter(t) \/ Callback(t) \/ Store(t) \/ Leave(t) \/ Done(t)

Fairness ==
    /\ \A t \in Target : WF_vars(Progress(t))
    /\ WF_vars(Return)

FairSpec == Spec /\ Fairness

-----------------------------------------------------------------------------
(***************************************************************************)
(* Properties.                                                             *)
(***************************************************************************)

\* Every variable has the shape the code gives it.
TypeOK ==
    /\ LimiterTypeOK
    /\ TrackerTypeOK
    /\ pc \in [Target -> PC]
    /\ streak \in [Target -> Nat]
    /\ seen \in [Target -> Nat]
    /\ filled \in SUBSET Target
    /\ summary \in BatchSummary \cup {NotReturned}

\* l.active is exactly the number of goroutines between Acquire and Release,
\* whatever was throttled meanwhile: no slot is leaked or returned twice.
ActiveCountsHolders == active = Cardinality(Holders)

\* Two handlers may both read the limit before either lowers it, yet one
\* streak never costs more than a halving: each recorded reduction goes from
\* the limit then in force to exactly half of it, the records form one chain
\* from the initial ceiling, and the last one is the limit in force.
HalvingChain ==
    /\ \A i \in DOMAIN events :
        /\ events[i].To = Half(events[i].From)
        /\ events[i].To < events[i].From
        /\ events[i].From = IF i = 1 THEN InitialCeiling ELSE events[i - 1].To
    /\ limit = IF events = << >> THEN InitialCeiling ELSE events[Len(events)].To

\* The number of targets in flight never exceeds the ceiling the caller asked
\* for (1 when it asked for none: batch mode is serial by default).
InitialCeilingHolds == Cardinality(Holders) <= InitialCeiling

\* A goroutine blocked in cond.Wait implies a full pool: whoever frees a slot
\* wakes it, and a shrinking limit cannot strand it.
NoLostWakeup == parked # {} => active >= limit

\* Every reduction was paid for by its own run of three 429s in a row, as the
\* tracker serialised them: stale callbacks never throttle twice for one run
\* and an isolated 429 never does.
ReductionsAreSustained ==
    Len(events) <= Cardinality(SustainedAt(sustainedThrottleStreak))

\* What RunBatch returned stays true: every target has a result and no
\* reduction is recorded after the summary copied the list.
SummaryIsFinal ==
    summary # NotReturned =>
        /\ summary.Results = Target
        /\ summary.Throttle = events

\* The ceiling never grows back, and while more targets run than the limit
\* admits (they entered before it shrank) nobody enters.
NeverGrowsBack ==
    [][ /\ limit' <= limit
        /\ Cardinality(Holders') > limit' =>
              Cardinality(Holders') <= Cardinality(Holders) ]_vars

\* Every target eventually runs and RunBatch returns, whatever the backend
\* throttles.
EveryTargetRuns == <>(summary # NotReturned /\ filled = Target)

\* The abstract pool this implements (see BoundedPool).
Pool == INSTANCE BoundedPool WITH
    Task <- Target,
    Ceiling <- InitialCeiling,
    capacity <- limit,
    running <- Holders,
    finished <- {t \in Target : pc[t] \in {"released", "done"}}

PoolSpec == Pool!FairSpec

=============================================================================
