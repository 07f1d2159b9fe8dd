--------------------------- MODULE AdaptiveLimiter ---------------------------
(***************************************************************************)
(* internal/runner/adaptive.go: a semaphore whose capacity can only        *)
(* shrink.  Every method runs under l.mu, so each is one atomic action;    *)
(* sync.Cond.Wait enrols the caller in the wait set before it releases     *)
(* l.mu, so "test the limit and park" is one action too.                   *)
(***************************************************************************)
EXTENDS Integers, Sequences

CONSTANTS
    Caller,     \* the goroutines that call Acquire
    Initial     \* the argument of NewAdaptiveLimiter

ASSUME InitialAssumption == Initial \in Int

VARIABLES
    limit,      \* l.limit
    active,     \* l.active
    events,     \* l.events, one [From, To] record per accepted Throttle
    parked      \* the callers blocked in l.cond.Wait

limiterVars == <<limit, active, events, parked>>

ThrottleEvent == [From : Nat, To : Nat]

LimiterTypeOK ==
    /\ limit \in Nat \ {0}
    /\ active \in Nat
    /\ events \in Seq(ThrottleEvent)
    /\ parked \in SUBSET Caller

InitialCeiling == IF Initial <= 0 THEN 1 ELSE Initial

NewAdaptiveLimiter ==
    /\ limit = InitialCeiling
    /\ active = 0
    /\ events = << >>
    /\ parked = {}

(***************************************************************************)
(* Acquire.  A caller that finds the pool full parks; Broadcast takes it   *)
(* out of the wait set and it tests the limit again (AcquirePasses or      *)
(* AcquireParks once more).                                                *)
(***************************************************************************)
AcquireParks(c) ==
    /\ c \notin parked
    /\ active >= limit
    /\ parked' = parked \cup {c}
    /\ UNCHANGED <<limit, active, events>>

\* Seeded fault: the admission test off by one.
AcquirePassesOneTooMany(c) ==
    /\ c \notin parked
    /\ active <= limit
    /\ active' = active + 1
    /\ UNCHANGED <<limit, events, parked>>

AcquirePasses(c) ==
    /\ c \notin parked
    /\ active < limit
    /\ active' = active + 1
    /\ UNCHANGED <<limit, events, parked>>

Broadcast == parked' = {}

\* Seeded faults: the slot is never returned, or returned without waking the waiters.
ReleaseForgotten ==
    /\ Broadcast
    /\ UNCHANGED <<limit, active, events>>

ReleaseSilently ==
    /\ active' = active - 1
    /\ UNCHANGED <<limit, events, parked>>

Release ==
    /\ active' = active - 1
    /\ Broadcast
    /\ UNCHANGED <<limit, events>>

\* Seeded fault: a request that is not a decrease is applied as well.
ThrottleUnguarded(newLimit) ==
    IF newLimit < 1
    THEN UNCHANGED limiterVars
    ELSE /\ events' = Append(events, [From |-> limit, To |-> newLimit])
         /\ limit' = newLimit
         /\ Broadcast
         /\ UNCHANGED active

(***************************************************************************)
(* Throttle is a strict decrease or nothing.                               *)
(***************************************************************************)
Throttle(newLimit) ==
    IF newLimit >= limit \/ newLimit < 1
    THEN UNCHANGED limiterVars
    ELSE /\ events' = Append(events, [From |-> limit, To |-> newLimit])
         /\ limit' = newLimit
         /\ Broadcast
         /\ UNCHANGED active

=============================================================================
