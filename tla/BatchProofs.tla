---------------------------- MODULE BatchProofs ----------------------------
(***************************************************************************)
(* Theorems about Batch, for any finite set of targets, any --parallel and *)
(* any number of responses.                                                *)
(***************************************************************************)
EXTENDS Batch, FiniteSetTheorems, TLAPS

(***************************************************************************)
(* Arithmetic of the handler: half of a limit stays positive, never        *)
(* exceeds the limit and is smaller unless the limit is already 1.         *)
(***************************************************************************)
LEMMA HalfBounds ==
    ASSUME NEW n \in Nat \ {0}
    PROVE  /\ Half(n) \in Nat \ {0}
           /\ Half(n) <= n
           /\ n > 1 => Half(n) < n /\ Half(n) = n \div 2
           /\ n = 1 => Half(n) = 1
BY DEF Half

LEMMA InitialCeilingType == InitialCeiling \in Nat \ {0}
BY InitialAssumption DEF InitialCeiling

LEMMA HoldersFinite == IsFiniteSet(Holders) /\ Cardinality(Holders) \in Nat
<1>1. Holders \subseteq Caller
  BY DEF Holders, Target
<1>2. IsFiniteSet(Holders)
  BY <1>1, BoundsAssumption, FS_Subset
<1>. QED  BY <1>2, FS_CardinalityType

-----------------------------------------------------------------------------
(***************************************************************************)
(* How each step moves the set of goroutines that hold a slot.  Only       *)
(* Acquire adds one and only Release removes one.                          *)
(***************************************************************************)

\* The types of pc alone, which is all the lemmas on Holders need.
PcOK == pc \in [Caller -> PC]

LEMMA HoldersEnter ==
    ASSUME PcOK, NEW t \in Caller, Enter(t)
    PROVE  t \notin Holders /\ Holders' = Holders \cup {t}
BY DEF PcOK, Enter, Goto, Holders, Target, PC

LEMMA HoldersLeave ==
    ASSUME PcOK, NEW t \in Caller, Leave(t)
    PROVE  t \in Holders /\ Holders' = Holders \ {t}
BY DEF PcOK, Leave, Goto, Holders, Target, PC

LEMMA HoldersSame ==
    ASSUME PcOK, NEW t \in Caller,
           \/ Park(t)
           \/ \E b \in BOOLEAN : Respond(t, b)
           \/ Callback(t)
           \/ Store(t)
           \/ Done(t)
    PROVE  Holders' = Holders
<1>1. CASE Park(t)
  BY <1>1 DEF Park, batchVars, Holders, Target
<1>2. ASSUME NEW b \in BOOLEAN, Respond(t, b) PROVE Holders' = Holders
  BY <1>2 DEF PcOK, Respond, Goto, Holders, Target, PC
<1>3. CASE Callback(t)
  BY <1>3 DEF PcOK, Callback, Ignore, ReadLimit, Halve, Goto, Holders, Target, PC
<1>4. CASE Store(t)
  BY <1>4 DEF PcOK, Store, Goto, Holders, Target, PC
<1>5. CASE Done(t)
  BY <1>5 DEF PcOK, Done, Goto, Holders, Target, PC
<1>. QED  BY <1>1, <1>2, <1>3, <1>4, <1>5

-----------------------------------------------------------------------------
(***************************************************************************)
(* Type correctness and the slot count.  Neither is inductive alone:       *)
(* Release keeps active natural only because it is called by a goroutine   *)
(* that active counts.                                                     *)
(***************************************************************************)

Counted == TypeOK /\ ActiveCountsHolders

LEMMA CountedInit == Init => Counted
<1>. SUFFICES ASSUME Init PROVE Counted
  OBVIOUS
<1>1. TypeOK
  BY InitialCeilingType
     DEF Init, TypeOK, NewAdaptiveLimiter, newThrottleTracker, LimiterTypeOK,
         TrackerTypeOK, PC, Target
<1>2. Holders = {}
  BY DEF Init, Holders
<1>. QED
  BY <1>1, <1>2, FS_EmptySet
     DEF Counted, ActiveCountsHolders, Init, NewAdaptiveLimiter

LEMMA TypeOKStep ==
    ASSUME Counted, [Next]_vars
    PROVE  TypeOK'
<1>0. TypeOK /\ PcOK
  BY DEF Counted, TypeOK, PcOK, Target
<1>1. ASSUME NEW t \in Caller, Park(t) PROVE TypeOK'
  BY <1>0, <1>1 DEF Park, AcquireParks, TypeOK, LimiterTypeOK, TrackerTypeOK,
                    trackerVars, batchVars, Target
<1>2. ASSUME NEW t \in Caller, Enter(t) PROVE TypeOK'
  BY <1>0, <1>2 DEF Enter, AcquirePasses, Goto, PC, TypeOK, LimiterTypeOK,
                    TrackerTypeOK, trackerVars, Target
<1>3. ASSUME NEW t \in Caller, NEW b \in BOOLEAN, Respond(t, b) PROVE TypeOK'
  BY <1>0, <1>3 DEF Respond, Observe, NextStreak, Goto, PC, TypeOK,
                    LimiterTypeOK, TrackerTypeOK, limiterVars, Target
<1>4. ASSUME NEW t \in Caller, Ignore(t) PROVE TypeOK'
  BY <1>0, <1>4 DEF Ignore, Goto, PC, TypeOK, LimiterTypeOK, TrackerTypeOK,
                    limiterVars, trackerVars, Target
<1>5. ASSUME NEW t \in Caller, ReadLimit(t) PROVE TypeOK'
  BY <1>0, <1>5 DEF ReadLimit, Goto, PC, TypeOK, LimiterTypeOK, TrackerTypeOK,
                    limiterVars, trackerVars, Target
<1>6. ASSUME NEW t \in Caller, Halve(t) PROVE TypeOK'
  <2>1. Half(seen[t]) \in Int /\ Half(seen[t]) >= 1
    BY <1>0 DEF Half, TypeOK, Target
  <2>2. CASE Half(seen[t]) >= limit
    BY <1>0, <1>6, <2>1, <2>2
       DEF Halve, Throttle, Goto, PC, TypeOK, LimiterTypeOK, TrackerTypeOK,
           limiterVars, trackerVars, Target
  <2>3. CASE Half(seen[t]) < limit
    <3>1. [From |-> limit, To |-> Half(seen[t])] \in ThrottleEvent
      BY <1>0, <2>1 DEF ThrottleEvent, TypeOK, LimiterTypeOK
    <3>2. /\ events' = Append(events, [From |-> limit, To |-> Half(seen[t])])
          /\ limit' = Half(seen[t])
          /\ parked' = {}
          /\ active' = active
      BY <1>0, <1>6, <2>1, <2>3
         DEF Halve, Throttle, Broadcast, TypeOK, LimiterTypeOK
    <3>3. LimiterTypeOK'
      BY <1>0, <2>1, <3>1, <3>2 DEF TypeOK, LimiterTypeOK
    <3>. QED
      BY <1>0, <1>6, <3>3
         DEF Halve, Goto, PC, TypeOK, TrackerTypeOK, trackerVars, Target
  <2>. QED  BY <1>0, <2>1, <2>2, <2>3 DEF TypeOK, LimiterTypeOK
<1>7. ASSUME NEW t \in Caller, Store(t) PROVE TypeOK'
  BY <1>0, <1>7 DEF Store, Goto, PC, TypeOK, LimiterTypeOK, TrackerTypeOK,
                    limiterVars, trackerVars, Target
<1>8. ASSUME NEW t \in Caller, Leave(t) PROVE TypeOK'
  <2>1. Cardinality(Holders) # 0
    BY <1>0, <1>8, HoldersLeave, HoldersFinite, FS_EmptySet
  <2>2. active - 1 \in Nat
    BY <2>1, HoldersFinite DEF Counted, ActiveCountsHolders
  <2>. QED
    BY <1>0, <1>8, <2>2
       DEF Leave, Release, Broadcast, Goto, PC, TypeOK, LimiterTypeOK,
           TrackerTypeOK, trackerVars, Target
<1>9. ASSUME NEW t \in Caller, Done(t) PROVE TypeOK'
  BY <1>0, <1>9 DEF Done, Goto, PC, TypeOK, LimiterTypeOK, TrackerTypeOK,
                    limiterVars, trackerVars, Target
<1>10. CASE Return
  BY <1>0, <1>10 DEF Return, BatchSummary, TypeOK, LimiterTypeOK, TrackerTypeOK,
                     limiterVars, trackerVars, Target
<1>11. CASE UNCHANGED vars
  BY <1>0, <1>11 DEF vars, limiterVars, trackerVars, batchVars, TypeOK,
                     LimiterTypeOK, TrackerTypeOK, Target
<1>. QED
  BY <1>1, <1>2, <1>3, <1>4, <1>5, <1>6, <1>7, <1>8, <1>9, <1>10, <1>11
     DEF Next, Worker, Callback, Target

LEMMA ActiveStep ==
    ASSUME Counted, [Next]_vars
    PROVE  ActiveCountsHolders'
<1>0. PcOK /\ active = Cardinality(Holders)
  BY DEF Counted, ActiveCountsHolders, TypeOK, PcOK, Target
<1>1. ASSUME NEW t \in Caller, Enter(t) PROVE ActiveCountsHolders'
  <2>1. Cardinality(Holders') = Cardinality(Holders) + 1
    BY <1>0, <1>1, HoldersEnter, HoldersFinite, FS_AddElement
  <2>. QED
    BY <1>0, <1>1, <2>1 DEF Enter, AcquirePasses, ActiveCountsHolders
<1>2. ASSUME NEW t \in Caller, Leave(t) PROVE ActiveCountsHolders'
  <2>1. Cardinality(Holders') = Cardinality(Holders) - 1
    BY <1>0, <1>2, HoldersLeave, HoldersFinite, FS_RemoveElement
  <2>. QED
    BY <1>0, <1>2, <2>1 DEF Leave, Release, ActiveCountsHolders
<1>3. ASSUME NEW t \in Caller,
             \/ Park(t)
             \/ \E b \in BOOLEAN : Respond(t, b)
             \/ Callback(t)
             \/ Store(t)
             \/ Done(t)
      PROVE  ActiveCountsHolders'
  <2>1. Holders' = Holders
    BY <1>0, <1>3, HoldersSame
  <2>2. active' = active
    BY <1>3 DEF Park, AcquireParks, Respond, Callback, Ignore, ReadLimit, Halve,
                Throttle, Store, Done, limiterVars
  <2>. QED  BY <1>0, <2>1, <2>2 DEF ActiveCountsHolders
<1>4. CASE Return \/ UNCHANGED vars
  <2>1. UNCHANGED <<pc, active>>
    BY <1>4 DEF Return, vars, limiterVars, batchVars
  <2>. QED  BY <1>0, <2>1 DEF ActiveCountsHolders, Holders
<1>. QED
  BY <1>1, <1>2, <1>3, <1>4 DEF Next, Worker, Target

(***************************************************************************)
(* Every reachable state is well typed and l.active is exactly the number  *)
(* of goroutines between their Acquire and their Release.                  *)
(***************************************************************************)
THEOREM CountedAlways == Spec => [](TypeOK /\ ActiveCountsHolders)
<1>1. Counted /\ [Next]_vars => Counted'
  BY TypeOKStep, ActiveStep DEF Counted
<1>. QED
  BY <1>1, CountedInit, PTL DEF Spec, Counted

-----------------------------------------------------------------------------
(***************************************************************************)
(* The invariant behind everything the limiter promises.  StaleReads is    *)
(* the reason the handler's read-then-throttle is harmless: a limit read   *)
(* before somebody else's reduction halves to no less than the limit now   *)
(* in force, so Throttle rejects it.                                       *)
(***************************************************************************)

StaleReads ==
    \A t \in Caller : pc[t] = "halving" =>
        /\ seen[t] \in Nat \ {0}
        /\ seen[t] = limit \/ Half(seen[t]) >= limit

BelowInitial == limit <= InitialCeiling /\ active <= InitialCeiling

LimiterInv ==
    Counted /\ StaleReads /\ HalvingChain /\ NoLostWakeup /\ BelowInitial

\* A reduction happens exactly when a handler halves the limit it read while
\* that limit is still in force and above 1; any other call is rejected.
LEMMA HalveEffect ==
    ASSUME Counted, StaleReads, NEW t \in Caller, Halve(t)
    PROVE  \/ /\ limit > 1
              /\ limit' = Half(limit)
              /\ events' = Append(events, [From |-> limit, To |-> Half(limit)])
              /\ parked' = {}
              /\ active' = active
           \/ UNCHANGED limiterVars
<1>1. limit \in Nat \ {0} /\ seen[t] \in Nat \ {0}
  BY DEF Counted, TypeOK, LimiterTypeOK, StaleReads, Halve, Goto
<1>2. Half(limit) \in Nat \ {0} /\ Half(limit) <= limit /\ (limit = 1 => Half(limit) = 1)
  BY <1>1, HalfBounds
<1>3. Half(seen[t]) \in Nat \ {0}
  BY <1>1, HalfBounds
<1>4. CASE Half(seen[t]) >= limit
  BY <1>4 DEF Halve, Throttle
<1>5. CASE Half(seen[t]) < limit
  <2>1. seen[t] = limit
    BY <1>1, <1>3, <1>5 DEF StaleReads, Halve, Goto
  <2>. QED
    BY <1>1, <1>2, <1>5, <2>1 DEF Halve, Throttle, Broadcast
<1>. QED  BY <1>1, <1>3, <1>4, <1>5

LEMMA StaleReadsStep ==
    ASSUME LimiterInv, [Next]_vars
    PROVE  StaleReads'
<1>0. /\ Counted /\ StaleReads /\ PcOK
      /\ limit \in Nat \ {0} /\ seen \in [Caller -> Nat]
  BY DEF LimiterInv, Counted, TypeOK, LimiterTypeOK, PcOK, Target
<1>1. ASSUME NEW t \in Caller, ReadLimit(t) PROVE StaleReads'
  BY <1>0, <1>1 DEF ReadLimit, Goto, StaleReads, limiterVars, PcOK
<1>2. ASSUME NEW t \in Caller, Halve(t) PROVE StaleReads'
  <2>1. UNCHANGED seen /\ \A u \in Caller : pc'[u] = "halving" => pc[u] = "halving"
    BY <1>0, <1>2 DEF Halve, Goto, PcOK
  <2>2. CASE limit > 1 /\ limit' = Half(limit)
    <3>1. Half(limit) <= limit /\ Half(limit) \in Nat
      BY <1>0, HalfBounds
    <3>2. ASSUME NEW u \in Caller, pc[u] = "halving"
          PROVE  seen[u] \in Nat \ {0} /\ Half(seen[u]) \in Nat /\ Half(seen[u]) >= limit'
      <4>1. seen[u] \in Nat \ {0} /\ (seen[u] = limit \/ Half(seen[u]) >= limit)
        BY <1>0, <3>2 DEF StaleReads
      <4>2. Half(seen[u]) \in Nat
        BY <4>1, HalfBounds
      <4>. QED  BY <1>0, <2>2, <3>1, <4>1, <4>2
    <3>. QED  BY <2>1, <3>2 DEF StaleReads
  <2>3. CASE UNCHANGED limiterVars
    BY <1>0, <2>1, <2>3 DEF StaleReads, limiterVars
  <2>. QED  BY <1>0, <1>2, <2>2, <2>3, HalveEffect
<1>3. ASSUME NEW t \in Caller, Enter(t) PROVE StaleReads'
  BY <1>0, <1>3 DEF Enter, AcquirePasses, Goto, StaleReads, PcOK
<1>4. ASSUME NEW t \in Caller, Leave(t) PROVE StaleReads'
  BY <1>0, <1>4 DEF Leave, Release, Goto, StaleReads, PcOK
<1>5. ASSUME NEW t \in Caller, Park(t) \/ Store(t) \/ Done(t) \/ Ignore(t)
      PROVE  StaleReads'
  BY <1>0, <1>5 DEF Park, AcquireParks, Store, Done, Ignore, Goto, StaleReads,
                    limiterVars, batchVars, PcOK
<1>6. ASSUME NEW t \in Caller, NEW b \in BOOLEAN, Respond(t, b) PROVE StaleReads'
  BY <1>0, <1>6 DEF Respond, Goto, StaleReads, limiterVars, PcOK
<1>7. CASE Return \/ UNCHANGED vars
  BY <1>0, <1>7 DEF Return, vars, limiterVars, batchVars, StaleReads
<1>. QED
  BY <1>1, <1>2, <1>3, <1>4, <1>5, <1>6, <1>7
     DEF Next, Worker, Callback, Target

\* What the other three parts depend on: every step leaves the limiter alone,
\* enters, leaves, parks or halves.
LEMMA LimiterSteps ==
    ASSUME LimiterInv, [Next]_vars
    PROVE  \/ UNCHANGED limiterVars
           \/ \E c \in Caller : AcquireParks(c)
           \/ \E c \in Caller : AcquirePasses(c)
           \/ Release
           \/ /\ limit > 1
              /\ limit' = Half(limit)
              /\ events' = Append(events, [From |-> limit, To |-> Half(limit)])
              /\ parked' = {}
              /\ active' = active
<1>1. ASSUME NEW t \in Caller, Worker(t)
      PROVE  \/ UNCHANGED limiterVars
             \/ AcquireParks(t) \/ AcquirePasses(t) \/ Release \/ Halve(t)
  BY <1>1 DEF Worker, Park, Enter, Respond, Callback, Ignore, ReadLimit, Store,
              Leave, Done
<1>2. CASE Return \/ UNCHANGED vars
  BY <1>2 DEF Return, vars
<1>. QED
  BY <1>1, <1>2, HalveEffect DEF Next, Target, LimiterInv

LEMMA ChainStep ==
    ASSUME LimiterInv, [Next]_vars
    PROVE  HalvingChain'
<1>0. /\ HalvingChain /\ events \in Seq(ThrottleEvent) /\ limit \in Nat \ {0}
      /\ InitialCeiling \in Nat
  BY InitialCeilingType DEF LimiterInv, Counted, TypeOK, LimiterTypeOK
<1>1. CASE UNCHANGED <<events, limit>>
  BY <1>0, <1>1 DEF HalvingChain
<1>2. CASE /\ limit > 1
           /\ limit' = Half(limit)
           /\ events' = Append(events, [From |-> limit, To |-> Half(limit)])
  <2>. DEFINE e == [From |-> limit, To |-> Half(limit)]
              n == Len(events)
  <2>1. n \in Nat /\ DOMAIN events = 1..n /\ (events = << >> <=> n = 0)
    BY <1>0
  <2>2. /\ Len(events') = n + 1
        /\ DOMAIN events' = 1..(n + 1)
        /\ events'[n + 1] = e
        /\ \A i \in 1..n : events'[i] = events[i]
    BY <1>0, <1>2
  <2>3. Half(limit) < limit
    BY <1>0, <1>2, HalfBounds
  <2>4. limit = IF n = 0 THEN InitialCeiling ELSE events[n].To
    BY <1>0, <2>1 DEF HalvingChain
  <2>5. ASSUME NEW i \in 1..(n + 1)
        PROVE  /\ events'[i].To = Half(events'[i].From)
               /\ events'[i].To < events'[i].From
               /\ events'[i].From = IF i = 1 THEN InitialCeiling ELSE events'[i - 1].To
    <3>1. CASE i = n + 1
      <4>1. i - 1 = n /\ (n # 0 => n \in 1..n)
        BY <2>1, <3>1
      <4>2. events'[i] = e /\ e.From = limit /\ e.To = Half(limit)
        BY <2>2, <3>1
      <4>3. limit = IF i = 1 THEN InitialCeiling ELSE events'[i - 1].To
        BY <2>1, <2>2, <2>4, <3>1, <4>1
      <4>. QED  BY <2>3, <4>2, <4>3
    <3>2. CASE i # n + 1
      <4>1. i \in 1..n /\ (i # 1 => i - 1 \in 1..n)
        BY <2>1, <3>2
      <4>2. i \in DOMAIN events
        BY <2>1, <4>1
      <4>. QED  BY <1>0, <2>2, <4>1, <4>2 DEF HalvingChain
    <3>. QED  BY <3>1, <3>2
  <2>6. limit' = events'[n + 1].To
    BY <1>2, <2>2
  <2>7. events' # << >>
    BY <1>0, <1>2, <2>1, <2>2
  <2>. QED
    BY <1>0, <2>1, <2>2, <2>5, <2>6, <2>7, InitialCeilingType DEF HalvingChain
<1>. QED
  BY <1>1, <1>2, LimiterSteps
     DEF limiterVars, AcquireParks, AcquirePasses, Release

LEMMA WakeupStep ==
    ASSUME LimiterInv, [Next]_vars
    PROVE  NoLostWakeup'
<1>0. NoLostWakeup /\ limit \in Nat /\ active \in Nat
  BY DEF LimiterInv, Counted, TypeOK, LimiterTypeOK
<1>. QED
  BY <1>0, LimiterSteps
     DEF NoLostWakeup, limiterVars, AcquireParks, AcquirePasses, Release,
         Broadcast

LEMMA BelowInitialStep ==
    ASSUME LimiterInv, [Next]_vars
    PROVE  BelowInitial'
<1>0. /\ BelowInitial /\ limit \in Nat \ {0} /\ active \in Nat
      /\ InitialCeiling \in Nat /\ Half(limit) \in Nat /\ Half(limit) <= limit
      /\ InitialCeiling' = InitialCeiling
  BY InitialCeilingType, HalfBounds
     DEF LimiterInv, Counted, TypeOK, LimiterTypeOK, InitialCeiling
<1>. QED
  BY <1>0, LimiterSteps
     DEF BelowInitial, limiterVars, AcquireParks, AcquirePasses, Release

LEMMA LimiterInvInit == Init => LimiterInv
<1>. SUFFICES ASSUME Init PROVE LimiterInv
  OBVIOUS
<1>1. StaleReads
  BY DEF Init, StaleReads, Target
<1>2. HalvingChain /\ NoLostWakeup /\ BelowInitial
  BY InitialCeilingType
     DEF Init, NewAdaptiveLimiter, HalvingChain, NoLostWakeup, BelowInitial
<1>. QED  BY <1>1, <1>2, CountedInit DEF LimiterInv

LEMMA LimiterInvStep == LimiterInv /\ [Next]_vars => LimiterInv'
<1>1. LimiterInv => Counted
  BY DEF LimiterInv
<1>. QED
  BY <1>1, TypeOKStep, ActiveStep, StaleReadsStep, ChainStep, WakeupStep,
     BelowInitialStep DEF LimiterInv, Counted

LEMMA LimiterInvAlways == Spec => []LimiterInv
BY LimiterInvInit, LimiterInvStep, PTL DEF Spec

(***************************************************************************)
(* However the handlers interleave, the recorded reductions are one chain  *)
(* of exact halvings from the initial ceiling to the limit in force.       *)
(***************************************************************************)
THEOREM HalvingChainAlways == Spec => []HalvingChain
BY LimiterInvAlways, PTL DEF LimiterInv

(***************************************************************************)
(* A goroutine blocked in cond.Wait always faces a full pool.              *)
(***************************************************************************)
THEOREM NoLostWakeupAlways == Spec => []NoLostWakeup
BY LimiterInvAlways, PTL DEF LimiterInv

(***************************************************************************)
(* No more targets run at once than --parallel allows.                     *)
(***************************************************************************)
THEOREM InitialCeilingAlways == Spec => []InitialCeilingHolds
<1>1. LimiterInv => InitialCeilingHolds
  BY DEF LimiterInv, Counted, ActiveCountsHolders, BelowInitial,
         InitialCeilingHolds
<1>. QED  BY <1>1, LimiterInvAlways, PTL

(***************************************************************************)
(* The limit never grows, and over the limit nobody enters.                *)
(***************************************************************************)
THEOREM NeverGrowsBackAlways == Spec => NeverGrowsBack
<1>. DEFINE Step ==
        /\ limit' <= limit
        /\ Cardinality(Holders') > limit' =>
              Cardinality(Holders') <= Cardinality(Holders)
<1>1. LimiterInv /\ LimiterInv' /\ [Next]_vars => Step
  <2>. SUFFICES ASSUME LimiterInv, LimiterInv', [Next]_vars PROVE Step
    OBVIOUS
  <2>1. /\ limit \in Nat \ {0} /\ active \in Nat
        /\ active = Cardinality(Holders) /\ active' = Cardinality(Holders')
        /\ Half(limit) \in Nat /\ Half(limit) <= limit
    BY HalfBounds
       DEF LimiterInv, Counted, ActiveCountsHolders, TypeOK, LimiterTypeOK
  <2>. HIDE DEF Step
  <2>2. limit' <= limit /\ (active' > limit' => active' <= active)
    BY <2>1, LimiterSteps
       DEF limiterVars, AcquireParks, AcquirePasses, Release
  <2>. QED  BY <2>1, <2>2 DEF Step
<1>. QED
  BY <1>1, LimiterInvAlways, PTL DEF Spec, NeverGrowsBack

-----------------------------------------------------------------------------
(***************************************************************************)
(* Every reduction is paid for by a run of 429s of its own.  A callback    *)
(* that may still halve is a run not yet spent; the tracker gives each     *)
(* callback the run that ends with its own response.                       *)
(***************************************************************************)

\* The goroutines whose callback was called with a long streak and has not throttled yet.
Owing == {t \in Caller : pc[t] \in {"notified", "halving"} /\ streak[t] >= 3}

Sustained == SustainedAt(3)

PaidFor ==
    /\ \A t \in Caller : pc[t] = "halving" => streak[t] >= 3
    /\ consecutive <= Len(answers)
    /\ \A k \in 1..Len(answers) : k > Len(answers) - consecutive => answers[k]
    /\ Len(events) + Cardinality(Owing) <= Cardinality(Sustained)

LEMMA OwingFinite == IsFiniteSet(Owing) /\ Cardinality(Owing) \in Nat
<1>1. Owing \subseteq Caller
  BY DEF Owing
<1>2. IsFiniteSet(Owing)
  BY <1>1, BoundsAssumption, FS_Subset
<1>. QED  BY <1>2, FS_CardinalityType

LEMMA SustainedFinite ==
    ASSUME TrackerTypeOK
    PROVE  IsFiniteSet(Sustained) /\ Cardinality(Sustained) \in Nat
<1>1. Len(answers) \in Nat /\ DOMAIN answers = 1..Len(answers)
  BY DEF TrackerTypeOK
<1>2. Sustained \subseteq 1..Len(answers)
  BY <1>1 DEF Sustained, SustainedAt
<1>3. IsFiniteSet(1..Len(answers))
  BY <1>1, FS_Interval
<1>4. IsFiniteSet(Sustained)
  BY <1>2, <1>3, FS_Subset
<1>. QED  BY <1>4, FS_CardinalityType

\* A further response keeps the runs there are; a third 429 in a row ends a new one.
LEMMA ObserveSustains ==
    ASSUME TrackerTypeOK, PaidFor, NEW b \in BOOLEAN, Observe(b)
    PROVE  /\ Cardinality(Sustained) <= Cardinality(Sustained')
           /\ b /\ consecutive + 1 >= 3 => Cardinality(Sustained') = Cardinality(Sustained) + 1
<1>. DEFINE n == Len(answers)
<1>1. /\ n \in Nat /\ DOMAIN answers = 1..n /\ answers' = Append(answers, b)
      /\ consecutive \in Nat /\ answers \in Seq(BOOLEAN)
  BY DEF TrackerTypeOK, Observe
<1>2. /\ DOMAIN answers' = 1..(n + 1)
      /\ \A k \in 1..n : answers'[k] = answers[k]
      /\ answers'[n + 1] = b
  BY <1>1
<1>. HIDE DEF n
<1>3. Sustained = {i \in 1..n : i >= 3 /\ \A k \in (i - 2)..i : answers[k]}
  <2>1. \A i \in 1..n : i - 3 + 1 = i - 2
    BY <1>1
  <2>. QED  BY <1>1, <2>1 DEF Sustained, SustainedAt
<1>4. Sustained' = {i \in 1..(n + 1) : i >= 3 /\ \A k \in (i - 2)..i : answers'[k]}
  <2>1. \A i \in 1..(n + 1) : i - 3 + 1 = i - 2
    BY <1>1
  <2>. QED  BY <1>2, <2>1 DEF Sustained, SustainedAt
<1>5. \A i \in 1..n : i >= 3 =>
        ((\A k \in (i - 2)..i : answers'[k]) <=> (\A k \in (i - 2)..i : answers[k]))
  <2>1. \A i \in 1..n : i >= 3 => \A k \in (i - 2)..i : k \in 1..n
    BY <1>1
  <2>. QED  BY <1>2, <2>1
<1>6. Sustained \subseteq Sustained'
  <2>1. \A i \in 1..n : i \in 1..(n + 1)
    BY <1>1
  <2>. QED  BY <1>3, <1>4, <1>5, <2>1
<1>7. Sustained' \subseteq Sustained \cup {n + 1}
  <2>1. \A i \in 1..(n + 1) : i # n + 1 => i \in 1..n
    BY <1>1
  <2>. QED  BY <1>3, <1>4, <1>5, <2>1
<1>8. n + 1 \notin Sustained
  <2>1. n + 1 \notin 1..n
    BY <1>1
  <2>. QED  BY <1>3, <2>1
<1>9. IsFiniteSet(Sustained) /\ Cardinality(Sustained) \in Nat
  BY SustainedFinite
<1>10. Sustained' = Sustained \/ Sustained' = Sustained \cup {n + 1}
  BY <1>6, <1>7
<1>11. Cardinality(Sustained \cup {n + 1}) = Cardinality(Sustained) + 1
  BY <1>8, <1>9, FS_AddElement
<1>12. ASSUME b, consecutive + 1 >= 3
       PROVE  n + 1 \in Sustained'
  <2>1. \A k \in 1..n : k > n - consecutive => answers[k]
    BY DEF PaidFor, n
  <2>2. consecutive <= n
    BY DEF PaidFor, n
  <2>3. n + 1 \in 1..(n + 1) /\ n + 1 >= 3
    BY <1>1, <1>12, <2>2
  <2>4. ASSUME NEW k \in ((n + 1) - 2)..(n + 1)
        PROVE  answers'[k]
    <3>1. CASE k = n + 1
      BY <1>2, <1>12, <3>1
    <3>2. CASE k # n + 1
      <4>1. k \in 1..n /\ k > n - consecutive
        BY <1>1, <1>12, <2>2, <2>4, <3>2
      <4>. QED  BY <1>2, <2>1, <4>1
    <3>. QED  BY <3>1, <3>2
  <2>5. \A k \in ((n + 1) - 2)..(n + 1) : answers'[k]
    BY <2>4
  <2>. QED  BY <1>4, <2>3, <2>5, Zenon
<1>13. Cardinality(Sustained) <= Cardinality(Sustained')
  BY <1>9, <1>10, <1>11
<1>14. ASSUME b, consecutive + 1 >= 3
       PROVE  Cardinality(Sustained') = Cardinality(Sustained) + 1
  <2>1. Sustained' # Sustained
    BY <1>8, <1>12, <1>14
  <2>. QED  BY <1>10, <1>11, <2>1
<1>. QED  BY <1>13, <1>14

\* The counter is the length of the run of 429s the answers end with.
LEMMA CounterIsTheRun ==
    ASSUME TrackerTypeOK, PaidFor, NEW b \in BOOLEAN, Observe(b)
    PROVE  /\ consecutive' <= Len(answers')
           /\ \A k \in 1..Len(answers') : k > Len(answers') - consecutive' => answers'[k]
<1>. DEFINE n == Len(answers)
<1>1. /\ n \in Nat /\ answers' = Append(answers, b) /\ answers \in Seq(BOOLEAN)
      /\ consecutive \in Nat /\ consecutive <= n
      /\ \A k \in 1..n : k > n - consecutive => answers[k]
  BY DEF TrackerTypeOK, Observe, PaidFor
<1>2. /\ Len(answers') = n + 1
      /\ \A k \in 1..n : answers'[k] = answers[k]
      /\ answers'[n + 1] = b
  BY <1>1
<1>. HIDE DEF n
<1>3. CASE b
  <2>1. consecutive' = consecutive + 1
    BY <1>3 DEF Observe, NextStreak
  <2>2. \A k \in 1..(n + 1) : k > (n + 1) - (consecutive + 1) => answers'[k]
    <3>1. \A k \in 1..(n + 1) : k = n + 1 \/ (k \in 1..n /\ (k > (n + 1) - (consecutive + 1) => k > n - consecutive))
      BY <1>1
    <3>. QED  BY <1>1, <1>2, <1>3, <3>1
  <2>. QED  BY <1>1, <1>2, <2>1, <2>2
<1>4. CASE ~b
  <2>1. consecutive' = 0
    BY <1>4 DEF Observe, NextStreak
  <2>2. \A k \in 1..(n + 1) : ~(k > n + 1 - 0)
    BY <1>1
  <2>. QED  BY <1>1, <1>2, <2>1, <2>2
<1>. QED  BY <1>3, <1>4

LEMMA PaidForInit == Init => PaidFor
<1>. SUFFICES ASSUME Init PROVE PaidFor
  OBVIOUS
<1>1. /\ events = << >> /\ answers = << >> /\ consecutive = 0
      /\ \A t \in Caller : pc[t] = "acquiring"
  BY DEF Init, NewAdaptiveLimiter, newThrottleTracker, Target
<1>2. Owing = {}
  BY <1>1 DEF Owing
<1>3. Sustained = {}
  BY <1>1 DEF Sustained, SustainedAt
<1>. QED  BY <1>1, <1>2, <1>3, FS_EmptySet DEF PaidFor

LEMMA PaidForStep ==
    ASSUME LimiterInv, PaidFor, [Next]_vars
    PROVE  PaidFor'
<1>0. /\ TypeOK /\ PcOK /\ TrackerTypeOK /\ streak \in [Caller -> Nat]
      /\ events \in Seq(ThrottleEvent) /\ Len(events) \in Nat
  BY DEF LimiterInv, Counted, TypeOK, LimiterTypeOK, PcOK, Target
<1>1. IsFiniteSet(Owing) /\ Cardinality(Owing) \in Nat /\ Cardinality(Sustained) \in Nat
  BY <1>0, OwingFinite, SustainedFinite
<1>2. Len(events) + Cardinality(Owing) <= Cardinality(Sustained)
  BY DEF PaidFor
<1>3. ASSUME NEW t \in Caller, NEW b \in BOOLEAN, Respond(t, b)
      PROVE  PaidFor'
  <2>1. /\ pc[t] = "running" /\ Observe(b) /\ events' = events
        /\ pc' = [pc EXCEPT ![t] = IF b THEN "notified" ELSE "running"]
        /\ streak' = [streak EXCEPT ![t] = NextStreak(b)]
    BY <1>3 DEF Respond, Goto, limiterVars
  <2>2. /\ consecutive' <= Len(answers')
        /\ \A k \in 1..Len(answers') : k > Len(answers') - consecutive' => answers'[k]
    BY <1>0, <2>1, CounterIsTheRun
  <2>3. \A u \in Caller : pc'[u] = "halving" => streak'[u] >= 3
    BY <1>0, <2>1 DEF PaidFor, PcOK
  <2>4. t \notin Owing
    BY <2>1 DEF Owing
  <2>5. Len(events') + Cardinality(Owing') <= Cardinality(Sustained')
    <3>1. Cardinality(Sustained) <= Cardinality(Sustained')
          /\ (b /\ consecutive + 1 >= 3 => Cardinality(Sustained') = Cardinality(Sustained) + 1)
      BY <1>0, <2>1, ObserveSustains
    <3>2. TrackerTypeOK'
      BY <1>0, <2>1 DEF TrackerTypeOK, Observe, NextStreak
    <3>3. Cardinality(Sustained') \in Nat
      <4>1. Len(answers') \in Nat /\ DOMAIN answers' = 1..Len(answers')
        BY <3>2 DEF TrackerTypeOK
      <4>2. Sustained' \subseteq 1..Len(answers')
        BY <4>1 DEF Sustained, SustainedAt
      <4>3. IsFiniteSet(1..Len(answers'))
        BY <4>1, FS_Interval
      <4>4. IsFiniteSet(Sustained')
        BY <4>2, <4>3, FS_Subset
      <4>. QED  BY <4>4, FS_CardinalityType
    <3>4. CASE b /\ consecutive + 1 >= 3
      <4>1. NextStreak(b) >= 3
        BY <3>4 DEF NextStreak
      <4>2. Owing' = Owing \cup {t}
        BY <1>0, <2>1, <3>4, <4>1 DEF Owing, PcOK
      <4>3. Cardinality(Owing') = Cardinality(Owing) + 1
        BY <1>1, <2>4, <4>2, FS_AddElement
      <4>. QED  BY <1>0, <1>1, <1>2, <2>1, <3>1, <3>4, <4>3
    <3>5. CASE ~(b /\ consecutive + 1 >= 3)
      <4>1. b => ~(NextStreak(b) >= 3)
        BY <3>5 DEF NextStreak
      <4>2. Owing' = Owing
        BY <1>0, <2>1, <2>4, <4>1 DEF Owing, PcOK
      <4>. QED  BY <1>0, <1>1, <1>2, <2>1, <3>1, <3>3, <4>2
    <3>. QED  BY <3>4, <3>5
  <2>. QED  BY <2>2, <2>3, <2>5 DEF PaidFor
<1>4. ASSUME NEW t \in Caller, Halve(t)
      PROVE  PaidFor'
  <2>1. /\ pc[t] = "halving" /\ UNCHANGED <<streak, consecutive, answers>>
        /\ pc' = [pc EXCEPT ![t] = "running"]
    BY <1>4 DEF Halve, Goto, trackerVars
  <2>2. t \in Owing /\ Owing' = Owing \ {t}
    BY <1>0, <2>1 DEF Owing, PaidFor, PcOK
  <2>3. Cardinality(Owing') = Cardinality(Owing) - 1
    BY <1>1, <2>2, FS_RemoveElement
  <2>4. Len(events') <= Len(events) + 1 /\ Len(events') \in Nat
    <3>1. CASE events' = events
      BY <1>0, <3>1
    <3>2. CASE events' = Append(events, [From |-> limit, To |-> Half(limit)])
      BY <1>0, <3>2
    <3>. QED  BY <1>4, <3>1, <3>2, HalveEffect DEF LimiterInv, limiterVars
  <2>5. Sustained' = Sustained
    BY <2>1 DEF Sustained, SustainedAt
  <2>6. Len(events') + Cardinality(Owing') <= Cardinality(Sustained')
    BY <1>0, <1>1, <1>2, <2>3, <2>4, <2>5
  <2>7. \A u \in Caller : pc'[u] = "halving" => streak'[u] >= 3
    BY <1>0, <2>1 DEF PaidFor, PcOK
  <2>. QED  BY <2>1, <2>6, <2>7 DEF PaidFor
<1>5. ASSUME NEW t \in Caller, Ignore(t) \/ ReadLimit(t)
      PROVE  PaidFor'
  <2>1. /\ pc[t] = "notified" /\ UNCHANGED <<streak, consecutive, answers, events>>
        /\ \/ streak[t] < 3 /\ pc' = [pc EXCEPT ![t] = "running"]
           \/ streak[t] >= 3 /\ pc' = [pc EXCEPT ![t] = "halving"]
    BY <1>5 DEF Ignore, ReadLimit, Goto, trackerVars, limiterVars, sustainedThrottleStreak
  <2>2. Owing' = Owing
    BY <1>0, <2>1 DEF Owing, PcOK
  <2>3. \A u \in Caller : pc'[u] = "halving" => streak'[u] >= 3
    BY <1>0, <2>1 DEF PaidFor, PcOK
  <2>. QED  BY <2>1, <2>2, <2>3 DEF PaidFor, Sustained, SustainedAt
<1>6. ASSUME NEW t \in Caller, Park(t) \/ Enter(t) \/ Store(t) \/ Leave(t) \/ Done(t)
      PROVE  PaidFor'
  <2>1. /\ UNCHANGED <<streak, consecutive, answers, events>>
        /\ \A u \in Caller : pc'[u] \in {"notified", "halving"} \/ pc[u] \in {"notified", "halving"} =>
             pc'[u] = pc[u]
    BY <1>0, <1>6 DEF Park, AcquireParks, Enter, AcquirePasses, Store, Leave, Release, Done, Goto,
                      trackerVars, limiterVars, batchVars, PcOK
  <2>2. Owing' = Owing
    BY <2>1 DEF Owing
  <2>3. \A u \in Caller : pc'[u] = "halving" => streak'[u] >= 3
    BY <2>1 DEF PaidFor
  <2>. QED  BY <2>1, <2>2, <2>3 DEF PaidFor, Sustained, SustainedAt
<1>7. CASE Return \/ UNCHANGED vars
  <2>1. UNCHANGED <<pc, streak, consecutive, answers, events>>
    BY <1>7 DEF Return, vars, limiterVars, trackerVars, batchVars
  <2>. QED  BY <2>1 DEF PaidFor, Owing, Sustained, SustainedAt
<1>. QED  BY <1>3, <1>4, <1>5, <1>6, <1>7 DEF Next, Worker, Callback, Target

(***************************************************************************)
(* However stale a callback is when it throttles, no two reductions share  *)
(* a run of three 429s in a row, and an isolated 429 causes none.          *)
(***************************************************************************)
THEOREM ReductionsAreSustainedAlways == Spec => []ReductionsAreSustained
<1>1. LimiterInv /\ PaidFor => ReductionsAreSustained
  <2>. SUFFICES ASSUME LimiterInv, PaidFor PROVE ReductionsAreSustained
    OBVIOUS
  <2>1. Len(events) \in Nat /\ TrackerTypeOK
    BY DEF LimiterInv, Counted, TypeOK, LimiterTypeOK
  <2>2. Cardinality(Sustained) \in Nat /\ Cardinality(Owing) \in Nat
    BY <2>1, SustainedFinite, OwingFinite
  <2>3. Len(events) <= Cardinality(Sustained)
    BY <2>1, <2>2 DEF PaidFor
  <2>. QED  BY <2>3 DEF ReductionsAreSustained, Sustained, sustainedThrottleStreak
<1>2. LimiterInv /\ PaidFor /\ [Next]_vars => PaidFor'
  BY PaidForStep
<1>. QED  BY <1>1, <1>2, PaidForInit, LimiterInvInit, LimiterInvStep, PTL DEF Spec

-----------------------------------------------------------------------------
(***************************************************************************)
(* What RunBatch returns is final.                                         *)
(***************************************************************************)

FinalInv ==
    /\ PcOK
    /\ \A t \in Caller : pc[t] \in {"stored", "released", "done"} => t \in filled
    /\ filled \subseteq Caller
    /\ summary # NotReturned =>
         /\ AllDone
         /\ summary.Results = Target
         /\ summary.Throttle = events

LEMMA FinalInit == Init => FinalInv
BY DEF Init, FinalInv, PcOK, PC, Target

LEMMA FinalStep == FinalInv /\ [Next]_vars => FinalInv'
<1>. SUFFICES ASSUME FinalInv, [Next]_vars PROVE FinalInv'
  OBVIOUS
<1>1. ASSUME NEW t \in Caller, Worker(t) PROVE FinalInv'
  <2>1. pc[t] # "done" /\ summary' = summary
    BY <1>1 DEF Worker, Park, Enter, Respond, Callback, Ignore, ReadLimit,
                Halve, Store, Leave, Done, Goto, batchVars
  <2>2. summary = NotReturned
    BY <2>1 DEF FinalInv, AllDone, Target
  <2>3. PcOK'
    BY <1>1 DEF FinalInv, PcOK, PC, Worker, Park, Enter, Respond, Callback,
                Ignore, ReadLimit, Halve, Store, Leave, Done, Goto, batchVars
  <2>4. CASE Store(t)
    BY <2>1, <2>2, <2>3, <2>4 DEF FinalInv, PcOK, Store, Goto
  <2>5. CASE ~Store(t)
    <3>1. filled' = filled
      BY <1>1, <2>5 DEF Worker, Park, Enter, Respond, Callback, Ignore,
                        ReadLimit, Halve, Leave, Done, batchVars
    <3>2. \A u \in Caller : pc'[u] \in {"stored", "released", "done"} =>
                            pc[u] \in {"stored", "released", "done"}
      BY <1>1, <2>5 DEF FinalInv, PcOK, Worker, Park, Enter, Respond, Callback,
                        Ignore, ReadLimit, Halve, Leave, Done, Goto, batchVars
    <3>. QED  BY <2>1, <2>2, <2>3, <3>1, <3>2 DEF FinalInv
  <2>. QED  BY <2>4, <2>5
<1>2. CASE Return
  BY <1>2 DEF FinalInv, PcOK, Return, AllDone, Target, limiterVars
<1>3. CASE UNCHANGED vars
  BY <1>3 DEF FinalInv, PcOK, AllDone, vars, batchVars, limiterVars
<1>. QED  BY <1>1, <1>2, <1>3 DEF Next, Target

(***************************************************************************)
(* Once RunBatch has returned, every target has its result and the list of *)
(* reductions it returned is all there will ever be.                       *)
(***************************************************************************)
THEOREM SummaryIsFinalAlways == Spec => []SummaryIsFinal
<1>1. FinalInv => SummaryIsFinal
  BY DEF FinalInv, SummaryIsFinal
<1>. QED  BY <1>1, FinalInit, FinalStep, PTL DEF Spec

-----------------------------------------------------------------------------
(***************************************************************************)
(* Batch implements the abstract pool: initial states map to initial       *)
(* states and every step to a pool step or a stutter.                      *)
(***************************************************************************)

LEMMA PoolInit == Init => Pool!Init
BY DEF Init, NewAdaptiveLimiter, Pool!Init, Holders, Target

LEMMA PoolStep == LimiterInv /\ [Next]_vars => [Pool!Next]_(Pool!poolVars)
<1>. SUFFICES ASSUME LimiterInv, [Next]_vars
              PROVE  [Pool!Next]_(Pool!poolVars)
  OBVIOUS
<1>. DEFINE Finished == {t \in Target : pc[t] \in {"released", "done"}}
<1>0. /\ Counted /\ StaleReads /\ PcOK /\ active = Cardinality(Holders)
      /\ limit \in Nat \ {0}
  BY DEF LimiterInv, Counted, ActiveCountsHolders, TypeOK, LimiterTypeOK, PcOK,
         Target
<1>1. ASSUME NEW t \in Caller, Enter(t) PROVE Pool!Start(t)
  <2>1. t \notin Finished /\ Finished' = Finished
    BY <1>0, <1>1 DEF PcOK, Enter, Goto, Target
  <2>2. Cardinality(Holders) < limit /\ limit' = limit
    BY <1>0, <1>1 DEF Enter, AcquirePasses
  <2>3. t \notin Holders \cup Finished /\ Holders' = Holders \cup {t}
    BY <1>0, <1>1, <2>1, HoldersEnter
  <2>4. Pool!Cardinality(Holders) = Cardinality(Holders)
    BY DEF Pool!Cardinality, Cardinality
  <2>. QED
    BY <2>1, <2>2, <2>3, <2>4 DEF Pool!Start
<1>2. ASSUME NEW t \in Caller, Leave(t) PROVE Pool!Finish(t)
  <2>1. Finished' = Finished \cup {t}
    BY <1>0, <1>2 DEF PcOK, Leave, Goto, Target
  <2>2. limit' = limit
    BY <1>2 DEF Leave, Release
  <2>. QED
    BY <1>0, <1>2, <2>1, <2>2, HoldersLeave DEF Pool!Finish
<1>3. ASSUME NEW t \in Caller,
             \/ Park(t)
             \/ \E b \in BOOLEAN : Respond(t, b)
             \/ Callback(t)
             \/ Store(t)
             \/ Done(t)
      PROVE  Pool!Shrink \/ UNCHANGED Pool!poolVars
  <2>1. Holders' = Holders
    BY <1>0, <1>3, HoldersSame
  <2>2. Finished' = Finished
    BY <1>0, <1>3 DEF PcOK, Park, Respond, Callback, Ignore, ReadLimit, Halve,
                      Store, Done, Goto, batchVars, Target
  <2>3. CASE Halve(t)
    <3>1. t \in Holders
      BY <2>3 DEF Halve, Goto, Holders, Target
    <3>2. \/ limit > 1 /\ limit' = limit \div 2
          \/ limit' = limit
      BY <1>0, <2>3, HalveEffect, HalfBounds DEF limiterVars
    <3>. QED
      BY <2>1, <2>2, <3>1, <3>2 DEF Pool!Shrink, Pool!poolVars
  <2>4. CASE ~Halve(t)
    <3>1. limit' = limit
      BY <1>3, <2>4 DEF Park, AcquireParks, Respond, Callback, Ignore, ReadLimit,
                        Store, Done, limiterVars
    <3>. QED  BY <2>1, <2>2, <3>1 DEF Pool!poolVars
  <2>. QED  BY <2>3, <2>4
<1>4. CASE Return \/ UNCHANGED vars
  <2>1. UNCHANGED <<pc, limit>>
    BY <1>4 DEF Return, vars, limiterVars, batchVars
  <2>2. Holders' = Holders /\ Finished' = Finished
    BY <2>1 DEF Holders
  <2>. QED  BY <2>1, <2>2 DEF Pool!poolVars
<1>. QED
  BY <1>1, <1>2, <1>3, <1>4 DEF Next, Worker, Pool!Next, Target

(***************************************************************************)
(* Every behaviour of RunBatch is a behaviour of the bounded pool, for any *)
(* number of targets and any --parallel (the safety half of PoolSpec).     *)
(***************************************************************************)
THEOREM BatchImplementsPool == Spec => Pool!Spec
BY PoolInit, PoolStep, LimiterInvAlways, PTL DEF Spec, Pool!Spec

=============================================================================
