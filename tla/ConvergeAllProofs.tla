--------------------------- MODULE ConvergeAllProofs ---------------------------
(***************************************************************************)
(* Theorems about ConvergeAll, for every set of targets, every wait, every *)
(* concurrency and every number of restarts.                               *)
(***************************************************************************)
EXTENDS ConvergeAll, TLAPS

HasOutcome(t) == result[t] # "none" \/ t \in errs

\* A result and an error exclude each other at all times.
Exclusive == \A t \in Target : result[t] = "none" \/ t \notin errs

(***************************************************************************)
(* What is known of a target in each phase.                                *)
(***************************************************************************)
ArmInv(t) ==
    phase = "arm" =>
        /\ pc[t] \in {"queued", "arming", "leaving", "done"}
        /\ pc[t] \in {"queued", "arming"} =>
              t \notin baselines /\ ~HasOutcome(t) /\ elapsed[t] = 0
        /\ pc[t] \in {"leaving", "done"} => (t \in baselines <=> ~HasOutcome(t))

\* The sleep lasts at least until every target's own window is over.
SleepInv(t) ==
    phase = "sleep" =>
        /\ pc[t] = "done"
        /\ t \in baselines <=> ~HasOutcome(t)
        /\ t \in baselines => elapsed[t] + timer >= Wait[t]

AssertInv(t) ==
    phase = "assert" =>
        /\ pc[t] # "arming"
        /\ pc[t] = "queued" => (t \in baselines <=> ~HasOutcome(t))
        /\ pc[t] \in {"asserting", "rearming", "napping"} =>
              t \in baselines /\ ~HasOutcome(t)
        /\ pc[t] = "queued" /\ t \in baselines => elapsed[t] >= Wait[t]
        /\ pc[t] = "asserting" => elapsed[t] >= Wait[t]
        /\ pc[t] = "rearming" => elapsed[t] = 0
        /\ pc[t] \in {"leaving", "done"} => HasOutcome(t)

ReturnedInv(t) == phase = "returned" => HasOutcome(t) /\ pc[t] = "done"

PhaseInv(t) == ArmInv(t) /\ SleepInv(t) /\ AssertInv(t) /\ ReturnedInv(t)

IInv == TypeOK /\ Exclusive /\ \A t \in Target : PhaseInv(t)

LEMMA IInvInit == Init => IInv
<1>. SUFFICES ASSUME Init PROVE IInv
  OBVIOUS
<1>1. TypeOK
  BY ConvergeAllAssumption DEF Init, TypeOK, Phase, PC, Holding, Result
<1>2. Exclusive
  BY DEF Init, Exclusive
<1>3. ASSUME NEW t \in Target PROVE PhaseInv(t)
  BY DEF Init, PhaseInv, ArmInv, SleepInv, AssertInv, ReturnedInv, HasOutcome
<1>. QED  BY <1>1, <1>2, <1>3 DEF IInv

-----------------------------------------------------------------------------
(***************************************************************************)
(* A step of one goroutine leaves what is known of the others alone.       *)
(***************************************************************************)
LEMMA Others ==
    ASSUME TypeOK, NEW t \in Target, Goroutine(t), NEW u \in Target, u # t
    PROVE  /\ pc'[u] = pc[u] /\ elapsed'[u] = elapsed[u]
           /\ restarts'[u] = restarts[u] /\ result'[u] = result[u]
           /\ u \in baselines' <=> u \in baselines
           /\ u \in errs' <=> u \in errs
<1>1. CASE Enter(t) \/ Leave(t)
  BY <1>1 DEF Enter, Leave, Goto, TypeOK
<1>2. CASE Arm(t) \/ ArmEarly(t) \/ ArmFails(t)
  BY <1>2 DEF Arm, ArmEarly, ArmFails, Goto, TypeOK
<1>3. CASE Judge(t) \/ AssertFails(t) \/ Restarted(t) \/ Inconclusive(t)
  BY <1>3 DEF Judge, AssertFails, Restarted, Inconclusive, Goto, TypeOK
<1>4. CASE Rearm(t) \/ RearmEarly(t) \/ FreshWait(t)
  BY <1>4 DEF Rearm, RearmEarly, FreshWait, Goto, TypeOK
<1>. QED  BY <1>1, <1>2, <1>3, <1>4 DEF Goroutine

LEMMA GoroutineFrame ==
    ASSUME NEW t \in Target, Goroutine(t)
    PROVE  UNCHANGED <<phase, timer>>
BY DEF Goroutine, Enter, Leave, Arm, ArmEarly, ArmFails, Judge, AssertFails,
       Restarted, Inconclusive, Rearm, RearmEarly, FreshWait

LEMMA OthersInv ==
    ASSUME IInv, NEW t \in Target, Goroutine(t), NEW u \in Target, u # t
    PROVE  PhaseInv(u)'
<1>1. PhaseInv(u)
  BY DEF IInv
<1>. QED
  BY <1>1, Others, GoroutineFrame
     DEF IInv, PhaseInv, ArmInv, SleepInv, AssertInv, ReturnedInv, HasOutcome

(***************************************************************************)
(* What each step does to its own target.                                  *)
(***************************************************************************)
LEMMA OwnInv ==
    ASSUME IInv, NEW t \in Target, Goroutine(t)
    PROVE  TypeOK' /\ PhaseInv(t)' /\ (result'[t] = "none" \/ t \notin errs')
<1>0. TypeOK /\ PhaseInv(t) /\ (result[t] = "none" \/ t \notin errs)
  BY DEF IInv, Exclusive
<1>. USE DEF PhaseInv, ArmInv, SleepInv, AssertInv, ReturnedInv, HasOutcome
<1>1. CASE Enter(t)
  <2>0. /\ UNCHANGED <<phase, baselines, elapsed, restarts, result, errs, timer>>
        /\ pc[t] = "queued"
        /\ pc'[t] = IF phase = "arm" THEN "arming"
                    ELSE IF t \in baselines THEN "asserting" ELSE "leaving"
    BY <1>0, <1>1 DEF Enter, Goto, TypeOK
  <2>1. /\ phase = "arm" => pc'[t] = "arming"
        /\ phase # "arm" /\ t \in baselines => pc'[t] = "asserting"
        /\ phase # "arm" /\ t \notin baselines => pc'[t] = "leaving"
    BY <2>0
  <2>2. pc' = [pc EXCEPT ![t] = pc'[t]]
    BY <1>0, <1>1 DEF Enter, Goto, TypeOK
  <2>3. pc'[t] \in PC
    BY <2>1 DEF PC, Holding
  <2>4. TypeOK'
    BY <1>0, <2>0, <2>2, <2>3 DEF TypeOK
  <2>. QED  BY <1>0, <2>0, <2>1, <2>4
<1>2. CASE Leave(t)
  BY <1>0, <1>2 DEF Leave, Goto, TypeOK, PC, Holding
<1>3. CASE Arm(t)
  BY <1>0, <1>3 DEF Arm, Goto, TypeOK, PC, Holding, Phase
<1>4. CASE ArmEarly(t)
  BY <1>0, <1>4 DEF ArmEarly, Goto, TypeOK, PC, Holding, Phase, Result
<1>5. CASE ArmFails(t)
  BY <1>0, <1>5 DEF ArmFails, Goto, TypeOK, PC, Holding, Phase
<1>6. CASE Judge(t)
  BY <1>0, <1>6 DEF Judge, Goto, TypeOK, PC, Holding, Phase, Result
<1>7. CASE AssertFails(t)
  BY <1>0, <1>7 DEF AssertFails, TypeOK, PC, Holding, Phase
<1>8. CASE Restarted(t)
  BY <1>0, <1>8, ConvergeAllAssumption
     DEF Restarted, Goto, TypeOK, PC, Holding, Phase
<1>9. CASE Inconclusive(t)
  BY <1>0, <1>9 DEF Inconclusive, Goto, TypeOK, PC, Holding, Phase, Result
<1>10. CASE Rearm(t)
  BY <1>0, <1>10 DEF Rearm, Goto, TypeOK, PC, Holding, Phase
<1>11. CASE RearmEarly(t)
  BY <1>0, <1>11 DEF RearmEarly, Goto, TypeOK, PC, Holding, Phase, Result
<1>12. CASE FreshWait(t)
  BY <1>0, <1>12 DEF FreshWait, Goto, TypeOK, PC, Holding, Phase
<1>. QED
  BY <1>1, <1>2, <1>3, <1>4, <1>5, <1>6, <1>7, <1>8, <1>9, <1>10, <1>11, <1>12
     DEF Goroutine

LEMMA GoroutineStep ==
    ASSUME IInv, NEW t \in Target, Goroutine(t)
    PROVE  IInv'
<1>1. \A u \in Target : PhaseInv(u)'
  BY OwnInv, OthersInv
<1>2. ASSUME NEW u \in Target PROVE result'[u] = "none" \/ u \notin errs'
  BY OwnInv, Others DEF IInv, Exclusive
<1>3. Exclusive'
  BY <1>2 DEF Exclusive
<1>. QED  BY <1>1, <1>3, OwnInv DEF IInv

-----------------------------------------------------------------------------
(***************************************************************************)
(* The steps of RunConvergeAll itself, and time.                           *)
(***************************************************************************)

\* What the barrier's sleep is worth to every target with a baseline.
LEMMA BarrierWaits ==
    ASSUME TypeOK, Barrier, phase' = "sleep", NEW t \in baselines
    PROVE  timer' \in 0..MaxElapsed /\ elapsed[t] + timer' >= Wait[t]
<1>1. PICK last, longest \in baselines :
         /\ LastArmed(last) /\ LongestWait(longest)
         /\ timer' = IF elapsed[last] <= Wait[longest]
                     THEN Wait[longest] - elapsed[last] ELSE 0
  BY DEF Barrier
<1>2. elapsed[last] <= elapsed[t] /\ Wait[t] <= Wait[longest]
  BY <1>1 DEF LastArmed, LongestWait
<1>3. /\ t \in Target /\ last \in Target /\ longest \in Target
      /\ elapsed[last] \in Nat /\ elapsed[t] \in Nat
      /\ Wait[t] \in Nat /\ Wait[longest] \in Nat /\ Wait[longest] <= MaxElapsed
      /\ MaxElapsed \in Nat
  BY ConvergeAllAssumption DEF TypeOK
<1>. QED  BY <1>1, <1>2, <1>3

LEMMA BarrierStep ==
    ASSUME IInv, Barrier
    PROVE  IInv'
<1>0. /\ TypeOK /\ Exclusive
      /\ phase = "arm" /\ \A t \in Target : pc[t] = "done"
      /\ UNCHANGED targetVars
      /\ \/ baselines = {} /\ phase' = "returned" /\ UNCHANGED timer
         \/ phase' = "sleep" /\ timer' \in Int /\ baselines # {}
  <2>1. TypeOK /\ Exclusive
    BY DEF IInv
  <2>2. CASE baselines = {} /\ phase' = "returned" /\ UNCHANGED timer
    BY <2>1, <2>2 DEF Barrier
  <2>3. CASE phase' = "sleep" /\ baselines # {}
    BY <2>1, <2>3, BarrierWaits DEF Barrier
  <2>. QED  BY <2>1, <2>2, <2>3 DEF Barrier
<1>1. TypeOK'
  <2>1. timer' \in 0..MaxElapsed
    <3>1. CASE phase' = "returned"
      BY <1>0, <3>1 DEF TypeOK
    <3>2. CASE phase' = "sleep"
      <4>1. PICK t \in baselines : TRUE
        BY <1>0, <3>2
      <4>. QED  BY <1>0, <3>2, <4>1, BarrierWaits
    <3>. QED  BY <1>0, <3>1, <3>2
  <2>. QED  BY <1>0, <2>1 DEF TypeOK, targetVars, Phase
<1>2. Exclusive'
  BY <1>0 DEF Exclusive, targetVars
<1>3. ASSUME NEW t \in Target PROVE PhaseInv(t)'
  <2>1. ArmInv(t)
    BY DEF IInv, PhaseInv
  <2>2. t \in baselines <=> ~HasOutcome(t)
    BY <1>0, <2>1 DEF ArmInv
  <2>3. /\ pc'[t] = "done" /\ baselines' = baselines /\ elapsed' = elapsed
        /\ HasOutcome(t)' <=> HasOutcome(t)
    BY <1>0 DEF targetVars, HasOutcome
  <2>4. CASE phase' = "returned"
    BY <1>0, <2>2, <2>3, <2>4
       DEF PhaseInv, ArmInv, SleepInv, AssertInv, ReturnedInv
  <2>5. CASE phase' = "sleep"
    BY <1>0, <2>2, <2>3, <2>5, BarrierWaits
       DEF PhaseInv, ArmInv, SleepInv, AssertInv, ReturnedInv
  <2>. QED  BY <1>0, <2>4, <2>5
<1>. QED  BY <1>1, <1>2, <1>3 DEF IInv

LEMMA WakeStep ==
    ASSUME IInv, Wake
    PROVE  IInv'
<1>0. TypeOK /\ Exclusive
  BY DEF IInv
<1>1. TypeOK'
  BY <1>0 DEF TypeOK, Wake, Phase, PC
<1>2. Exclusive'
  BY <1>0 DEF Exclusive, Wake
<1>3. ASSUME NEW t \in Target PROVE PhaseInv(t)'
  <2>1. SleepInv(t) /\ elapsed[t] \in Int
    BY <1>0 DEF IInv, PhaseInv, TypeOK
  <2>2. /\ pc'[t] = "queued" /\ phase' = "assert" /\ phase = "sleep" /\ timer = 0
        /\ UNCHANGED <<baselines, elapsed, result, errs>>
    BY DEF Wake
  <2>. QED
    BY <2>1, <2>2
       DEF PhaseInv, ArmInv, SleepInv, AssertInv, ReturnedInv, HasOutcome
<1>. QED  BY <1>1, <1>2, <1>3 DEF IInv

LEMMA ReturnStep ==
    ASSUME IInv, Return
    PROVE  IInv'
<1>0. TypeOK /\ Exclusive
  BY DEF IInv
<1>1. TypeOK'
  BY <1>0 DEF TypeOK, Return, targetVars, Phase
<1>2. Exclusive'
  BY <1>0 DEF Exclusive, Return, targetVars
<1>3. ASSUME NEW t \in Target PROVE PhaseInv(t)'
  <2>1. AssertInv(t)
    BY DEF IInv, PhaseInv
  <2>. QED
    BY <2>1 DEF Return, targetVars, PhaseInv, ArmInv, SleepInv, AssertInv,
                ReturnedInv, HasOutcome
<1>. QED  BY <1>1, <1>2, <1>3 DEF IInv

\* Time never shortens a window, and stands still for a target without one.
LEMMA TickElapsed ==
    ASSUME TypeOK, Tick, NEW t \in Target
    PROVE  /\ elapsed'[t] \in 0..MaxElapsed
           /\ elapsed'[t] >= elapsed[t]
           /\ t \notin Observed => elapsed'[t] = elapsed[t]
           /\ t \in Observed /\ elapsed[t] < MaxElapsed =>
                elapsed'[t] = elapsed[t] + 1
<1>1. elapsed[t] \in 0..MaxElapsed /\ MaxElapsed \in Nat
  BY ConvergeAllAssumption DEF TypeOK
<1>2. elapsed'[t] = IF t \in Observed /\ elapsed[t] < MaxElapsed
                    THEN elapsed[t] + 1 ELSE elapsed[t]
  BY DEF Tick
<1>. QED  BY <1>1, <1>2

LEMMA TickStep ==
    ASSUME IInv, Tick
    PROVE  IInv'
<1>0. TypeOK /\ Exclusive /\ MaxElapsed \in Nat
  BY ConvergeAllAssumption DEF IInv
<1>1. TypeOK'
  <2>1. elapsed' \in [Target -> 0..MaxElapsed]
    <3>1. elapsed' = [t \in Target |-> elapsed'[t]]
      BY DEF Tick
    <3>. QED  BY <1>0, <3>1, TickElapsed
  <2>2. timer' \in 0..MaxElapsed
    BY <1>0 DEF Tick, TypeOK
  <2>. QED  BY <1>0, <2>1, <2>2 DEF TypeOK, Tick
<1>2. Exclusive'
  BY <1>0 DEF Exclusive, Tick
<1>3. ASSUME NEW t \in Target PROVE PhaseInv(t)'
  <2>1. PhaseInv(t)
    BY DEF IInv
  <2>2. /\ UNCHANGED <<phase, pc, baselines, restarts, result, errs>>
        /\ timer' = IF timer > 0 THEN timer - 1 ELSE 0
    BY DEF Tick
  <2>3. /\ elapsed[t] \in Nat /\ timer \in Nat /\ Wait[t] \in Nat
        /\ Wait[t] <= MaxElapsed
    BY <1>0, ConvergeAllAssumption DEF TypeOK
  <2>4. ArmInv(t)'
    BY <1>0, <2>1, <2>2, TickElapsed DEF PhaseInv, ArmInv, HasOutcome, Observed
  <2>5. SleepInv(t)'
    <3>1. CASE phase = "sleep" /\ t \in baselines
      <4>1. t \in Observed /\ elapsed[t] + timer >= Wait[t] /\ pc[t] = "done"
        BY <2>1, <3>1 DEF PhaseInv, SleepInv, HasOutcome, Observed
      <4>2. elapsed'[t] + timer' >= Wait[t]
        <5>1. CASE elapsed[t] < MaxElapsed
          BY <1>0, <2>2, <2>3, <4>1, <5>1, TickElapsed
        <5>2. CASE elapsed[t] = MaxElapsed
          BY <1>0, <2>2, <2>3, <5>2, TickElapsed
        <5>. QED  BY <1>0, <5>1, <5>2 DEF TypeOK
      <4>. QED  BY <2>1, <2>2, <4>2 DEF PhaseInv, SleepInv, HasOutcome
    <3>. QED  BY <2>1, <2>2, <3>1 DEF PhaseInv, SleepInv, HasOutcome
  <2>6. AssertInv(t)'
    <3>1. /\ elapsed'[t] \in Int /\ elapsed'[t] >= elapsed[t]
          /\ pc[t] = "rearming" => elapsed'[t] = elapsed[t]
      BY <1>0, TickElapsed DEF Observed
    <3>. QED
      BY <2>1, <2>2, <2>3, <3>1 DEF PhaseInv, AssertInv, HasOutcome
  <2>7. ReturnedInv(t)'
    BY <2>1, <2>2 DEF PhaseInv, ReturnedInv, HasOutcome
  <2>. QED  BY <2>4, <2>5, <2>6, <2>7 DEF PhaseInv
<1>. QED  BY <1>1, <1>2, <1>3 DEF IInv

LEMMA IInvStep == IInv /\ [Next]_vars => IInv'
<1>. SUFFICES ASSUME IInv, [Next]_vars PROVE IInv'
  OBVIOUS
<1>1. CASE Main
  BY <1>1, BarrierStep, WakeStep, ReturnStep DEF Main
<1>2. CASE Tick
  BY <1>2, TickStep
<1>3. ASSUME NEW t \in Target, Goroutine(t) PROVE IInv'
  BY <1>3, GoroutineStep
<1>4. CASE UNCHANGED vars
  BY <1>4 DEF vars, targetVars, IInv, TypeOK, Exclusive, PhaseInv, ArmInv,
              SleepInv, AssertInv, ReturnedInv, HasOutcome
<1>. QED  BY <1>1, <1>2, <1>3, <1>4 DEF Next

\* The inductive invariant holds always.
THEOREM IInvAlways == Spec => []IInv
BY IInvInit, IInvStep, PTL DEF Spec

\* Every variable keeps the shape the code gives it: no target is restarted
\* more often than convergeMaxRestartRetries.
THEOREM TypeOKAlways == Spec => []TypeOK
<1>1. IInv => TypeOK
  BY DEF IInv
<1>. QED  BY IInvAlways, <1>1, PTL

\* RunConvergeAll never returns a target with neither a result nor an error,
\* nor with both.
THEOREM OneOutcomeAlways == Spec => []OneOutcome
<1>1. IInv => OneOutcome
  BY DEF IInv, Exclusive, PhaseInv, ReturnedInv, HasOutcome, OneOutcome
<1>. QED  BY IInvAlways, <1>1, PTL

-----------------------------------------------------------------------------
(***************************************************************************)
(* Every step of RunConvergeAll is, for every target, a step of the        *)
(* abstract check or none.                                                 *)
(***************************************************************************)
Promised(t) == [Promise(t)!ObsNext]_(Promise(t)!obsVars)

LEMMA PromiseStutters ==
    ASSUME NEW t \in Target, Stage(t)' = Stage(t),
           Watched(t)' = Watched(t), restarts'[t] = restarts[t]
    PROVE  Promised(t)
BY DEF Promised, Promise!obsVars

LEMMA PromiseInit == ASSUME Init, NEW t \in Target PROVE Promise(t)!ObsInit
<1>1. Wait[t] \in Nat
  BY ConvergeAllAssumption
<1>2. Stage(t) = "arming" /\ Watched(t) = 0 /\ restarts[t] = 0
  BY <1>1 DEF Init, Stage, Watched
<1>. QED  BY <1>2 DEF Promise!ObsInit

\* The steps that open, discard, judge or end the observation of a target.
LEMMA OwnPromise ==
    ASSUME IInv, NEW t \in Target, Goroutine(t)
    PROVE  Promised(t)
<1>0. /\ TypeOK /\ PhaseInv(t) /\ ArmInv(t) /\ SleepInv(t) /\ AssertInv(t)
      /\ ReturnedInv(t) /\ phase \in Phase
  BY DEF IInv, TypeOK, PhaseInv
<1>00. Wait[t] \in Nat /\ Rearms \in Nat /\ elapsed[t] \in Nat /\ restarts[t] \in Nat
  BY <1>0, ConvergeAllAssumption DEF TypeOK
<1>1. CASE Enter(t) \/ Leave(t) \/ FreshWait(t)
  <2>1. /\ pc[t] # "rearming" /\ pc'[t] # "rearming"
        /\ UNCHANGED <<baselines, elapsed, restarts, result, errs>>
    BY <1>0, <1>1 DEF Enter, Leave, FreshWait, Goto, TypeOK
  <2>. QED  BY <2>1, PromiseStutters DEF Stage, Watched
<1>2. CASE Arm(t)
  <2>1. Stage(t) = "arming" /\ elapsed[t] = 0
    BY <1>0, <1>2 DEF Arm, Goto, ArmInv, SleepInv, AssertInv, ReturnedInv,
                      HasOutcome, Stage, Phase
  <2>2. result[t] = "none" /\ t \notin errs
    BY <1>0, <1>2 DEF Arm, Goto, ArmInv, SleepInv, AssertInv, ReturnedInv,
                      HasOutcome, Phase
  <2>3. Stage(t)' = "observing" /\ elapsed'[t] = 0 /\ restarts' = restarts
    BY <1>0, <1>2, <2>2 DEF Arm, Goto, TypeOK, Stage
  <2>4. Watched(t)' = Watched(t)
    BY <1>00, <2>1, <2>3 DEF Watched
  <2>. QED  BY <2>1, <2>3, <2>4 DEF Promised, Promise!ObsNext, Promise!Open
<1>3. CASE ArmEarly(t) \/ ArmFails(t)
  <2>1. result[t] = "none" /\ t \notin errs /\ t \notin baselines
    BY <1>0, <1>3 DEF ArmEarly, ArmFails, Goto, ArmInv, SleepInv, AssertInv,
                      ReturnedInv, HasOutcome, Phase
  <2>2. result'[t] = "early" \/ (result'[t] = "none" /\ t \in errs')
    BY <1>0, <1>3, <2>1 DEF ArmEarly, ArmFails, TypeOK
  <2>3. Stage(t) = "arming" /\ Stage(t)' = "ended"
    BY <2>1, <2>2 DEF Stage
  <2>4. UNCHANGED <<elapsed, restarts>>
    BY <1>3 DEF ArmEarly, ArmFails
  <2>. QED
    BY <2>3, <2>4 DEF Watched, Promised, Promise!ObsNext, Promise!GiveUp
<1>4. ASSUME pc[t] = "asserting"
      PROVE  /\ Stage(t) = "observing" /\ Watched(t) = Wait[t]
             /\ t \in baselines /\ result[t] = "none" /\ t \notin errs
  <2>1. phase = "assert"
    BY <1>0, <1>4 DEF ArmInv, SleepInv, ReturnedInv, Phase
  <2>. QED
    BY <1>0, <1>00, <1>4, <2>1 DEF AssertInv, HasOutcome, Stage, Watched
<1>5. ASSUME pc[t] = "rearming"
      PROVE  /\ Stage(t) = "arming" /\ elapsed[t] = 0 /\ Watched(t) = 0
             /\ t \in baselines /\ result[t] = "none" /\ t \notin errs
  <2>1. phase = "assert"
    BY <1>0, <1>5 DEF ArmInv, SleepInv, ReturnedInv, Phase
  <2>. QED
    BY <1>0, <1>00, <1>5, <2>1 DEF AssertInv, HasOutcome, Stage, Watched
<1>6. CASE Judge(t)
  <2>1. /\ pc[t] = "asserting" /\ result'[t] = "verdict"
        /\ UNCHANGED <<elapsed, restarts>>
    BY <1>0, <1>6 DEF Judge, Goto, TypeOK
  <2>2. Stage(t)' = "judged" /\ Watched(t)' = Watched(t)
    BY <2>1 DEF Stage, Watched
  <2>. QED
    BY <1>4, <2>1, <2>2 DEF Promised, Promise!ObsNext, Promise!Judge
<1>7. CASE AssertFails(t) \/ Inconclusive(t) \/ RearmEarly(t)
  <2>1. /\ pc[t] \in {"asserting", "rearming"}
        /\ UNCHANGED <<elapsed, restarts>>
    BY <1>7 DEF AssertFails, Inconclusive, RearmEarly, Goto
  <2>2. result[t] = "none" /\ t \notin errs
    BY <1>4, <1>5, <2>1
  <2>3. \/ result'[t] \in {"inconclusive", "early"}
        \/ result'[t] = "none" /\ t \in errs'
    BY <1>0, <1>7, <2>2 DEF AssertFails, Inconclusive, RearmEarly, TypeOK
  <2>4. Stage(t)' = "ended" /\ Watched(t)' = Watched(t)
    BY <2>1, <2>3 DEF Stage, Watched
  <2>. QED
    BY <1>4, <1>5, <2>1, <2>4 DEF Promised, Promise!ObsNext, Promise!GiveUp
<1>8. CASE Restarted(t)
  <2>1. /\ pc[t] = "asserting" /\ pc'[t] = "rearming" /\ elapsed'[t] = 0
        /\ restarts[t] < Rearms /\ restarts'[t] = restarts[t] + 1
        /\ UNCHANGED <<baselines, result, errs>>
    BY <1>0, <1>8 DEF Restarted, Goto, TypeOK
  <2>2. Stage(t)' = "arming" /\ Watched(t)' = 0
    BY <1>00, <1>4, <2>1 DEF Stage, Watched
  <2>. QED
    BY <1>4, <2>1, <2>2 DEF Promised, Promise!ObsNext, Promise!Discard
<1>9. CASE Rearm(t)
  <2>1. /\ pc[t] = "rearming" /\ pc'[t] = "napping"
        /\ UNCHANGED <<baselines, elapsed, restarts, result, errs>>
    BY <1>0, <1>9 DEF Rearm, Goto, TypeOK
  <2>2. Stage(t)' = "observing" /\ Watched(t)' = Watched(t)
    BY <1>5, <2>1 DEF Stage, Watched
  <2>. QED
    BY <1>5, <2>1, <2>2 DEF Promised, Promise!ObsNext, Promise!Open
<1>. QED
  BY <1>1, <1>2, <1>3, <1>6, <1>7, <1>8, <1>9 DEF Goroutine

LEMMA OthersPromise ==
    ASSUME IInv, NEW t \in Target, Goroutine(t), NEW u \in Target, u # t
    PROVE  Promised(u)
<1>1. TypeOK
  BY DEF IInv
<1>. QED  BY <1>1, Others, PromiseStutters DEF Stage, Watched

LEMMA MainPromise ==
    ASSUME IInv, Main, NEW t \in Target
    PROVE  Promised(t)
<1>1. UNCHANGED <<baselines, elapsed, restarts, result, errs>>
  BY DEF Main, Barrier, Wake, Return, targetVars
<1>2. pc'[t] # "rearming" /\ pc[t] # "rearming"
  BY DEF Main, Barrier, Wake, Return, targetVars, IInv, PhaseInv, SleepInv
<1>. QED  BY <1>1, <1>2, PromiseStutters DEF Stage, Watched

LEMMA TickPromise ==
    ASSUME IInv, Tick, NEW t \in Target
    PROVE  Promised(t)
<1>0. /\ TypeOK /\ Wait[t] \in Nat /\ elapsed[t] \in Nat
      /\ MaxElapsed \in Nat /\ Wait[t] <= MaxElapsed
  BY ConvergeAllAssumption DEF IInv, TypeOK
<1>1. UNCHANGED <<pc, baselines, restarts, result, errs>>
  BY DEF Tick
<1>2. Stage(t)' = Stage(t)
  BY <1>1 DEF Stage
<1>3. CASE t \in Observed /\ elapsed[t] < Wait[t]
  <2>1. elapsed'[t] = elapsed[t] + 1
    BY <1>0, <1>3, TickElapsed
  <2>2. Watched(t) = elapsed[t] /\ Watched(t)' = elapsed[t] + 1
    BY <1>0, <1>3, <2>1 DEF Watched
  <2>3. Stage(t) = "observing"
    BY <1>3 DEF Observed, Stage
  <2>. QED
    BY <1>1, <1>2, <1>3, <2>2, <2>3 DEF Promised, Promise!ObsNext, Promise!Pass
<1>4. CASE t \notin Observed \/ elapsed[t] >= Wait[t]
  <2>1. \/ elapsed'[t] = elapsed[t]
        \/ elapsed'[t] \in Int /\ elapsed'[t] >= elapsed[t] /\ elapsed[t] >= Wait[t]
    BY <1>0, <1>4, TickElapsed
  <2>2. Watched(t)' = Watched(t)
    BY <1>0, <2>1 DEF Watched
  <2>. QED  BY <1>1, <1>2, <2>2, PromiseStutters
<1>. QED  BY <1>0, <1>3, <1>4

LEMMA PromiseStep ==
    IInv /\ [Next]_vars => \A t \in Target : Promised(t)
<1>. SUFFICES ASSUME IInv, [Next]_vars, NEW t \in Target PROVE Promised(t)
  OBVIOUS
<1>1. CASE Main
  BY <1>1, MainPromise
<1>2. CASE Tick
  BY <1>2, TickPromise
<1>3. ASSUME NEW u \in Target, Goroutine(u) PROVE Promised(t)
  BY <1>3, OwnPromise, OthersPromise
<1>4. CASE UNCHANGED vars
  BY <1>4, PromiseStutters DEF vars, targetVars, Stage, Watched
<1>. QED  BY <1>1, <1>2, <1>3, <1>4 DEF Next

\* The shared sleep keeps every target's own promise: judged against a baseline
\* at least its own wait old, re-armed a bounded number of times, ended once.
THEOREM KeepsPromisesAlways == Spec => KeepsPromises
<1>1. Init => \A t \in Target : Promise(t)!ObsInit
  BY PromiseInit
<1>2. IInv /\ [Next]_vars =>
        \A t \in Target : [Promise(t)!ObsNext]_(Promise(t)!obsVars)
  BY PromiseStep DEF Promised
<1>. QED  BY <1>1, <1>2, IInvAlways, PTL DEF Spec, KeepsPromises

=============================================================================
