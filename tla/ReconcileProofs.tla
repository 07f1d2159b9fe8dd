---------------------------- MODULE ReconcileProofs ----------------------------
(***************************************************************************)
(* Theorems about Reconcile, for every bound on failures and late          *)
(* initialisations.                                                        *)
(***************************************************************************)
EXTENDS Reconcile, TLAPS

Active == pass # Idle
Patched == pc \notin {"patch", "failed"}

\* Between the clearing of the conditions and the end of the round.
Cleaned == pc \in {"nudge", "ready", "synced"}

(***************************************************************************)
(* What a reconcile in progress may still do: it never takes the backend   *)
(* back to the old value, and if it read the object before the patch its   *)
(* status write will conflict.                                             *)
(***************************************************************************)
PassInv ==
    Active =>
        /\ pass.sees = New => external = New
        /\ pass.wants = Old => pass.sees = Old
        /\ pass.at = "done" /\ pass.wants = New => external = New
        /\ Patched /\ ~pass.stale => pass.wants = New

\* The conditions are absent, or were written all at once.
CondsInv == conds = Cleared \/ (conds.Ready = "True" /\ conds.Synced # "none")

\* Before the patch nobody knows the new value.
BeforeInv ==
    /\ pc = "patch" => wanted = Old /\ round = 1
    /\ wanted = Old => external = Old /\ (Active => pass.wants = Old)

RoundOneInv ==
    /\ Patched => wanted = New
    /\ Cleaned /\ conds.Synced = "True" => external = New
    /\ pc = "synced" => conds.Ready = "True"
    /\ round = 2 => external = New
    /\ round = 2 /\ pc = "clear" => conds # Cleared
    /\ pc = "returned" => round = 2

\* In the second round whoever can still write the status saw the new value.
RoundTwoInv ==
    /\ round = 2 /\ (Cleaned \/ pc = "returned") /\ Active /\ ~pass.stale
         => pass.sees = New
    /\ round = 2 /\ Cleaned /\ conds.Ready = "True" => mirror = New
    /\ pc = "returned" => mirror = New

IInv ==
    TypeOK /\ PassInv /\ BeforeInv /\ CondsInv /\ RoundOneInv /\ RoundTwoInv

-----------------------------------------------------------------------------
(***************************************************************************)
(* Facts about the records.                                                *)
(***************************************************************************)

LEMMA PassFields ==
    ASSUME NEW p \in Pass
    PROVE  /\ p # Idle
           /\ p.at \in {"observed", "done", "failed"}
           /\ p.wants \in {Old, New} /\ p.sees \in {Old, New}
           /\ p.gen \in Nat /\ p.stale \in BOOLEAN
BY DEF Pass, Idle

LEMMA ActivePass == TypeOK /\ Active => pass \in Pass
BY DEF TypeOK, Active

LEMMA ClearedFields ==
    /\ Cleared \in Conditions
    /\ Cleared.Ready = "none" /\ Cleared.Synced = "none"
BY DEF Cleared, Conditions, Status

\* An overtaken reconcile keeps what it read, and its write will conflict.
LEMMA OvertakeStep ==
    ASSUME TypeOK, Overtake
    PROVE  /\ pass' \in Pass \cup {Idle}
           /\ Active' => /\ Active
                         /\ pass'.sees = pass.sees /\ pass'.wants = pass.wants
                         /\ pass'.at = pass.at /\ pass'.stale
<1>1. CASE pass = Idle
  BY <1>1 DEF Overtake, Active
<1>2. CASE pass # Idle
  <2>1. pass \in Pass
    BY <1>2, ActivePass DEF Active
  <2>2. pass' = [pass EXCEPT !.stale = TRUE]
    BY <1>2 DEF Overtake
  <2>3. /\ pass' \in Pass /\ pass'.stale /\ pass'.at = pass.at
        /\ pass'.sees = pass.sees /\ pass'.wants = pass.wants
    BY <2>1, <2>2 DEF Pass
  <2>. QED  BY <1>2, <2>3 DEF Active
<1>. QED  BY <1>1, <1>2

-----------------------------------------------------------------------------
(***************************************************************************)
(* The invariant holds initially.                                          *)
(***************************************************************************)

LEMMA IInvInit == Init => IInv
<1>. SUFFICES ASSUME Init PROVE IInv
  OBVIOUS
<1>1. TypeOK
  <2>1. conds \in Conditions
    BY DEF Init, Conditions, Status
  <2>2. pass \in Pass \cup {Idle}
    BY DEF Init
  <2>3. failures \in 0..MaxFailures /\ lateInits \in 0..MaxLateInits
    BY ReconcileAssumption DEF Init
  <2>4. /\ pc \in PC /\ round \in {1, 2} /\ gen \in Nat /\ wake \in BOOLEAN
        /\ {wanted, mirror, external} \subseteq {Old, New}
    BY DEF Init, PC, Old, New
  <2>. QED  BY <2>1, <2>2, <2>3, <2>4 DEF TypeOK
<1>2. PassInv /\ BeforeInv /\ CondsInv /\ RoundOneInv /\ RoundTwoInv
  BY DEF Init, PassInv, BeforeInv, CondsInv, RoundOneInv, RoundTwoInv,
         Active, Patched, Cleaned
<1>. QED  BY <1>1, <1>2 DEF IInv

-----------------------------------------------------------------------------
(***************************************************************************)
(* Every step of the runner preserves it.                                  *)
(***************************************************************************)

LEMMA PatchStep ==
    ASSUME IInv, Patch
    PROVE  IInv'
<1>0. TypeOK /\ PassInv /\ BeforeInv /\ CondsInv /\ RoundOneInv /\ RoundTwoInv
  BY DEF IInv
<1>1. /\ pc = "patch" /\ pc' = "clear" /\ wanted' = New /\ gen' = gen + 1
      /\ wake' = TRUE /\ round = 1
      /\ UNCHANGED <<round, conds, mirror, external, failures, lateInits>>
  BY <1>0 DEF Patch, Goto, BeforeInv
<1>2. /\ pass' \in Pass \cup {Idle}
      /\ Active' => /\ Active
                    /\ pass'.sees = pass.sees /\ pass'.wants = pass.wants
                    /\ pass'.at = pass.at /\ pass'.stale
  BY <1>0, OvertakeStep DEF Patch
<1>3. TypeOK'
  BY <1>0, <1>1, <1>2 DEF TypeOK, PC, Old, New
<1>4. PassInv'
  BY <1>0, <1>1, <1>2 DEF PassInv
<1>5. BeforeInv' /\ CondsInv' /\ RoundOneInv' /\ RoundTwoInv'
  BY <1>0, <1>1
     DEF BeforeInv, CondsInv, Old, New, RoundOneInv, RoundTwoInv, Patched,
         Cleaned
<1>. QED  BY <1>3, <1>4, <1>5 DEF IInv

LEMMA ClearConditionsStep ==
    ASSUME IInv, ClearConditions
    PROVE  IInv'
<1>0. TypeOK /\ PassInv /\ BeforeInv /\ CondsInv /\ RoundOneInv /\ RoundTwoInv
  BY DEF IInv
<1>1. /\ pc = "clear" /\ pc' = "nudge" /\ conds' = Cleared
      /\ UNCHANGED <<round, wanted, gen, mirror, external, wake, failures,
                     lateInits>>
  BY DEF ClearConditions, Goto
<1>2. /\ pass' \in Pass \cup {Idle}
      /\ Active' => /\ Active
                    /\ pass'.sees = pass.sees /\ pass'.wants = pass.wants
                    /\ pass'.at = pass.at /\ (pass'.stale \/ pass' = pass)
  BY <1>0, OvertakeStep DEF ClearConditions, TypeOK, Active
<1>3. conds # Cleared => (Active' => pass'.stale)
  BY <1>0, OvertakeStep DEF ClearConditions
<1>4. TypeOK'
  BY <1>0, <1>1, <1>2, ClearedFields DEF TypeOK, PC
<1>5. PassInv'
  BY <1>0, <1>1, <1>2 DEF PassInv, Patched
<1>6. BeforeInv' /\ CondsInv' /\ RoundOneInv'
  BY <1>0, <1>1, <1>2, ClearedFields
     DEF BeforeInv, CondsInv, RoundOneInv, Patched, Cleaned
<1>7. RoundTwoInv'
  BY <1>0, <1>1, <1>3, ClearedFields DEF RoundOneInv, RoundTwoInv, Cleaned
<1>. QED  BY <1>4, <1>5, <1>6, <1>7 DEF IInv

LEMMA NudgeReconcileStep ==
    ASSUME IInv, NudgeReconcile
    PROVE  IInv'
<1>0. TypeOK /\ PassInv /\ BeforeInv /\ CondsInv /\ RoundOneInv /\ RoundTwoInv
  BY DEF IInv
<1>1. /\ pc = "nudge" /\ pc' = "ready" /\ wake' = TRUE
      /\ UNCHANGED <<round, wanted, gen, conds, mirror, external, failures,
                     lateInits>>
  BY DEF NudgeReconcile, Goto, objectVars
<1>2. /\ pass' \in Pass \cup {Idle}
      /\ Active' => /\ Active
                    /\ pass'.sees = pass.sees /\ pass'.wants = pass.wants
                    /\ pass'.at = pass.at /\ pass'.stale
  BY <1>0, OvertakeStep DEF NudgeReconcile
<1>3. TypeOK'
  BY <1>0, <1>1, <1>2 DEF TypeOK, PC
<1>4. PassInv'
  BY <1>0, <1>1, <1>2 DEF PassInv
<1>5. BeforeInv' /\ CondsInv' /\ RoundOneInv' /\ RoundTwoInv'
  BY <1>0, <1>1, <1>2
     DEF BeforeInv, CondsInv, RoundOneInv, RoundTwoInv, Patched, Cleaned
<1>. QED  BY <1>3, <1>4, <1>5 DEF IInv

(***************************************************************************)
(* The waits and a failure change nothing but the runner's position.       *)
(***************************************************************************)
LEMMA WaitReadyStep ==
    ASSUME IInv, WaitReady
    PROVE  IInv'
<1>1. /\ pc = "ready" /\ pc' = "synced" /\ conds.Ready = "True"
      /\ UNCHANGED <<round, wanted, gen, conds, mirror, external, wake, pass,
                     failures, lateInits>>
  BY DEF WaitReady, Goto, objectVars, controllerVars
<1>2. TypeOK'
  BY <1>1 DEF IInv, TypeOK, PC
<1>3. PassInv' /\ BeforeInv' /\ CondsInv' /\ RoundOneInv' /\ RoundTwoInv'
  BY <1>1
     DEF IInv, PassInv, BeforeInv, CondsInv, RoundOneInv, RoundTwoInv, Active,
              Patched, Cleaned
<1>. QED  BY <1>2, <1>3 DEF IInv

\* In the first round the condition is True, hence written after the clearing.
LEMMA WaitSyncedStep ==
    ASSUME IInv, WaitSynced
    PROVE  IInv'
<1>0. TypeOK /\ PassInv /\ BeforeInv /\ CondsInv /\ RoundOneInv /\ RoundTwoInv
  BY DEF IInv
<1>1. /\ pc = "synced"
      /\ UNCHANGED <<wanted, gen, conds, mirror, external, wake, pass, failures,
                     lateInits>>
  BY DEF WaitSynced, objectVars, controllerVars
<1>2. conds # Cleared /\ conds.Synced = "True" /\ conds.Ready = "True"
  BY <1>0, <1>1, ClearedFields
     DEF WaitSynced, Synced, CondsInv, RoundOneInv
<1>3. external = New
  BY <1>0, <1>1, <1>2 DEF RoundOneInv, Cleaned
<1>4. CASE round = 1
  <2>1. pc' = "clear" /\ round' = 2
    BY <1>4 DEF WaitSynced
  <2>2. TypeOK'
    BY <1>0, <1>1, <2>1 DEF TypeOK, PC
  <2>3. PassInv' /\ BeforeInv' /\ CondsInv' /\ RoundOneInv' /\ RoundTwoInv'
    BY <1>0, <1>1, <1>2, <1>3, <2>1
       DEF PassInv, BeforeInv, CondsInv, RoundOneInv, RoundTwoInv, Active,
           Patched, Cleaned
  <2>. QED  BY <2>2, <2>3 DEF IInv
<1>5. CASE round = 2
  <2>1. pc' = "returned" /\ round' = 2
    BY <1>5 DEF WaitSynced
  <2>2. TypeOK'
    BY <1>0, <1>1, <2>1 DEF TypeOK, PC
  <2>3. PassInv' /\ BeforeInv' /\ CondsInv' /\ RoundOneInv' /\ RoundTwoInv'
    BY <1>0, <1>1, <1>2, <1>3, <1>5, <2>1
       DEF PassInv, BeforeInv, CondsInv, RoundOneInv, RoundTwoInv, Active,
           Patched, Cleaned
  <2>. QED  BY <2>2, <2>3 DEF IInv
<1>. QED  BY <1>0, <1>4, <1>5 DEF TypeOK

LEMMA FailStep ==
    ASSUME IInv, Fail
    PROVE  IInv'
<1>1. /\ pc' = "failed"
      /\ UNCHANGED <<round, wanted, gen, conds, mirror, external, wake, pass,
                     failures, lateInits>>
  BY DEF Fail, objectVars, controllerVars
<1>2. TypeOK'
  BY <1>1 DEF IInv, TypeOK, PC
<1>3. PassInv' /\ BeforeInv' /\ CondsInv' /\ RoundOneInv' /\ RoundTwoInv'
  BY <1>1
     DEF IInv, PassInv, BeforeInv, CondsInv, RoundOneInv, RoundTwoInv, Active,
              Patched, Cleaned
<1>. QED  BY <1>2, <1>3 DEF IInv

-----------------------------------------------------------------------------
(***************************************************************************)
(* Every step of the controller preserves it.                              *)
(***************************************************************************)

\* What it reads is of the moment: nothing to overtake yet.
LEMMA ObserveStep ==
    ASSUME IInv, Observe
    PROVE  IInv'
<1>0. TypeOK /\ PassInv /\ BeforeInv /\ CondsInv /\ RoundOneInv /\ RoundTwoInv
  BY DEF IInv
<1>1. /\ wake' = FALSE
      /\ UNCHANGED <<pc, round, wanted, gen, conds, mirror, external, failures,
                     lateInits>>
  BY DEF Observe, runnerVars, objectVars
<1>2. /\ pass' \in Pass
      /\ pass'.at = "observed" /\ pass'.wants = wanted
      /\ pass'.sees = external /\ pass'.stale = FALSE
  BY <1>0 DEF Observe, TypeOK, Pass
<1>3. TypeOK'
  BY <1>0, <1>1, <1>2 DEF TypeOK
<1>4. PassInv'
  <2>1. Patched => wanted = New
    BY <1>0 DEF RoundOneInv
  <2>2. wanted = Old => external = Old
    BY <1>0 DEF BeforeInv
  <2>. QED  BY <1>0, <1>1, <1>2, <2>1, <2>2 DEF PassInv, Patched, TypeOK
<1>5. BeforeInv' /\ CondsInv' /\ RoundOneInv'
  BY <1>0, <1>1, <1>2 DEF BeforeInv, CondsInv, RoundOneInv, Patched, Cleaned
<1>6. RoundTwoInv'
  BY <1>0, <1>1, <1>2 DEF RoundOneInv, RoundTwoInv, Cleaned
<1>. QED  BY <1>3, <1>4, <1>5, <1>6 DEF IInv

LEMMA LateInitStep ==
    ASSUME IInv, LateInit
    PROVE  IInv'
<1>0. TypeOK /\ PassInv /\ BeforeInv /\ CondsInv /\ RoundOneInv /\ RoundTwoInv
  BY DEF IInv
<1>1. /\ gen' = gen + 1 /\ wake' = TRUE
      /\ lateInits' = lateInits + 1 /\ lateInits < MaxLateInits
      /\ UNCHANGED <<pc, round, wanted, conds, mirror, external, failures>>
  BY DEF LateInit, runnerVars
<1>2. pass \in Pass /\ Active
  BY <1>0, ActivePass DEF LateInit, Active
<1>3. gen + 1 \in Nat
  BY <1>0 DEF TypeOK
<1>4. \/ pass' = Idle
      \/ /\ pass' \in Pass
         /\ pass'.sees = pass.sees /\ pass'.wants = pass.wants
         /\ pass'.at = pass.at /\ pass'.stale = pass.stale
  <2>1. pass' = Idle \/ pass' = [pass EXCEPT !.gen = gen + 1]
    BY DEF LateInit
  <2>. QED  BY <1>2, <1>3, <2>1 DEF Pass
<1>5. TypeOK'
  BY <1>0, <1>1, <1>3, <1>4, ReconcileAssumption DEF TypeOK
<1>6. PassInv'
  BY <1>0, <1>1, <1>2, <1>4 DEF PassInv, Active, Patched
<1>7. BeforeInv' /\ CondsInv' /\ RoundOneInv'
  BY <1>0, <1>1, <1>2, <1>4
     DEF BeforeInv, Active, CondsInv, RoundOneInv, Patched, Cleaned
<1>8. RoundTwoInv'
  BY <1>0, <1>1, <1>2, <1>4 DEF RoundTwoInv, Active, Cleaned
<1>. QED  BY <1>5, <1>6, <1>7, <1>8 DEF IInv

\* No Update() takes the old value back: a reconcile that wants it observed it.
LEMMA UpdateStep ==
    ASSUME IInv, Update
    PROVE  IInv'
<1>0. TypeOK /\ PassInv /\ BeforeInv /\ CondsInv /\ RoundOneInv /\ RoundTwoInv
  BY DEF IInv
<1>1. UNCHANGED <<pc, round, wanted, gen, conds, mirror, wake, failures,
                  lateInits>>
  BY DEF Update, runnerVars, objectVars
<1>2. pass \in Pass /\ Active
  BY <1>0, ActivePass DEF Update, Active
<1>3. pass.wants = New
  BY <1>0, <1>2, PassFields DEF Update, PassInv
<1>4. external' = New
  BY <1>3 DEF Update
<1>5. /\ pass' \in Pass
      /\ pass'.sees = pass.sees /\ pass'.wants = pass.wants
      /\ pass'.at = "done" /\ pass'.stale = pass.stale
  BY <1>2 DEF Update, Pass
<1>6. TypeOK'
  BY <1>0, <1>1, <1>4, <1>5 DEF TypeOK
<1>7. PassInv'
  BY <1>0, <1>1, <1>2, <1>3, <1>4, <1>5 DEF PassInv, Patched, Old, New
<1>8. BeforeInv' /\ CondsInv'
  BY <1>0, <1>1, <1>2, <1>3, <1>5 DEF BeforeInv, CondsInv, Old, New
<1>9. RoundOneInv'
  BY <1>0, <1>1, <1>4 DEF RoundOneInv, Patched, Cleaned
<1>10. RoundTwoInv'
  BY <1>0, <1>1, <1>2, <1>5 DEF RoundTwoInv, Cleaned
<1>. QED  BY <1>6, <1>7, <1>8, <1>9, <1>10 DEF IInv

LEMMA UpdateFailsStep ==
    ASSUME IInv, UpdateFails
    PROVE  IInv'
<1>0. TypeOK /\ PassInv /\ BeforeInv /\ CondsInv /\ RoundOneInv /\ RoundTwoInv
  BY DEF IInv
<1>1. /\ failures' = failures + 1 /\ failures < MaxFailures
      /\ UNCHANGED <<pc, round, wanted, gen, conds, mirror, external, wake,
                     lateInits>>
  BY DEF UpdateFails, runnerVars, objectVars
<1>2. pass \in Pass /\ Active
  BY <1>0, ActivePass DEF UpdateFails, Active
<1>3. /\ pass' \in Pass
      /\ pass'.sees = pass.sees /\ pass'.wants = pass.wants
      /\ pass'.at = "failed" /\ pass'.stale = pass.stale
  BY <1>2 DEF UpdateFails, Pass
<1>4. TypeOK'
  BY <1>0, <1>1, <1>3, ReconcileAssumption DEF TypeOK
<1>5. PassInv'
  BY <1>0, <1>1, <1>2, <1>3 DEF PassInv, Patched
<1>6. BeforeInv' /\ CondsInv' /\ RoundOneInv'
  BY <1>0, <1>1, <1>2, <1>3
     DEF BeforeInv, CondsInv, RoundOneInv, Patched, Cleaned
<1>7. RoundTwoInv'
  BY <1>0, <1>1, <1>2, <1>3 DEF RoundTwoInv, Cleaned
<1>. QED  BY <1>4, <1>5, <1>6, <1>7 DEF IInv

LEMMA UpToDateStep ==
    ASSUME IInv, UpToDate
    PROVE  IInv'
<1>0. TypeOK /\ PassInv /\ BeforeInv /\ CondsInv /\ RoundOneInv /\ RoundTwoInv
  BY DEF IInv
<1>1. /\ pass.sees = pass.wants
      /\ UNCHANGED <<pc, round, wanted, gen, conds, mirror, external, wake,
                     failures, lateInits>>
  BY DEF UpToDate, runnerVars, objectVars
<1>2. pass \in Pass /\ Active
  BY <1>0, ActivePass DEF UpToDate, Active
<1>3. /\ pass' \in Pass
      /\ pass'.sees = pass.sees /\ pass'.wants = pass.wants
      /\ pass'.at = "done" /\ pass'.stale = pass.stale
  BY <1>2 DEF UpToDate, Pass
<1>4. TypeOK'
  BY <1>0, <1>1, <1>3 DEF TypeOK
<1>5. PassInv'
  BY <1>0, <1>1, <1>2, <1>3 DEF PassInv, Patched
<1>6. BeforeInv' /\ CondsInv' /\ RoundOneInv'
  BY <1>0, <1>1, <1>2, <1>3
     DEF BeforeInv, CondsInv, RoundOneInv, Patched, Cleaned
<1>7. RoundTwoInv'
  BY <1>0, <1>1, <1>2, <1>3 DEF RoundTwoInv, Cleaned
<1>. QED  BY <1>4, <1>5, <1>6, <1>7 DEF IInv

(***************************************************************************)
(* The status write is what the waits read.  It goes through only if       *)
(* nothing was written since the object was read: after the patch it is    *)
(* the work of a reconcile that knew the new value, and in the second      *)
(* round of one that saw it in the backend.                                *)
(***************************************************************************)
LEMMA WriteStatusStep ==
    ASSUME IInv, WriteStatus
    PROVE  IInv'
<1>0. TypeOK /\ PassInv /\ BeforeInv /\ CondsInv /\ RoundOneInv /\ RoundTwoInv
  BY DEF IInv
<1>1. /\ mirror' = pass.sees /\ pass' = Idle /\ ~Active'
      /\ wake' = (wake \/ pass.at = "failed")
      /\ pass.at \in {"done", "failed"} /\ ~pass.stale
      /\ UNCHANGED <<pc, round, wanted, gen, external, failures, lateInits>>
  BY DEF WriteStatus, runnerVars, Active
<1>2. pass \in Pass /\ Active
  BY <1>0, ActivePass DEF WriteStatus, Active
<1>3. /\ conds' \in Conditions
      /\ conds'.Ready = "True" /\ conds'.Synced \in {"True", "False"}
      /\ conds'.Synced = "True" => pass.at = "done"
  BY <1>2 DEF WriteStatus, Pass, Conditions, Status
<1>4. conds' # Cleared
  BY <1>3, ClearedFields
<1>5. TypeOK'
  <2>1. pass.sees \in {Old, New}
    BY <1>2, PassFields
  <2>. QED  BY <1>0, <1>1, <1>3, <2>1 DEF TypeOK
<1>6. PassInv' /\ BeforeInv' /\ CondsInv'
  BY <1>0, <1>1, <1>3 DEF PassInv, BeforeInv, CondsInv
<1>7. RoundOneInv'
  <2>1. Patched /\ conds'.Synced = "True" => external = New
    BY <1>0, <1>1, <1>2, <1>3 DEF PassInv
  <2>. QED  BY <1>0, <1>1, <1>3, <1>4, <2>1 DEF RoundOneInv, Patched, Cleaned
<1>8. RoundTwoInv'
  BY <1>0, <1>1, <1>2 DEF RoundOneInv, RoundTwoInv, Cleaned
<1>. QED  BY <1>5, <1>6, <1>7, <1>8 DEF IInv

LEMMA ConflictStep ==
    ASSUME IInv, Conflict
    PROVE  IInv'
<1>0. TypeOK /\ PassInv /\ BeforeInv /\ CondsInv /\ RoundOneInv /\ RoundTwoInv
  BY DEF IInv
<1>1. /\ pass' = Idle /\ ~Active' /\ wake' = TRUE
      /\ UNCHANGED <<pc, round, wanted, gen, conds, mirror, external, failures,
                     lateInits>>
  BY DEF Conflict, runnerVars, objectVars, Active
<1>2. TypeOK'
  BY <1>0, <1>1 DEF TypeOK
<1>3. PassInv' /\ BeforeInv' /\ CondsInv' /\ RoundOneInv' /\ RoundTwoInv'
  BY <1>0, <1>1
     DEF PassInv, BeforeInv, CondsInv, RoundOneInv, RoundTwoInv, Patched,
         Cleaned
<1>. QED  BY <1>2, <1>3 DEF IInv

-----------------------------------------------------------------------------

LEMMA IInvStutter ==
    ASSUME IInv, UNCHANGED vars
    PROVE  IInv'
<1>1. UNCHANGED <<pc, round, wanted, gen, conds, mirror, external, wake, pass,
                  failures, lateInits>>
  BY DEF vars, runnerVars, objectVars, controllerVars
<1>2. TypeOK'
  BY <1>1 DEF IInv, TypeOK
<1>3. PassInv' /\ BeforeInv' /\ CondsInv' /\ RoundOneInv' /\ RoundTwoInv'
  BY <1>1 DEF IInv, PassInv, BeforeInv, CondsInv, RoundOneInv, RoundTwoInv,
              Active, Patched, Cleaned
<1>. QED  BY <1>2, <1>3 DEF IInv

LEMMA IInvStep == IInv /\ [Next]_vars => IInv'
<1>. SUFFICES ASSUME IInv, [Next]_vars PROVE IInv'
  OBVIOUS
<1>1. CASE Runner
  BY <1>1, PatchStep, ClearConditionsStep, NudgeReconcileStep, WaitReadyStep,
     WaitSyncedStep DEF Runner
<1>2. CASE Fail
  BY <1>2, FailStep
<1>3. CASE Woken \/ PollTick
  BY <1>3, ObserveStep DEF Woken, PollTick
<1>4. CASE Working
  BY <1>4, LateInitStep, UpdateStep, UpdateFailsStep, UpToDateStep,
     WriteStatusStep, ConflictStep DEF Working
<1>5. CASE UNCHANGED vars
  BY <1>5, IInvStutter
<1>. QED  BY <1>1, <1>2, <1>3, <1>4, <1>5 DEF Next

\* The inductive invariant holds whatever fails and however the controller's
\* reconciles interleave with the runner.
THEOREM IInvAlways == Spec => []IInv
BY IInvInit, IInvStep, PTL DEF Spec

\* Every variable keeps its type.
THEOREM TypeOKAlways == Spec => []TypeOK
<1>1. IInv => TypeOK
  BY DEF IInv
<1>. QED  BY <1>1, IInvAlways, PTL

\* The wait of reconcileOnce never ends before Update() carried the new value,
\* for any number of failing updates and late initialisations.
THEOREM FirstRoundUpdatesAlways == Spec => []FirstRoundUpdates
<1>1. IInv => FirstRoundUpdates
  BY DEF IInv, RoundOneInv, FirstRoundUpdates
<1>. QED  BY <1>1, IInvAlways, PTL

\* When applyPatchAndReconcile returns without an error, atProvider was written
\* from an observation made after the update.
THEOREM ReturnedIsFreshAlways == Spec => []ReturnedIsFresh
<1>1. IInv => ReturnedIsFresh
  BY DEF IInv, RoundOneInv, RoundTwoInv, ReturnedIsFresh
<1>. QED  BY <1>1, IInvAlways, PTL

=============================================================================
