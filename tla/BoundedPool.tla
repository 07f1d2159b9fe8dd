----------------------------- MODULE BoundedPool -----------------------------
(***************************************************************************)
(* What RunBatch promises about scheduling, without goroutines, locks or   *)
(* responses: a pool of tasks with a capacity that only halves.  Batch     *)
(* implements it (Batch!Pool).                                             *)
(***************************************************************************)
EXTENDS Integers, FiniteSets

CONSTANTS
    Task,       \* the tasks to run, each once
    Ceiling     \* the capacity at the start

VARIABLES
    capacity,   \* how many tasks may run at once from now on
    running,    \* the tasks in flight
    finished    \* the tasks that have run

poolVars == <<capacity, running, finished>>

Init ==
    /\ capacity = Ceiling
    /\ running = {}
    /\ finished = {}

Start(t) ==
    /\ t \notin running \cup finished
    /\ Cardinality(running) < capacity
    /\ running' = running \cup {t}
    /\ UNCHANGED <<capacity, finished>>

Finish(t) ==
    /\ t \in running
    /\ running' = running \ {t}
    /\ finished' = finished \cup {t}
    /\ UNCHANGED capacity

Shrink ==
    /\ running # {}
    /\ capacity > 1
    /\ capacity' = capacity \div 2
    /\ UNCHANGED <<running, finished>>

Next == Shrink \/ \E t \in Task : Start(t) \/ Finish(t)

Spec == Init /\ [][Next]_poolVars

Fairness == \A t \in Task : WF_poolVars(Start(t)) /\ WF_poolVars(Finish(t))

FairSpec == Spec /\ Fairness

=============================================================================
