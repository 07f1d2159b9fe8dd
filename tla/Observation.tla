------------------------------ MODULE Observation ------------------------------
(***************************************************************************)
(* What a convergence check promises of one resource, whoever waits for    *)
(* it: a verdict on its stability compares the resource with a baseline    *)
(* that is at least one observation window old, a spoiled window is begun  *)
(* again a bounded number of times, and the check ends once and for all.   *)
(***************************************************************************)
EXTENDS Integers

CONSTANTS
    Window,     \* how long a resource must be observed
    Rearms      \* how often a spoiled window may be begun again

VARIABLES
    stage,      \* "arming", "observing", "judged" or "ended" without judgement
    elapsed,    \* time since the baseline, as far as it matters
    rearmed     \* windows begun again

obsVars == <<stage, elapsed, rearmed>>

ObsInit == stage = "arming" /\ elapsed = 0 /\ rearmed = 0

Open ==
    /\ stage = "arming"
    /\ stage' = "observing"
    /\ UNCHANGED <<elapsed, rearmed>>

Pass ==
    /\ stage = "observing"
    /\ elapsed < Window /\ elapsed' = elapsed + 1
    /\ UNCHANGED <<stage, rearmed>>

Discard ==
    /\ stage = "observing" /\ elapsed = Window
    /\ rearmed < Rearms
    /\ stage' = "arming" /\ rearmed' = rearmed + 1
    /\ elapsed' = 0

Judge ==
    /\ stage = "observing" /\ elapsed = Window
    /\ stage' = "judged"
    /\ UNCHANGED <<elapsed, rearmed>>

\* No baseline, an error, or every window spoiled.
GiveUp ==
    /\ \/ stage = "arming"
       \/ stage = "observing" /\ elapsed = Window
    /\ stage' = "ended"
    /\ UNCHANGED <<elapsed, rearmed>>

ObsNext == Open \/ Pass \/ Discard \/ Judge \/ GiveUp

ObsSpec == ObsInit /\ [][ObsNext]_obsVars

=============================================================================
