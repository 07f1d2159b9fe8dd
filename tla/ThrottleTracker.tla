--------------------------- MODULE ThrottleTracker ---------------------------
(***************************************************************************)
(* internal/runner/throttle.go: the counter of consecutive 429 responses   *)
(* that every request of the shared client set feeds.  Observe counts      *)
(* under t.mu and calls the registered callback after it has released      *)
(* t.mu, with the streak it read under the lock: the callback is therefore *)
(* a separate step of the module that composes this one (see Batch).       *)
(***************************************************************************)
EXTENDS Integers, Sequences

VARIABLES
    consecutive,    \* t.consecutive
    answers         \* history: for each response observed, in the order t.mu
                    \* serialised them, whether it was a 429.  t.events is the
                    \* subsequence of the TRUE entries.

trackerVars == <<consecutive, answers>>

TrackerTypeOK ==
    /\ consecutive \in Nat
    /\ answers \in Seq(BOOLEAN)

newThrottleTracker ==
    /\ consecutive = 0
    /\ answers = << >>

(***************************************************************************)
(* The locked part of Observe for a response that was a 429 or was not.    *)
(* NextStreak is the streak it hands to the callback and returns.          *)
(***************************************************************************)
\* Seeded fault: an ordinary response does not end the streak.
NextStreakUnbroken(is429) == IF is429 THEN consecutive + 1 ELSE consecutive

NextStreak(is429) == IF is429 THEN consecutive + 1 ELSE 0

Observe(is429) ==
    /\ consecutive' = NextStreak(is429)
    /\ answers' = Append(answers, is429)

(***************************************************************************)
(* The positions at which a run of n 429s with nothing between them ends.  *)
(***************************************************************************)
SustainedAt(n) ==
    {i \in DOMAIN answers : i >= n /\ \A k \in (i - n + 1)..i : answers[k]}

=============================================================================
