\* Everything may fail: counts, restarts, API calls, Update(), a controller that sees
\* no difference, a backend that drops or loses fields.  The burst is refilled
\* before every entry but the first.
SPECIFICATION Spec
CONSTANTS
    Field <- FewFields
    Value <- Values
    Absent = "absent"
    Empty = "empty"
    Unreadable = "unreadable"
    Above <- Containers
    Backend <- FoldCase
    Tests <- WithSkip
    AssertUnchanged = {"zone"}
    Credited = {"opts"}
    Route <- ByAncestor
    InitSpecs <- AnyMayMatch
    PreExisting = {0}
    Ceiling = 1
    Burst = 2
    MaxEvents = 1
    MaxLag = 0
    Faults = {"api", "count", "restart", "update", "refuse", "backend"}
CHECK_DEADLOCK FALSE
INVARIANTS
    CleanRunExercisedUpdate
    CleanRunProvesCredits
    CreditAccounting
    CleanRunSawNoDrift
