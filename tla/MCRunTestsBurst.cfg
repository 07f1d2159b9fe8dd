\* The burst under events that are listed late: at most one at a time, so that the
\* margin between ceiling and burst covers them.
SPECIFICATION Spec
CONSTANTS
    Field <- Fields
    Value <- Values
    Absent = "absent"
    Empty = "empty"
    Unreadable = "unreadable"
    Above <- Containers
    Backend <- FoldCase
    Tests <- WithTwo
    AssertUnchanged = {}
    Credited = {"opts"}
    Route <- ByAncestor
    InitSpecs <- OptsMayBeClear
    PreExisting = {0, 2}
    Ceiling = 2
    Burst = 3
    MaxEvents = 2
    MaxLag = 1
    Faults = {"restart", "update", "refuse"}
CHECK_DEADLOCK FALSE
INVARIANTS
    NotEvidencedIsHonest
    HeadroomBeforePatch
    CleanRunProvesCredits
PROPERTIES
    RestartsAreEarned
