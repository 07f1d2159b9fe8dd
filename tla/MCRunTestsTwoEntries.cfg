\* Two entries for one field, the lender second, and nothing fails.
SPECIFICATION Spec
CONSTANTS
    Field <- Fields
    Value <- Values
    Absent = "absent"
    Empty = "empty"
    Unreadable = "unreadable"
    Above <- Containers
    Backend <- FoldCase
    Tests <- TwoEntriesOneField
    AssertUnchanged = {"zone"}
    Credited = {"opts"}
    Route <- ByValues
    InitSpecs <- NothingMatches
    PreExisting = {0}
    Ceiling = 2
    Burst = 3
    MaxEvents = 2
    MaxLag = 0
    Faults = {}
CHECK_DEADLOCK FALSE
INVARIANTS
    RefutedByItsLender
