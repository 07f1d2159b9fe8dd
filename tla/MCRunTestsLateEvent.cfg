\* An Update() that emits two events, the second of which is listed late.
SPECIFICATION Spec
CONSTANTS
    Field <- Fields
    Value <- Values
    Absent = "absent"
    Empty = "empty"
    Unreadable = "unreadable"
    Above <- Containers
    Backend <- FoldCase
    Tests <- ThreeEntries
    AssertUnchanged = {"zone"}
    Credited = {"opts"}
    Route <- ByClear
    InitSpecs <- NameMayMatch
    PreExisting = {0}
    Ceiling = 3
    Burst = 5
    MaxEvents = 2
    MaxLag = 1
    Faults = {}
CHECK_DEADLOCK FALSE
INVARIANTS
    EvidenceIsOwn
