\* Two slots for three targets that must be observed for one, two and three ticks.
SPECIFICATION FairSpec
CONSTANTS
    Target = {1, 2, 3}
    Wait <- Waits
    limit = 2
    Rearms = 1
    MaxElapsed = 4
CHECK_DEADLOCK FALSE
INVARIANTS
    TypeOK
    OneOutcome
PROPERTIES
    KeepsPromises
    AllReturn
