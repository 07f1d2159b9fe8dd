\* Two ticks to a poll interval, three to the window.  A sound controller, and one
\* that loops without a Synced condition, rolled out at any time; a looping one
\* that is killed, in a cluster that lists events late; and a sound one whose
\* manifest declares its ready conditions.
SPECIFICATION Spec
CONSTANTS
    PollInterval = 2
    Providers = {{"synced", "debug", "rolled out"},
                 {"looping", "debug", "rolled out"},
                 {"looping", "debug", "killed", "late events"},
                 {"synced", "debug", "declared"}}
CHECK_DEADLOCK FALSE
INVARIANTS
    
    LoopIsNoticed
    RestartsAreTold
PROPERTY KeepsPromise
