\* Three targets and a ceiling that halves twice (4, 2, 1), with room for
\* three callbacks at once: every schedule and every pattern of responses,
\* under the scheduler's fairness.
SPECIFICATION FairSpec
CONSTANTS
    Caller = {1, 2, 3}
    Initial = 4
    MaxAnswers = 5
CHECK_DEADLOCK FALSE
INVARIANTS
    ActiveCountsHolders
    HalvingChain
    NoLostWakeup
    ReductionsAreSustained
    SummaryIsFinal
PROPERTIES
    NeverGrowsBack
    EveryTargetRuns
    PoolSpec
