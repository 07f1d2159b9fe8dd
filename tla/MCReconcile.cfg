\* Two failing updates and two late initialisations, and any call may fail.
SPECIFICATION FairSpec
CONSTANTS
    MaxFailures = 2
    MaxLateInits = 2
CHECK_DEADLOCK FALSE
INVARIANTS
    FirstRoundUpdates
    ReturnedIsFresh
PROPERTY HandshakeEnds
