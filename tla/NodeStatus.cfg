SPECIFICATION FairSpec
CONSTANTS
    sleeper = sleeper
    listener = listener
    Node = {sleeper, listener}
    Known = {sleeper, listener}
    Sleeping = {sleeper}
    MaxAttempts = 2
    MayChange = TRUE
    MayRefresh = TRUE
CHECK_DEADLOCK FALSE
INVARIANTS
    TypeOK
    IncompleteIsPursued
    ReadinessFitsStatus
    OnlySleepersSleep
PROPERTIES
    LastNodeAnnounces
    InterviewsEnd
