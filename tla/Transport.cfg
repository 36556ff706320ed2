SPECIFICATION FairSpec
CONSTANTS
    MaxDatagrams = 2
    Last = 2
    MaxLost = 1
    MaxQueued = 2
CHECK_DEADLOCK FALSE
INVARIANTS
    TypeOK
    IncompleteIsWatched
PROPERTIES
    KeepsService
    EveryTransferEnds
