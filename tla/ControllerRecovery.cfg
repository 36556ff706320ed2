SPECIFICATION FairSpec
CONSTANTS
    n1 = n1
    n2 = n2
    set = set
    nonce = nonce
    other = other
    get = get
    Node = {n1, n2}
    Send = {set, nonce, other}
    Immediate = {nonce}
    Other = {}
    NoCommand = NoCommand
    NodeOf <- MCNodeOf
    MaySoftReset = TRUE
    IsRecent = TRUE
    MaxJammed = 2
    MaxPolls = 2
    MaxRecoveries = 2
    MaxFaults = 2
CHECK_DEADLOCK FALSE
INVARIANTS
    OpenIsHeld
    UnresponsiveIsPursued
    RecoveriesAdvance
PROPERTIES
    EveryCommandEnds
