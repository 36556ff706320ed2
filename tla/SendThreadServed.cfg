SPECIFICATION FairSpec
CONSTANTS
    sleeper = sleeper
    listener = listener
    set = set
    get = get
    ping = ping
    nmi = nmi
    other = other
    another = another
    query = query
    Node = {sleeper, listener}
    CanSleep = {sleeper}
    SupportsWakeUp = {sleeper}
    Command = {get, other, another, query}
    NoCommand = NoCommand
    NodeOf <- MCNodeOf
    Ping = {another}
    NoMoreInformation = {}
    NeedsUpdate = {get, other}
    NodeQuery = {query}
    Interview = {query}
    MaxCommands = 3
    MaxSendAttempts = 2
    MaxBusy = 2
    MaxDeferred = 1
    MayReportBusy = FALSE
    MayInclude = TRUE
    MayExpire = FALSE
CHECK_DEADLOCK FALSE
PROPERTIES
    ListeningNodesAreServed
    DeadNodeIsCleared
