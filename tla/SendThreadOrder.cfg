SPECIFICATION Spec
CONSTANTS
    sleeper = sleeper
    listener = listener
    set = set
    get = get
    ping = ping
    nmi = nmi
    other = other
    another = another
    query = query
    Node = {sleeper, listener}
    CanSleep = {sleeper}
    SupportsWakeUp = {sleeper}
    Command = {set, get, ping, nmi, other, query}
    NoCommand = NoCommand
    NodeOf <- MCNodeOf
    Ping = {ping}
    NoMoreInformation = {nmi}
    NeedsUpdate = {get, other}
    NodeQuery = {query}
    Interview = {}
    MaxCommands = 3
    MaxSendAttempts = 1
    MaxBusy = 2
    MaxDeferred = 1
    MayReportBusy = TRUE
    MayInclude = FALSE
    MayExpire = TRUE
CHECK_DEADLOCK FALSE
INVARIANTS
    TypeOK
    SleepersDoNotBlock
    NothingIsContinued
    OpenIsHeld
    OneCopy
PROPERTIES
    OlderFirst
   
