SPECIFICATION FairSpec
CONSTANTS
    Files = 2
    Fragments = 2
    MaxUpdates = 2
    MaxReports = 2
    NoRequest = NoRequest
CHECK_DEADLOCK FALSE
INVARIANTS
    OutcomeFitsNode
PROPERTIES
    AnswersAreCurrent
    EveryUpdateEnds
