SPECIFICATION FairSpec
CONSTANTS
    MaxAttempts = 2
    DecryptAttempts = 5
    MaxCommands = 2
    MaxNodeFrames = 2
    MaxFaults = 1
    MaxRestarts = 1
    MaxQueued = 2
CHECK_DEADLOCK FALSE
PROPERTIES
    VerifiedIsDecoded
