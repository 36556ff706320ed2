SPECIFICATION FairSpec
CONSTANTS
    Command = {send1, send2, addNode, get}
    NoCommand = NoCommand
    ExpectsAck = {send1, send2, addNode, get}
    ExpectsResponse = {send1, send2, get}
    ExpectsCallback = {send1, send2, addNode}
    MultiStage = {addNode}
    SendData = {send1, send2}
    MaxCommands = 2
    MaxGeneration = 1
    MayStop = FALSE
    MaxReset = 1
CHECK_DEADLOCK FALSE
INVARIANTS
    WaitersMatchLoops
    ResetHitsActiveOnly
PROPERTIES
    OwnCallback
    LostResponseIsNotRetried
    EveryCommandSettles
