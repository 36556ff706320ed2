SPECIFICATION Spec
CONSTANTS
    Command = {send, get}
    NoCommand = NoCommand
    ExpectsAck = {send, get}
    ExpectsResponse = {send, get}
    ExpectsCallback = {}
    MultiStage = {}
    SendData = {}
    MaxCommands = 2
    MaxGeneration = 2
    MayStop = TRUE
    MaxReset = 0
CHECK_DEADLOCK FALSE
INVARIANTS
    PendingIsHeld
