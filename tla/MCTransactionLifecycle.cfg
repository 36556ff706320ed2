SPECIFICATION Spec
CONSTANTS
    Lifecycle = {l1, l2, l3, l4}
    Caller = {c1, c2, c3, c4}
    NoLifecycle = NoLifecycle
SYMMETRY Symmetry
CHECK_DEADLOCK FALSE
INVARIANTS
    TypeOK
    WaitingIffAttached
    HeardCurrentState
    AbandonedForGood
PROPERTY KeepsContract
