CONSTANTS
    Calls = {c1, c2, c3}
    Commands = {r1, r2}
    NoCommand = NoCommand
    MaxQueue = 2
    Overlap = {"ok", "throws"}
SYMMETRY Interchangeable
SPECIFICATION Spec
INVARIANTS
    TypeOK
    CallInOnePlace
    WaitingCellCanWake
    UnansweredInOnePlace
    NobodyWaitsCancelled
PROPERTY NoRelayLeaked
CHECK_DEADLOCK FALSE
