CONSTANTS
    Calls = {c1, c2}
    Commands = {r1, r2}
    NoCommand = NoCommand
    MaxQueue = 2
    Overlap = {"ok", "throws"}
SPECIFICATION FairSpec
PROPERTIES
    CallSettles
    ImplementsService
CHECK_DEADLOCK FALSE
