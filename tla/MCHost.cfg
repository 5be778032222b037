SPECIFICATION HostSpec
CONSTANTS
    Calls <- AllCalls
    Sessions = {s1, s2}
    Requests <- Asked
    Directories <- Dirs
    Contents <- Old
    Usize = 8
    MaxRequests = 2
    MaxFaults = 1
    Elements = {1, 2}
    Around <- Nesting
    Controls = {2}
    NodeLimits = {1, 2}
    MaxEdits = 4
    MaxDocuments = 2
SYMMETRY Alike
INVARIANTS ArgumentsArrive ParamsUnderstood Portable AsIfAlone MoveNeverLoses ActsAsAnswered LastEditOnItsWay
CHECK_DEADLOCK FALSE
