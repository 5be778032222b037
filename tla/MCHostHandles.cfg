SPECIFICATION HostSpec
CONSTANTS
    Calls <- Waits
    Sessions = {s1, s2}
    Requests <- Asked
    Directories <- Dirs
    Contents <- Old
    Usize = 8
    MaxRequests = 0
    MaxFaults = 0
    Elements = {1, 2, 3}
    Around <- Nesting
    Controls = {2, 3}
    NodeLimits = {1, 3}
    MaxEdits = 1
    MaxDocuments = 2
SYMMETRY Alike
INVARIANT HandleOfSnapshot
CHECK_DEADLOCK FALSE
