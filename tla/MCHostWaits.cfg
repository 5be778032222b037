SPECIFICATION HostSpec
CONSTANTS
    Calls <- Waits
    Sessions = {s1}
    Requests <- Asked
    Directories <- Dirs
    Contents <- Old
    Usize = 8
    MaxRequests = 0
    MaxFaults = 0
    Elements = {1, 2}
    Around <- Nesting
    Controls = {2}
    NodeLimits = {1, 2}
    MaxEdits = 1
    MaxDocuments = 2
INVARIANT DocumentedCallAccepted
CHECK_DEADLOCK FALSE
