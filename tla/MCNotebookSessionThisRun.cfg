SPECIFICATION Spec
CONSTANTS
    FuelLimits <- MCFuelLimits
    DefaultFuelLimit = 36
    Slices <- MCSlices
    MaxDepth = 1
    MaxCells = 2
    MaxCalls = 2
    MaxEpochs = 1
    NoCommand = NoCommand
PROPERTY
    CommandOfThisRun
CHECK_DEADLOCK FALSE
