SPECIFICATION FairSpec
CONSTANTS
    FuelLimits <- MCFuelLimits
    DefaultFuelLimit = 36
    Slices <- MCSlices
    MaxDepth = 1
    MaxCells = 2
    MaxCalls = 2
    MaxEpochs = 1
    NoCommand = NoCommand
INVARIANTS
    TypeOK
    FreshCommandResumable
    LeftoverOnlyFromCutCell
PROPERTIES
    HandedAtMostOnce
    CancelledSessionOnlyFails
    FuelErrorOnlyWhenCut
    UsesContract
    StepTerminates
CHECK_DEADLOCK FALSE
