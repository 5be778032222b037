SPECIFICATION LanguageSpec
CONSTANTS
    Registers = 12
    PushSizes = {1, 2, 3}
    Room = 11
    Kinds = {"do", "while", "repeat", "if", "for", "forin"}
    Labels = {"a"}
    Features = {"goto leaves for"}
    MaxConstructs = 2
    MaxLocals = 2
    MaxJumps = 1
    MaxClosures = 1
    MaxLabels = 1
    MaxStatements = 5
    MaxReturns = 1
    Integral = {0, 1}
    Objects = {o1, o2}
    Values = {v1}
    Nil = Nil
    Done = Done
    NotFound = NotFound
    MaxInteger = 4
    UsizeBits = 3
    MaxArray = 1
    Buckets = {1, 2, 3}
INVARIANTS CompilerNeverPanics
CHECK_DEADLOCK FALSE
