CONSTANTS
    Threads = {t1, t2}
    MaxFrames = 3
    MaxBottom = 2
    MaxValues = 1
SPECIFICATION Spec
SYMMETRY Symmetry
INVARIANTS
    FrameDiscipline
    ValueDiscipline
    SequenceStack
