CONSTANTS
    Threads = {t1, t2, t3}
    MaxFrames = 2
    MaxBottom = 0
    MaxValues = 1
SPECIFICATION Spec
SYMMETRY Symmetry
INVARIANTS
    ThreadChain
    NoLostThread
PROPERTIES
    ResultGoesToResumer
    ImplementsContract
