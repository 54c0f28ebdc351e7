SPECIFICATION Spec
CONSTANTS
    Threads = {t1, t2}
    Objects = {o1}
    NoThread = NoThread
    MaxRefs = 1
    MaxDepth = 2
SYMMETRY Interchangeable
INVARIANTS
    UniqueMeansSole
