SPECIFICATION Spec
CONSTANTS
    Ops = {o1, o2}
    File = f
    Odd = o1
    Resources = {f}
    Target <- OneFile
    Size <- UnitSize
    Addrs = {a1, a2}
    Workers = {w1, w2}
    Callers = {c1}
    NoOp = noOp
    NoAddr = noAddr
    NoResource = noResource
    MaxOperations = 2
    MaxBytes = 2
SYMMETRY Interchangeable
INVARIANTS
    TypeOK
    WindowsOwnsStorage
    OnlyCancelledIsAborted
    CancellationReachesWindows
CHECK_DEADLOCK FALSE
