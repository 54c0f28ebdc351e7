SPECIFICATION FairSpec
CONSTANTS
    Ops = {o1, o2}
    File = f
    Odd = o1
    Resources = {f}
    Target <- OneFile
    Size <- UnitSize
    Addrs = {a1, a2}
    Workers = {w1}
    Callers = {}
    NoOp = noOp
    NoAddr = noAddr
    NoResource = noResource
    MaxOperations = 2
    MaxBytes = 2
PROPERTIES
    ImplementsIoSpec
    CancelledComesBack
CHECK_DEADLOCK FALSE
