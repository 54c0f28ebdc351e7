SPECIFICATION Spec
CONSTANTS
    Ops = {o1, o2, o3}
    File = f
    Odd = o1
    Resources = {f}
    Target <- OneFile
    Size <- OddSize
    Addrs = {a1}
    Workers = {w1}
    Callers = {}
    NoOp = noOp
    NoAddr = noAddr
    NoResource = noResource
    MaxOperations = 2
    MaxBytes = 2
SYMMETRY EqualSizes
INVARIANTS
    OperationsCounted
    BytesCounted
CHECK_DEADLOCK FALSE
