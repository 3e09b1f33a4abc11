SPECIFICATION Spec
CONSTANTS
    c1 = c1
    n1 = n1
    Claims = {c1}
    UsedClaims = {c1}
    Cpus = {x1, x2}
    Nodes = {n1}
    Handlers = {h1}
    Clients = {n1, h1}
    None = None
    SharedClaims = {}
    MaxRetries = 2
    Faults = {}
    NodeOf <- OneNode
    Request <- Forties
INVARIANT DeviceAllocated
SYMMETRY HandlerSymmetry
CHECK_DEADLOCK FALSE
