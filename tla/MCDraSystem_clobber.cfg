SPECIFICATION Spec
CONSTANTS
    n1 = n1
    Claims = {c1, c2}
    Pods = {c1, c2}
    Cpus = {x1}
    Nodes = {n1}
    Workers = {w1}
    Handlers = {h1}
    Clients = {w1, h1, n1}
    None = None
    SharedClaims = {}
    MaxRetries = 1
    WorkerFaults = {}
    ProcessFaults = {}
    PodClaims <- OwnClaims
    NodeOf <- OneNode
    Request <- Forties
INVARIANT StatusBacked
SYMMETRY PodSymmetry
CHECK_DEADLOCK FALSE
