SPECIFICATION Spec
CONSTANTS
    c1 = c1
    c2 = c2
    c3 = c3
    p1 = p1
    p2 = p2
    Claims = {c1}
    Pods = {p1, p2}
    Cpus = {x1}
    Nodes = {n1, n2}
    Workers = {w1, w2}
    Clients = {w1, w2}
    None = None
    MaxRetries = 2
    Faults = {}
    PodClaims <- SharedClaim
    Request <- Halves
INVARIANT FullyAllocated
SYMMETRY Symmetry
CHECK_DEADLOCK FALSE
