SPECIFICATION FairSpec
CONSTANTS
    c1 = c1
    c2 = c2
    c3 = c3
    p1 = p1
    p2 = p2
    Claims = {c1}
    Pods = {p1, p2}
    Cpus = {x1}
    Nodes = {n1}
    Workers = {w1, w2}
    Clients = {w1, w2}
    None = None
    MaxRetries = 2
    Faults = {"status"}
    PodClaims <- SharedClaim
    Request <- Halves
PROPERTIES Released WorkersReturn
CHECK_DEADLOCK FALSE
