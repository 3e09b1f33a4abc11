SPECIFICATION FairSpec
CONSTANTS
    c1 = c1
    n1 = n1
    Claims = {c1, c2}
    UsedClaims = {c1}
    Cpus = {x1}
    Nodes = {n1}
    Handlers = {h1}
    Clients = {n1, h1}
    None = None
    SharedClaims = {}
    MaxRetries = 2
    Faults = {"crash", "api", "stop"}
    NodeOf <- OneNode
    Request <- Zeros
INVARIANTS NodeTypeOK PreparedStored PreparedKnown
PROPERTIES PrepareSucceeds UnprepareSucceeds
CHECK_DEADLOCK FALSE
