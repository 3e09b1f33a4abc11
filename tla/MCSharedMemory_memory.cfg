SPECIFICATION FairSpec
CONSTANTS
    Workers = {w1, w2}
    Nodes = {n1, n2}
    Claims = {c1}
    None = None
INVARIANTS MemoryTypeOK NodeExclusive ReadsUndisturbed
PROPERTIES ImplementsMutex CallsReturn
CHECK_DEADLOCK FALSE
