SPECIFICATION FairSpec
CONSTANTS
    Claims = {c1}
    Count = 1
    CpuInfos <- AllOnline
    Statuses = {FALSE}
    None = None
INVARIANTS ProcessTypeOK SyncsNotReady PreparedIds
PROPERTIES StatusKeepsSpec CreatedEmpty ReadyPublishes StartKeepsAllocations ComesUp
CHECK_DEADLOCK FALSE
