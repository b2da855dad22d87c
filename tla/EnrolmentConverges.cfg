CONSTANTS
    init = init
    fleet = fleet
    c1 = c1
    c2 = c2
    Namespaces <- OneNamespace
    Initial = init
    Calls <- OneCall
    AutoApproval = TRUE
    WantsOBC = TRUE
    Lag = TRUE
    Resyncs = TRUE
    UserMay = {"deleteDevice", "deleteRequest"}
    FailAt = {"read", "request", "create", "claim", "finalizer"}
    MaxEnrols = 2
    MaxRegs = 0
    MaxOps = 2
    MaxFaults = 2
    MaxCrashes = 1
SPECIFICATION FairSpec
INVARIANT BucketIsPending
PROPERTIES ApprovedIsHonoured BucketIsReferenced DeletionCompletes
CHECK_DEADLOCK FALSE
