CONSTANTS
    init = init
    fleet = fleet
    c1 = c1
    c2 = c2
    Namespaces <- OneNamespace
    Initial = init
    Calls <- OneCall
    AutoApproval = TRUE
    WantsOBC = FALSE
    Lag = FALSE
    Resyncs = FALSE
    UserMay = {}
    FailAt = {"status"}
    MaxEnrols = 1
    MaxRegs = 2
    MaxOps = 0
    MaxFaults = 1
    MaxCrashes = 0
SPECIFICATION Spec
INVARIANTS NotLockedOut
CHECK_DEADLOCK FALSE
