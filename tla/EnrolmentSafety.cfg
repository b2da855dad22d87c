CONSTANTS
    init = init
    fleet = fleet
    c1 = c1
    c2 = c2
    Namespaces <- TwoNamespaces
    Initial = init
    Calls <- TwoCalls
    AutoApproval = FALSE
    WantsOBC = FALSE
    Lag = TRUE
    Resyncs = FALSE
    UserMay = {"approve", "withdraw", "deleteDevice"}
    FailAt = {"request", "create", "label", "answer", "stop"}
    MaxEnrols = 2
    MaxRegs = 2
    MaxOps = 3
    MaxFaults = 1
    MaxCrashes = 0
SPECIFICATION Spec
INVARIANTS TypeOK ApprovedFirst LockedOutOnlyByLoss RemovalIsPending ApprovalIsPending
PROPERTIES ImplementsDeviceLife RequestGoneFirst
CHECK_DEADLOCK FALSE
SYMMETRY CallSymmetry
