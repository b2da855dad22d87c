CONSTANTS
    d1 = d1
    d2 = d2
    w1 = w1
    w2 = w2
    k = k
    v = v
    Absent = Absent
    NoDevice = NoDevice
    NilSelector = NilSelector
    NoSpec = NoSpec
    Devices <- OneDevice
    Workloads <- OneWorkload
    Keys <- OneKey
    Vals <- OneVal
    Specs <- KeyOrLack
    UserLabels <- ToggledLabels
    FirstLabels <- WithK
    Lag = FALSE
    Resyncs = FALSE
    UserMay = {"delete"}
    FailAt = {"device", "workload"}
    MaxOps = 5
    MaxBeats = 0
    MaxFaults = 1
    MaxCrashes = 1
SPECIFICATION FairSpec
INVARIANTS DeletionIsPending IndexIsPending
PROPERTIES SelectedIsPlaced DeletedIsCleared DeletionCompletes
CHECK_DEADLOCK FALSE
