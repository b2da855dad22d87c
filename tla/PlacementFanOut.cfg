CONSTANTS
    d1 = d1
    d2 = d2
    w1 = w1
    w2 = w2
    k = k
    v = v
    Absent = Absent
    NoDevice = NoDevice
    NilSelector = NilSelector
    NoSpec = NoSpec
    Devices <- TwoDevices
    Workloads <- OneWorkload
    Keys <- TwoKeys
    Vals <- NamesToo
    Specs <- KeyOrLack
    UserLabels <- FlagLabels
    FirstLabels <- WithK
    Lag = TRUE
    Resyncs = FALSE
    UserMay = {"delete", "edit", "recreate"}
    FailAt = {"device", "finalizer"}
    MaxOps = 3
    MaxBeats = 0
    MaxFaults = 1
    MaxCrashes = 0
SPECIFICATION Spec
INVARIANTS TypeOK PlacementJustified
PROPERTIES CleanupBeforeGone
CHECK_DEADLOCK FALSE
