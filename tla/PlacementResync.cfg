CONSTANTS
    d1 = d1
    d2 = d2
    w1 = w1
    w2 = w2
    k = k
    v = v
    Absent = Absent
    NoDevice = NoDevice
    NilSelector = NilSelector
    NoSpec = NoSpec
    Devices <- OneDevice
    Workloads <- TwoWorkloads
    Keys <- OneKey
    Vals <- OneVal
    Specs <- KeySpecs
    UserLabels <- SteadyLabels
    FirstLabels <- WithK
    Lag = TRUE
    Resyncs = TRUE
    UserMay = {}
    FailAt = {}
    MaxOps = 2
    MaxBeats = 1
    MaxFaults = 0
    MaxCrashes = 0
SPECIFICATION ResyncSpec
PROPERTIES SelectedIsPlaced
CHECK_DEADLOCK FALSE
