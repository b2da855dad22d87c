CONSTANTS
    d1 = d1
    d2 = d2
    w1 = w1
    w2 = w2
    k = k
    v = v
    Absent = Absent
    NoDevice = NoDevice
    NilSelector = NilSelector
    NoSpec = NoSpec
    Devices <- OneDevice
    Workloads <- OneWorkload
    Keys <- OneKey
    Vals <- OneVal
    Specs <- KeyOrNowhere
    UserLabels <- SteadyLabels
    FirstLabels <- WithK
    Lag = FALSE
    Resyncs = TRUE
    UserMay = {"edit"}
    FailAt = {}
    MaxOps = 2
    MaxBeats = 0
    MaxFaults = 0
    MaxCrashes = 0
SPECIFICATION ResyncSpec
PROPERTIES UnselectedIsRemoved
CHECK_DEADLOCK FALSE
