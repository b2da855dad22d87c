CONSTANTS
    d1 = d1
    c1 = c1
    NoConfig = NoConfig
    Devices <- OneDevice
    Configs <- OneConfig
    Count = 2
    Lag = TRUE
    FailAt = {"create", "record", "read", "status", "label"}
    MaxRelabels = 2
    MaxBeats = 1
    MaxFaults = 4
SPECIFICATION FairSpec
INVARIANTS TypeOK ExecutionFirst EventsOnce
PROPERTIES LabelledIsCreated
CHECK_DEADLOCK FALSE
