CONSTANTS
    w1 = w1
    w2 = w2
    a = a
    b = b
    x = x
    y = y
    Absent = Absent
    Nil = Nil
    Unseen = Unseen
    Workloads <- TwoWorkloads
    Names <- TwoNames
    Keys <- TwoKeys
    Specs <- FourSpecs
    Settings <- TwoSettings
    ClaimNeeds <- Claim
    Contents <- SomeContents
    InitialDevices <- TwoDevices
    Lists <- BothLists
    MaxEdits = 2
    MaxFaults = 1
SPECIFICATION FairSpec
INVARIANTS TypeOK CompleteAnswer NothingExtra FailureHasReason
PROPERTIES Delivered
CHECK_DEADLOCK FALSE
