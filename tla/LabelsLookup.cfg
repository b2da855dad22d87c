CONSTANTS
    d1 = d1
    d2 = d2
    k1 = k1
    v1 = v1
    v2 = v2
    Absent = Absent
    NoDevice = NoDevice
    NilSelector = NilSelector
    w1 = w1
    w2 = w2
    Devices <- MCDevices
    Keys <- MCKeys
    Vals <- MCVals
    Workloads <- MCWorkloads
    Specs <- MCSpecs
SPECIFICATION Spec
INVARIANTS TypeOK LookupIsExact
CHECK_DEADLOCK FALSE
