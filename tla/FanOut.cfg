CONSTANTS
    d1 = d1
    d2 = d2
    d3 = d3
    d4 = d4
    d5 = d5
    Devices <- FiveDevices
    MatchingLists <- Matching
    LabelledLists <- Labelled
    Concurrencies = {1, 2, 3, 7}
SPECIFICATION FairSpec
INVARIANTS TypeOK GoodSlices VisitedOnce
PROPERTIES ImplementsVisitAll Terminates
CHECK_DEADLOCK FALSE
