SPECIFICATION Spec
CONSTANTS
    Runs = {"big", "empty"}
    Size <- MCSize
    Scaleless = {}
    Workers = {"w1", "w2"}
    Concurrency = 1
    MaxLen = 1
    MaxFaults = 2
INVARIANTS
    TypeOK
    CountersExact
    DoneMeansScored
    UncountedStaysPending
    DeliveredOnce
PROPERTIES
    ImplementsLedger
