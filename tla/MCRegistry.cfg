SPECIFICATION FairSpec
CONSTANTS
    Metrics = {"faithfulness"}
    Datasets = {"golden"}
    Irs = {"ir1", "ir2"}
    Files = {"f1"}
    Clients = {"c1", "c2"}
    MaxJobs = 3
    MaxFaults = 1
    None = None
CHECK_DEADLOCK FALSE
INVARIANTS
    TypeOK
    NothingPartial
    SuiteRunsItsOwn
PROPERTIES
    ImplementsVersionLog
    OnlyRacesRefuse
    JobsEnd
