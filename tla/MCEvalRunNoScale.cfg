SPECIFICATION FairSpec
CONSTANTS
    Runs = {"big", "small"}
    Size <- MCSize
    Scaleless = {"small"}
    Workers = {"w1"}
    Concurrency = 2
    MaxLen = 3
    MaxFaults = 0
PROPERTIES
    RunsGetDone
