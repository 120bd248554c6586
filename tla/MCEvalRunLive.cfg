SPECIFICATION FairSpec
CONSTANTS
    Runs = {"big", "small"}
    Size <- MCSize
    Scaleless = {"small"}
    Workers = {"w1"}
    Concurrency = 2
    MaxLen = 2
    MaxFaults = 2
PROPERTIES
    RunsFinish
    EveryMessageSettles
    StopEndsLoop
