SPECIFICATION Spec
CONSTANTS
    Records = {"r1"}
    Users = {"ann"}
    Clients = {"c1"}
    Kinds = {"refresh", "claim"}
    Scores = {4}
    Notes = {"a"}
    JudgeScores <- MCJudgeScores
    Lengths <- MCLengths
    Bodies <- OneRecord
    Queued <- OneQueued
    MaxRequests = 2
    MaxFaults = 0
    None = None
CHECK_DEADLOCK FALSE
INVARIANTS
    RefreshSucceeds
