SPECIFICATION Spec
CONSTANTS
    Records = {"r1"}
    Users = {"ann", "bob"}
    Clients = {"c1", "c2"}
    Kinds = {"claim"}
    Scores = {4}
    Notes = {"a"}
    JudgeScores <- MCJudgeScores
    Lengths <- MCLengths
    Bodies <- OneRecord
    Queued <- OneQueued
    MaxRequests = 2
    MaxFaults = 0
    None = None
CHECK_DEADLOCK FALSE
INVARIANTS
    ClaimIsExclusive
