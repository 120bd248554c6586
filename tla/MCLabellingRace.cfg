SPECIFICATION FairSpec
CONSTANTS
    Records = {"r1", "r2"}
    Users = {"ann"}
    Clients = {"c1", "c2"}
    Kinds = {"label", "refresh", "claim", "skip"}
    Scores = {4}
    Notes = {"a"}
    JudgeScores <- MCJudgeScores
    Lengths <- MCLengths
    Bodies <- TwoRecords
    Queued <- AllOrNone
    MaxRequests = 3
    MaxFaults = 1
    None = None
CHECK_DEADLOCK FALSE
INVARIANTS
    TypeOK
    ClaimedRowsStay
PROPERTIES
    OnlyOpenRowsGo
    QueuesUnlabelled
    RequestsAnswered
