SPECIFICATION MCSpec
CONSTANTS
    Records = {"r1", "r2"}
    Users = {"ann", "bob"}
    Clients = {"c1"}
    Kinds = {"label", "recompute", "refresh", "claim", "skip"}
    Scores = {4, 6}
    Notes = {"a"}
    JudgeScores <- MCJudgeScores
    Lengths <- MCLengths
    Bodies <- OneRecord
    Queued <- OneQueued
    MaxRequests = 4
    MaxFaults = 1
    None = None
    Samples <- MCSamples
    Matrices <- MCMatrices
    Judgements <- MCJudgements
    LengthTables <- MCLengthTables
    WeightTables <- MCWeightTables
    QueueSizes <- MCQueueSizes
CHECK_DEADLOCK FALSE
INVARIANTS
    SnapshotIsLatest
    AgreementIsSound
    RankingIsSound
