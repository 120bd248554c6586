SPECIFICATION MCSpec
CONSTANTS
    Requests = {"batch", "blank"}
    Traces <- MCTraces
    Kind <- MCKind
    Workers = {"w1", "w2"}
    BatchSize = 2
    MaxLen = 2
    MaxPosts = 2
    MaxFaults = 1
    SpanIds <- MCSpanIds
    SpanNames = {"a", "b"}
    SpanScopes = {"x"}
    OtlpRequests <- MCOtlpRequests
INVARIANTS
    TypeOK
    AcceptedIsKept
    AckedIsStored
    StoredOnce
    CopiesHaveCauses
    TranslationIsSound
PROPERTIES
    EntriesMoveOn
    CleanTracesArrive
