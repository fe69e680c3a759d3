SPECIFICATION FairSpec
CONSTANTS
    Primary = "k1"
    Pool <- TwoKeys
    MaxRetries = 3
    JsonAttempts = 2
    Texts = {"t1", "t2", "t3"}
    EmbedRequests <- TextLists
    BatchSize = 2
    MaxUse = 4
    MaxBroken = 2
INVARIANTS
    RequestsAreMetered
    RetriesRotate
    EmbeddingsInOrder
    PaidOncePerFailure
PROPERTIES
    CallEnds
