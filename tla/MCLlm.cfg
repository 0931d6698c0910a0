SPECIFICATION FairSpec
CONSTANTS
    r1 = r1
    r2 = r2
    Nobody = Nobody
    Requests = {r1, r2}
    QueueSize = 1
    MaxChunks = 1
    MaxUnstarted = 1
INVARIANTS
    SerializedInference
    BoundedBacklog
    StreamFaithful
PROPERTY
    GenerationEnds
CHECK_DEADLOCK FALSE
