\* Storing the idempotency key fails after the acknowledgement.
SPECIFICATION Spec
CONSTANTS
    w1 = w1
    w2 = w2
    g1 = g1
    g2 = g2
    p1 = p1
    p2 = p2
    c1 = c1
    id1 = id1
    NoId = NoId
    Groups = {g1}
    Ids = {id1}
    Bodies = {"event"}
    MaxMessages = 1
    Workers = {w1, w2}
    Process <- TwoInstances
    ConsumerName <- SameName
    Group <- SameGroup
    MaxRetries <- NoRetry
    Idempotent = {g1}
    Faults = {"redis"}
INVARIANTS
    OnlyFailedAreDeadLettered
