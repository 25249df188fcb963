\* One worker, lost replies, slow handlers, republished messages.
SPECIFICATION Spec
CONSTANTS
    w1 = w1
    w2 = w2
    g1 = g1
    g2 = g2
    p1 = p1
    p2 = p2
    c1 = c1
    id1 = id1
    NoId = NoId
    Groups = {g1}
    Ids = {id1}
    Bodies = {"event"}
    MaxMessages = 2
    Workers = {w1}
    Process <- Alone
    ConsumerName <- AloneName
    Group <- AloneGroup
    MaxRetries <- AloneRetries
    Idempotent = {g1}
    Faults = {"reply", "handler", "slow", "window", "unsubscribe"}
INVARIANTS
    HandledOncePerKey
    OnlyFailedAreDeadLettered
