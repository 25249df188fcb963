\* Two loops of one service and key.  Lost replies, failing handlers and Redis calls: every message is settled.
SPECIFICATION FairSpec
CONSTANTS
    w1 = w1
    w2 = w2
    g1 = g1
    g2 = g2
    p1 = p1
    p2 = p2
    c1 = c1
    id1 = id1
    NoId = NoId
    Groups = {g1}
    Ids = {}
    Bodies = {"event", "invalid"}
    MaxMessages = 2
    Workers = {w1, w2}
    Process <- OneInstance
    ConsumerName <- SameName
    Group <- SameGroup
    MaxRetries <- RetryOnce
    Idempotent = {g1}
    Faults = {"reply", "redis", "handler"}
INVARIANTS
    ProcessedByOneConsumer
    NoSilentDrop
    TermedAreDeadLettered
PROPERTIES
    EventuallySettled
