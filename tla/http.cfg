\* Two requests on their way, of every kind, while the dependencies come and go.
SPECIFICATION FairSpec
CONSTANTS
    r1 = r1
    r2 = r2
    c1 = c1
    c2 = c2
    Requests = {r1, r2}
    Clients = {c1, c2}
    SentIds = {"sent"}
    Sent <- Mixed
    Limit = 1
    Unreliable = {"nats", "database"}
    MaxOutages = 1
INVARIANTS
    TypeOK
    Traceable
    CountedOnce
    ProbesAreTrue
    ThrottledAlone
PROPERTIES
    EveryRequestAnswered
CHECK_DEADLOCK FALSE
