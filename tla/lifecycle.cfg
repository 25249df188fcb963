\* Starts and shutdowns of one process, with every fault.
SPECIFICATION FairSpec
CONSTANTS
    m1 = m1
    m2 = m2
    Messaging = {m1, m2}
    Health = m2
    Subscribed = {m1}
    Database = Database
    Environments <- Varied
    Faults = {"database", "nats", "redis"}
INVARIANTS
    TypeOK
    ServesConfigured
    ReleasedBeforeRaise
    ForcedForCause
PROPERTIES
    ShutdownEnds
CHECK_DEADLOCK FALSE
