SPECIFICATION FairTasksSpec
CONSTANTS
    Clients = {k1, k2}
    a = a
    b = b
    TaskIds = {a, b}
    t1 = t1
    t2 = t2
    Titles = {t1, t2}
    Sent <- FewRequests
    DatabaseFails = TRUE
INVARIANTS
    TasksTypeOK
    RemovedOnce
PROPERTIES
    ImplementsApi
    Answered
