SPECIFICATION FairSpec
CONSTANTS
    Callers = {k1, k2}
    n1 = n1
    n2 = n2
    Conns = {n1, n2}
    None = None
    MaxOutages = 2
INVARIANTS
    TypeOK
    OneConnection
    ClientsOfTheConnection
    WaitsForTheAttempt
PROPERTIES
    ReadyAgain
