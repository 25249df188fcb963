SPECIFICATION Spec
CONSTANTS
    p1 = p1
    p2 = p2
    p3 = p3
    p4 = p4
    placed = placed
    paid = paid
    dead = dead
    other = other
    key = key
    NoKey = NoKey
    Publishers = {p1, p2, p3, p4}
    Batch <- Batches
    Key <- Keying
    StreamName <- Names
    Subject <- SubjectOf
    DeadLetters <- DeadLetterOf
    MaxTries <- Twice
    Expiring = {key}
    Faults <- FaultsOf
INVARIANTS
    TypeOK
    ConfirmedIsStored
    StoredOncePerKey
    BatchInOrder
    ProvisionedBeforePublish
PROPERTIES
    ImplementsPublication
\* Every batch is published or given up in the end.
CHECK_DEADLOCK FALSE
