\* One request whose handler throws.
SPECIFICATION Spec
CONSTANTS
    r1 = r1
    r2 = r2
    c1 = c1
    c2 = c2
    Requests = {r1}
    Clients = {c1}
    SentIds = {"sent"}
    Sent <- Tasks
    Limit = 1
    Unreliable = {}
    MaxOutages = 0
INVARIANTS
    RecordedAsAnswered
CHECK_DEADLOCK FALSE
