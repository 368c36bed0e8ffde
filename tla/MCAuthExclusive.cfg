SPECIFICATION FairSpec
CONSTANTS
    Callers = {c1, c2}
    Users = {u1, u2}
    NoAuth = NoAuth
    OneTime = TRUE
    Durable = TRUE
    Exclusive = TRUE
    MaxTokens = 3
    MaxFaults = 1
PROPERTIES
    ClearsOnlyRejectedAuth
    ReturnedIsStored
    DeadSessionIsCleared
