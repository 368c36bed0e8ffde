SPECIFICATION FairSpec
CONSTANTS
    Callers = {c1, c2}
    Users = {u1}
    NoAuth = NoAuth
    OneTime = FALSE
    Durable = FALSE
    Exclusive = FALSE
    MaxTokens = 3
    MaxFaults = 1
INVARIANTS
    TypeOK
PROPERTIES
    UndisturbedClearIsRejection
    DeadSessionIsCleared
