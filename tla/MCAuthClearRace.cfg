SPECIFICATION Spec
CONSTANTS
    Callers = {c1, c2}
    Users = {u1}
    NoAuth = NoAuth
    OneTime = TRUE
    Durable = TRUE
    Exclusive = FALSE
    MaxTokens = 3
    MaxFaults = 1
PROPERTIES
    UndisturbedClearIsRejection
