SPECIFICATION FairSpec
CONSTANTS
    Capabilities = TRUE
    MaxLines = 2
    MaxRaws = 1
    MaxCloses = 2
    MaxCancels = 1
INVARIANTS
    LinesBecomeEvents
    PongBeforePing
    CloseSaysGoodbye
PROPERTIES
    PingIsAnswered
CHECK_DEADLOCK FALSE
