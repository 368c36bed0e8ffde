SPECIFICATION FairSpec
CONSTANTS
    Kinds <- Representatives
    MaxFrames = 3
    MaxCancels = 1
INVARIANTS
    TypeOK
    ReadyMeansSubscribed
    NoRequestLeftRunning
    DeleteIsBestEffort
    ChatComplete
PROPERTIES
    ImplementsFeed
    ConnectSettles
    ChatReachesReader
    CloseDrains
CHECK_DEADLOCK FALSE
