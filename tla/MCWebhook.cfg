SPECIFICATION FairSpec
CONSTANTS
    Messages = {m1, m2}
    Undecodable = {m2}
    Handlers = {h1, h2}
    Stores = {TRUE, FALSE}
    MaxAge = 0
    Skew = 1
    MaxTime = 1
    MaxFailures = 1
    MaxRestarts = 1
INVARIANTS
    TypeOK
    AcceptedOncePerLifetime
    OnlyGenuineIsRemembered
    DuplicateHasOriginal
    WindowIsExact
PROPERTIES
    HandledUnlessSpoiled
