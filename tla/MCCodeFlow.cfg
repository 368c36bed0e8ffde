SPECIFICATION Spec
CONSTANTS
    Logins = {l1, l2}
    Handlers = {h1, h2}
    StateLife = 2
    TokenLife = 3
    Skew = 2
    MaxLag = 1
    MaxTime = 7
    MaxApproved = 1
    MaxRenewals = 2
SYMMETRY Symmetry
INVARIANTS
    LoginIsInTime
    SpentCodeIsKept
    UndueTokenIsAlive
CHECK_DEADLOCK FALSE
