SPECIFICATION FairSpec
CONSTANTS
    Interval = 3
    SlowDownStep = 5
    ExpiresIn = 16
    MaxLag = 2
    Timeout = 2
    MaxSlowDowns = 2
INVARIANTS
    TypeOK
    ExpiredDidNotMissApproval
    EndsAfterExpiry
    OutcomeFollowsDecision
PROPERTIES
    PollsAreSpaced
    FlowEnds
CHECK_DEADLOCK FALSE
