SPECIFICATION Spec
CONSTANTS
    Readers = {"typed", "json"}
    Collections <- Cursors
INVARIANTS
    DoneMeansComplete
    FailsOnlyAsKnown
CHECK_DEADLOCK FALSE
