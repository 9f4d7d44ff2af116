\* Two overlapping transactions, two SENDs each, two harmful events.
SPECIFICATION FairSpec
CONSTANTS
    Txns = {t1, t2}
    MaxSends = 2
    MaxAdverse = 2
INVARIANTS
    TypeOK
    CommitKept
    NoneWaitsWhileConnected
    KeyErrorExplained
PROPERTIES
    EndsOnce
    ReplayIsComplete
    ReplayedOnce
    AbortedStaysAborted
    PendingCommitted
