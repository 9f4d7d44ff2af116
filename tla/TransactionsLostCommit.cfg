\* Two transactions that overlap each other and a reconnection.
SPECIFICATION Spec
CONSTANTS
    Txns = {t1, t2}
    MaxSends = 0
    MaxAdverse = 3
INVARIANT
    CommitNotLost
