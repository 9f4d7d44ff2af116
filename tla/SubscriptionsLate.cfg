\* A subscribe() whose write returns late, after a reconnection.
SPECIFICATION Spec
CONSTANTS
    AutoAck = {s1}
    ManualAck = {s2}
    Stream = {s2}
    LateDrain = {s2}
    MaxHandlers = 1
    MaxMessages = 0
    MaxSettles = 2
    MaxAdverse = 1
CHECK_DEADLOCK FALSE
INVARIANT
    SubscribedOnActive
