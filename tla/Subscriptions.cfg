\* One subscription of each kind, one handler at a time; one drain() may be
\* late.  The application may make no more calls and the server send no more
\* messages.
SPECIFICATION FairSpec
CONSTANTS
    AutoAck = {s1}
    ManualAck = {s2}
    Stream = {s2}
    LateDrain = {s2}
    MaxHandlers = 1
    MaxMessages = 2
    MaxSettles = 2
    MaxAdverse = 2
CHECK_DEADLOCK FALSE
INVARIANTS
    TypeOK
    SettledWhereReceived
    HandledIsSettled
    SettledOnce
    SubscribedOnce
    NoneForgotten
    PromptSubscribedOnActive
PROPERTY
    MessageHandled
