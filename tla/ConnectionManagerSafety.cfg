\* Two application tasks, two servers, one retry, three harmful events; a
\* failed retry cycle is fatal.
SPECIFICATION Spec
CONSTANTS
    Users = {u1, u2}
    Servers = 2
    ConnectAttempts = 2
    WriteAttempts = 2
    KeepAlive = FALSE
    Monitoring = TRUE
    MaxAdverse = 3
SYMMETRY UserSymmetry
INVARIANTS
    TypeOK
    OneConnector
    OnlyUnawaitedDialsLeak
    EpochNamesConnection
    BackgroundTasksAlive
    ExitReleasesConnection
PROPERTIES
    ActiveLeavesClosed
    ImplementsSlot
