\* A task of the application reconnects while the client is leaving.
SPECIFICATION FairSpec
CONSTANTS
    Users = {u1}
    Servers = 1
    ConnectAttempts = 1
    WriteAttempts = 1
    KeepAlive = FALSE
    Monitoring = TRUE
    MaxAdverse = 1
PROPERTY
    ExitTerminates
