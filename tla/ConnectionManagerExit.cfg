\* No application task outlives the context of the client.
SPECIFICATION FairSpec
CONSTANTS
    Users = {}
    Servers = 1
    ConnectAttempts = 2
    WriteAttempts = 2
    KeepAlive = FALSE
    Monitoring = TRUE
    MaxAdverse = 4
PROPERTY
    ExitTerminates
