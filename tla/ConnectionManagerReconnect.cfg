\* One application task; background recovery is kept alive.
SPECIFICATION FairSpec
CONSTANTS
    Users = {u1}
    Servers = 1
    ConnectAttempts = 1
    WriteAttempts = 2
    KeepAlive = TRUE
    Monitoring = TRUE
    MaxAdverse = 2
PROPERTIES
    ListenerReconnects
    WritesComplete
