\* Two subscribers; connect() overlaps start(), stop() follows it, and ping()
\* comes at any time.  The server sends every other tick.
SPECIFICATION FairSpec
CONSTANTS
    Subscribers = {s1, s2}
    NoSubscriber = NoSubscriber
    WillSend = 2
    Factor = 2
INVARIANTS
    EntersOnce
    StopReleases
    AliveWhileHealthy
PROPERTIES
    StopEnds
    DeadNoticed
