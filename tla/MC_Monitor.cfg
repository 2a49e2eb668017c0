SPECIFICATION FairSpec
CONSTANTS
    p1 = p1
    PIDs = {p1, p2}
    NoPid = NoPid
    Configs <- AnyConfig
    Refinders = {r1, r2}
    MetricsBufferLen = 1
    EventsBufferLen = 1
    RestartCooldown = 2
    RefindDelay = 1
    RefindTries = 2
INVARIANTS
    TypeOK
    WaitingIsSearching
PROPERTIES
    DeadIsRestarted
    OverloadIsRestarted
    ImplementsRestarter
