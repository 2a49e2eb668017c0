SPECIFICATION Spec
CONSTANTS
    p1 = p1
    PIDs = {p1, p2}
    NoPid = NoPid
    Configs <- ByName
    Refinders = {r1, r2}
    MetricsBufferLen = 1
    EventsBufferLen = 1
    RestartCooldown = 3
    RefindDelay = 1
    RefindTries = 3
INVARIANT KillsSampled
VIEW Decisions
