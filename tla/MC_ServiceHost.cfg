SPECIFICATION HostFairSpec
CONSTANTS
    PIDs = {p1}
    Loops = {l1}
    Requests = {q1, q2}
    ShutdownTimeout = 2
    Nil = Nil
    Modes = {"scm", "systemd", "terminal"}
    UninstallPolls = 3
    RecoveryDelay = 2
    Repairs <- JustService
INVARIANTS
    TypeOK
    AddedIsWatched
    CutOnlyAfterTimeout
    HostTypeOK
    DeletesStopped
PROPERTIES
    StopEndsProcess
    WantedServiceRuns
