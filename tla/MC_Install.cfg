SPECIFICATION HostFairSpec
CONSTANTS
    PIDs = {p1}
    Loops = {l1}
    Requests = {q1, q2}
    ShutdownTimeout = 2
    Nil = Nil
    Modes = {"scm"}
    UninstallPolls = 3
    RecoveryDelay = 2
    Repairs <- NoRepair
PROPERTY StartedServiceRuns
