SPECIFICATION Spec
CONSTANTS
    PIDs = {p1}
    Objs = {o1, o2}
    Loops = {l1}
    Configs <- Counting
    Commands = {"run"}
    NoCmd = ""
    Samples <- HighOrMiddle
    MetricsBufferLen = 2
    EventsBufferLen = 1
    DefaultExceedCount = 3
    DefaultCooldown = 2
    MinCooldown = 1
    MaxTime = 0
    Nil = Nil
INVARIANTS
    TypeOK
    FirstDetection
    LatestIsNewest
    AlarmJustified
VIEW Reachable
SYMMETRY Symmetry
