SPECIFICATION Spec
CONSTANTS
    PIDs = {p1}
    Objs = {o1}
    Loops = {l1, l2}
    Configs <- JustHeal
    Commands = {"run"}
    NoCmd = ""
    Samples <- CpuHigh
    MetricsBufferLen = 1
    EventsBufferLen = 3
    DefaultExceedCount = 3
    DefaultCooldown = 1
    MinCooldown = 1
    MaxTime = 1
    Nil = Nil
INVARIANTS
    RestartsHaveTriggers
    RestartsSpaced
    RunningHasSampler
PROPERTY RestartsApart
VIEW Announcements
SYMMETRY Symmetry
