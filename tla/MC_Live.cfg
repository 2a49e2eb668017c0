SPECIFICATION FairSpec
CONSTANTS
    PIDs = {p1}
    Objs = {o1}
    Loops = {l1, l2}
    Configs <- CountCpu
    Commands = {"run"}
    NoCmd = ""
    Samples <- CpuHigh
    MetricsBufferLen = 1
    EventsBufferLen = 1
    DefaultExceedCount = 2
    DefaultCooldown = 1
    MinCooldown = 1
    MaxTime = 0
    Nil = Nil
PROPERTIES
    DeadTargetIsReported
    SustainedOverloadAlarms
    ImplementsWatch
