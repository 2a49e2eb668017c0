SPECIFICATION FairSpec
CONSTANTS
    PIDs = {p1}
    Objs = {o1}
    Loops = {l1}
    Configs <- JustReport
    Commands = {"run"}
    NoCmd = ""
    Samples <- Low
    MetricsBufferLen = 1
    EventsBufferLen = 1
    DefaultExceedCount = 3
    DefaultCooldown = 1
    MinCooldown = 1
    MaxTime = 0
    Nil = Nil
PROPERTY StopEndsSampling
