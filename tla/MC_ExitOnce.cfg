SPECIFICATION FairSpec
CONSTANTS
    PIDs = {p1}
    Objs = {o1}
    Loops = {l1}
    Configs <- SlowHeal
    Commands = {"run"}
    NoCmd = ""
    Samples <- Low
    MetricsBufferLen = 1
    EventsBufferLen = 1
    DefaultExceedCount = 3
    DefaultCooldown = 1
    MinCooldown = 2
    MaxTime = 3
    Nil = Nil
PROPERTY ExitIsRestarted
