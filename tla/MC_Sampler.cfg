SPECIFICATION FairSpec
CONSTANTS
    PIDs = {p1}
    Listers = {l1, l2}
    PidReuse = TRUE
    Word = 8
    MaxCount = 2
    MaxTime = 2
    Nil = Nil
INVARIANT TypeOK
PROPERTIES
    SamplesAreDropped
    SamplesAdvance
    RateIsGrowth
