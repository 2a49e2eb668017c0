SPECIFICATION FairSpec
CONSTANTS
    Tokens = {t1, t2}
    Requests = {q1, q2}
    SessionTimeout = 1
    MaxTime = 3
    Nil = Nil
INVARIANTS
    TypeOK
    OverIsRefused
    LiveIsServed
PROPERTY ExpiredIsRemoved
