SPECIFICATION LogSpec
CONSTANTS
    Items = {a, b, c}
    Zero = zero
    Sizes <- MCSizes
    Writers = {w1, w2}
    Handles = {f1, f2}
    Nil = Nil
INVARIANTS
    TypeOK
    HeadMatchesCount
    RecentIsSuffixOfAll
    DroppedOnlyAroundStop
    OneHandle
PROPERTY
    ImplementsBoundedLog
