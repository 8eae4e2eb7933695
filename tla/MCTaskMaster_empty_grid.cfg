SPECIFICATION Spec
CONSTANTS
    TaskIds = {t1, t2}
    Titles = {milk}
    Days = {mon}
    Nil = Nil
    SaveMayFail = FALSE
    FetchMayFail = FALSE
    MaxDeferred = 2
INVARIANTS EmptyMeansNone
