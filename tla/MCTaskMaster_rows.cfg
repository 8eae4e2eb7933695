\* Two tasks whose timers and reloads interleave; the database works.
SPECIFICATION Spec
CONSTANTS
    TaskIds = {t1, t2}
    Titles = {milk}
    Days = {mon, tue}
    Nil = Nil
    SaveMayFail = FALSE
    FetchMayFail = FALSE
    MaxDeferred = 2
INVARIANTS RowsMatch ListExact
PROPERTIES ImplementsTaskBook
