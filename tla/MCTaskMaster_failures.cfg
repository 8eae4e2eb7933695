\* One task, every save and every fetch may throw, and timers run out.
SPECIFICATION FairSpec
CONSTANTS
    TaskIds = {t1}
    Titles = {milk}
    Days = {mon, tue}
    Nil = Nil
    SaveMayFail = TRUE
    FetchMayFail = TRUE
    MaxDeferred = 2
INVARIANTS TypeOK Durable CalendarSound
PROPERTIES NoResurrection CheckedRowsLeave
