SPECIFICATION FairSpec
CONSTANTS
    d1 = d1
    d2 = d2
    hi = hi
    ho = ho
    Docs <- MCDocs
    Contents <- MCContents
    Missing = Missing
    Hasty = FALSE
    MaxVersions = 2
    MaxListens = 2
    MaxFaults = 1
INVARIANTS TypeOK AssertionsHold ViewIsLocal SyncedIsExact
PROPERTIES ChangesArrive FirstEventComes
CHECK_DEADLOCK FALSE
