SPECIFICATION Spec
CONSTANTS
    d1 = d1
    d2 = d2
    hi = hi
    ho = ho
    Docs <- MCDocs
    Contents <- MCContents
    Missing = Missing
    Hasty = FALSE
    MaxVersions = 2
    MaxListens = 2
    MaxFaults = 1
INVARIANTS NotFromCache
CHECK_DEADLOCK FALSE
