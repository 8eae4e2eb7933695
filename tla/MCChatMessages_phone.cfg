\* Three people, two messages; writes may be refused and listeners end.
SPECIFICATION Spec
CONSTANTS
    Me = me
    Others = {ann, bob}
    Nil = Nil
    MaxTime = 2
    MaxJobs = 4
    ServerMayFail = TRUE
SYMMETRY Symmetry
INVARIANTS TypeOK TablesExact
PROPERTIES NeverUnshown
