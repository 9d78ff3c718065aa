SPECIFICATION Spec
CONSTANTS
    Subjects = {"s"}
    Types = {"preference", "project_fact"}
    PrimeTypes = {"preference"}
    RecencyLimit = 1
    MaxRow = 2
    Gate = TRUE
    Turns = {t1}
    Requests = {r1, r2}
INVARIANTS
    TypeOK
    MemoryMdCurrent
    OneActive
    RecencyCurrent
PROPERTIES
    SupersededReplaced
    Lifecycle
SYMMETRY Symmetry
