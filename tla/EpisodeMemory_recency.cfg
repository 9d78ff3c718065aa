SPECIFICATION Spec
CONSTANTS
    Subjects = {"s"}
    Types = {"preference", "project_fact"}
    PrimeTypes = {"preference"}
    RecencyLimit = 1
    MaxRow = 3
    Gate = TRUE
    Turns = {t1}
    Requests = {r1}
INVARIANTS
    RecencyNeverStale
