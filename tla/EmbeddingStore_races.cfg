SPECIFICATION Spec
CONSTANTS
    Stores = {"corpus"}
    Models = {A, B}
    Texts = {t1, t2}
    MaxRow = 2
    Writers = {w1}
    Requests = {q1}
    AbortAfter = 2
    QuiescentSwitch = FALSE
    CleanReembed = FALSE
    NoModel = NoModel
    NoText = NoText
SYMMETRY Symmetry
INVARIANTS
    TypeOK
    VectorsCurrent
