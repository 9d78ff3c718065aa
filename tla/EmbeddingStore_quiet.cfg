SPECIFICATION Spec
CONSTANTS
    Stores = {"chat_turns", "episodes"}
    Models = {A, B}
    Texts = {t1}
    MaxRow = 2
    Writers = {w1}
    Requests = {q1}
    AbortAfter = 2
    QuiescentSwitch = TRUE
    CleanReembed = TRUE
    NoModel = NoModel
    NoText = NoText
SYMMETRY Symmetry
INVARIANTS
    ProvenanceHonest
    SearchSound
PROPERTIES
    NoVectorLost
    
