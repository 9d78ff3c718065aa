SPECIFICATION Spec
CONSTANTS
    omlx = omlx
    ollama = ollama
    c1 = c1
    c2 = c2
    e1 = e1
    e2 = e2
    NoModel = NoModel
    Backends = {omlx, ollama}
    ChatModels = {c1, c2}
    EmbModels = {e1, e2}
    Default <- MCDefault
    Listings <- MCListings
    Configs <- MCChosen
    Threads = {r1, r2}
    MaxRequests = 2
INVARIANTS
    NameOfFn
