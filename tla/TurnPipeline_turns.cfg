SPECIFICATION Spec
CONSTANTS
    Stems = {"page"}
    Pages = {"draft"}
    NoPlan = NoPlan
    NoText = "none"
    Scenarios <- MCScenarios
    Requests <- MCRequests
    Configs <- MCConfigs
    MaxTurns <- MCMaxTurns
    MaxEdits <- MCMaxEdits
    DefaultName = "Localist"
    Names = {"Localist", "Ada"}
    Uploads <- MCUploads
    Corpora <- MCCorpora
    Recalls <- MCRecalls
    Histories <- MCHistories
    Tasks <- MCTasks
    MaxResearch = 2
    MaxVersions = 2
    MaxSidecar = 1
    FileEach = 4000
    FileTotal = 8000
    FileLabel = 40
    RagCeiling = 800
    SourceHeader = 40
    EpisodeCeiling = 150
    StateCeiling = 100
    WorkingDefault = 300
    CutMark = 14
    Window = 20768
    Headroom = 15000
    CloudTokens = 60000
    OutputTokens = 1024
    FixedTokens = 775
    GraphTokens = 304
    NeighborTokens = 125
    ToolTokens = 1504
    FailureTokens = 154
CHECK_DEADLOCK FALSE
INVARIANTS
    TypeOK
    FilesAndUrlsHonoured
    PersonaNamed
    PromptFits
    AppendedOnce
    NeverEmpty
    LoggedOnce
PROPERTIES
    FailedSearchGrounded
    TurnEnds
