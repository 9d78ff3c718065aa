SPECIFICATION Spec
CONSTANTS
    Pages <- MCPages
    Blocks <- MCBlocks
    Link <- MCLink
    Initial <- MCInitial
    NoPage <- MCNoPage
    NoBlock = NoBlock
    HandTexts <- HandMade
    Diffs <- Turns
    Scopes <- Linking
    Threads = {"t1", "t2"}
    Queries = {"q"}
    Episodes = {"e"}
PROPERTIES
    EpisodeLinksKept
