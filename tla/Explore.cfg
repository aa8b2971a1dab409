SPECIFICATION FairSpec
CONSTANTS
    Topic = topic
    Categories = {topic}
    Articles <- MCArticles
    First <- MCFirst
    FirstPhase <- MCFirstPhase
    PageSize = 2
    MaxRevision = 2
    Bounds <- MCBounds
INVARIANTS
    PageIsWhole
    EditorIsSafe
PROPERTIES
    LooksAgain
CHECK_DEADLOCK FALSE
