SPECIFICATION Spec
CONSTANTS
    owner = "owner"
    Focus = 2
    Queries = {"all", "unread"}
    Users = {"owner", "guest"}
    MaxGeneration = 2
    MaxRow = 4
    PageSize = 2
    Bounds <- AllUses
INVARIANTS
    TypeOK
    ReadFlagSettles
    DocumentSettles
    SessionsDoNotMix
    ArchiveIsContiguous
PROPERTIES
    CacheMovesForward
CHECK_DEADLOCK FALSE
