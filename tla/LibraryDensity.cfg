SPECIFICATION Spec
CONSTANTS
    owner = "owner"
    Focus = 2
    Queries = {"all", "unread"}
    Users = {"owner", "guest"}
    MaxGeneration = 2
    MaxRow = 4
    PageSize = 2
    Bounds <- OneReader
INVARIANTS
    ChosenDensityAppears
CHECK_DEADLOCK FALSE
