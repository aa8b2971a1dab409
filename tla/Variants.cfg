SPECIFICATION FairSpec
CONSTANTS
    w1 = w1
    w2 = w2
    NoKey = NoKey
    Densities = {detailed}
    Workers = {w1}
    Keys = {k1}
    MaxAttempts = 2
    MaxGeneration = 2
    MaxSource = 2
    MaxFaults = 1
INVARIANTS
    ShownFitsSource
    StateFitsTask
    OneTaskPerSource
    KeysAreUnique
PROPERTIES
    MarkdownOnlyFromOwner
    TasksEnd
