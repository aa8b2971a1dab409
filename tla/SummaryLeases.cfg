SPECIFICATION FreshSpec
CONSTANTS
    a1 = a1
    p1 = p1
    p2 = p2
    w1 = w1
    w2 = w2
    k1 = k1
    NoKey = NoKey
    Articles = {a1}
    Procs = {p1, p2}
    Workers = {w1, w2}
    Home <- TwoProcesses
    Keys = {k1}
    MaxAttempts = 2
    RetryLimit = 1
    MaxGeneration = 1
    MaxFaults = 1
SYMMETRY Swap
INVARIANTS
    ProcessingIsBacked
    LeaseIsExclusive
    StageMatchesStatus
    CheckpointIsUsed
    InterruptionCanBeRetried
