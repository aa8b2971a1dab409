SPECIFICATION Spec
CONSTANTS
    w1 = w1
    w2 = w2
    NoKey = NoKey
    Densities = {detailed}
    Workers = {w1, w2}
    Keys = {}
    MaxAttempts = 1
    MaxGeneration = 2
    MaxSource = 2
    MaxFaults = 0
PROPERTIES
    OldWorkerCannotOverwrite
