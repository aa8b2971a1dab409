SPECIFICATION FairSpec
CONSTANTS
    a1 = a1
    c1 = c1
    w1 = w1
    w2 = w2
    Articles = {a1}
    Callers = {c1}
    Workers = {w1}
    MaxSource = 2
    MaxRevision = 2
    MaxFaults = 1
PROPERTIES
    ClassifiedEventually
\* A removed article has no future.
CHECK_DEADLOCK FALSE
