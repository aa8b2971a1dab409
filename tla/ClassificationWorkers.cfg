SPECIFICATION Spec
CONSTANTS
    a1 = a1
    c1 = c1
    w1 = w1
    w2 = w2
    Articles = {a1}
    Callers = {c1}
    Workers = {w1, w2}
    MaxSource = 2
    MaxRevision = 2
    MaxFaults = 1
INVARIANTS
    ContentFitsSource
    EditsWhatWasSeen
    OneOwner
PROPERTIES
    EditsSurvive
    OnlyWaitedIsRepeated
\* A removed article has no future.
CHECK_DEADLOCK FALSE
SYMMETRY Alike
