SPECIFICATION FairSpec
CONSTANTS
    summary = summary
    variant = variant
    t1 = t1
    Queues = {summary, variant}
    Tokens = {t1}
    MaxPending = 1
INVARIANTS
    DemandIsServed
    IdleHasTimer
    QuietAfterStop
PROPERTIES
    NothingStartsAfterStop
    SleepsWhenIdle
    PausedDemandRuns
\* A process that has shut down has nothing left to do.
CHECK_DEADLOCK FALSE
