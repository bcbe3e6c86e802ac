\* Two tasks that compete for a one-entry cache: safety, refinement, liveness (hence
\* no symmetry).
CONSTANTS
    t1 = t1
    t2 = t2
    Tasks = {t1, t2}
    NoTask = NoTask
    CacheLimit = 1
    MaxFaults = 3
SPECIFICATION FairSpec
INVARIANTS
    TypeOK
    SuccessRecordedOnce
    SuccessNeverReportedFailed
    RetryableReportIsFresh
PROPERTIES
    ImplementsLedger
    EveryTaskSettles
