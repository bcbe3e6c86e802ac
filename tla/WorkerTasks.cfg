\* Three starts or execs, logs and buffers of two bytes, tails of two, one fault; files and
\* directories of two names in three levels, three at first, two errors or deaths.
CONSTANTS
    Limit = 2
    TailSize = 2
    MaxChunk = 2
    MaxSpawns = 3
    MaxFaults = 1
    Names = {"a", "b"}
    MaxDepth = 3
    MaxEntries = 3
    MaxDisturbances = 2
SPECIFICATION TasksSpec
CHECK_DEADLOCK FALSE
INVARIANTS
    TypeOK
    OvershootIsShared
    DiagnosticIsOwn
    CutIsHarmless
    FilesystemIsFaithful
PROPERTIES
    TasksEnd
