\* The agent as it runs: a manager, and a mutex, for every task.
CONSTANTS
    r1 = r1
    r2 = r2
    d1 = d1
    d2 = d2
    Runtimes = {r1, r2}
    Defs = {d1, d2}
    MaxTasks = 4
    MaxSpawns = 2
    MaxFaults = 1
SYMMETRY Symmetry
SPECIFICATION Spec
CHECK_DEADLOCK FALSE
INVARIANTS
    TypeOK
    LiveIsRecordedUnlessClobbered
    ExitRecordedUnlessClobbered
    StartableUnlessClobbered
