\* The agent as it runs loses an exit code: updates of two managers overlap.
CONSTANTS
    r1 = r1
    r2 = r2
    d1 = d1
    d2 = d2
    Runtimes = {r1, r2}
    Defs = {d1, d2}
    MaxTasks = 3
    MaxSpawns = 2
    MaxFaults = 1
SYMMETRY Symmetry
SPECIFICATION Spec
CHECK_DEADLOCK FALSE
INVARIANT ExitRecorded
