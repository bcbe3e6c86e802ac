\* Two commands at once, four in all, two faults.
CONSTANTS
    r1 = r1
    r2 = r2
    Registrars = {r1, r2}
    MaxRuns = 4
    MaxFaults = 2
SPECIFICATION Spec
SYMMETRY Symmetry
CHECK_DEADLOCK FALSE
INVARIANTS
    TypeOK
    IdentityIsStable
    RunsAsRegistered
PROPERTY OnlyAnEmptyFileStops
