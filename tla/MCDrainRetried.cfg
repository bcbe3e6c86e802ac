\* Executed again after a timeout, it does not.
CONSTANTS
    p1 = p1
    p2 = p2
    Names = {p1, p2}
    MaxUids = 2
    MaxAttempts = 2
    MaxMeddling = 0
SYMMETRY Symmetry
SPECIFICATION Spec
CHECK_DEADLOCK FALSE
INVARIANT DrainWaits
