\* Two pods of every kind, retries, StatefulSets and a meddler.
CONSTANTS
    p1 = p1
    p2 = p2
    Names = {p1, p2}
    MaxUids = 2
    MaxAttempts = 2
    MaxMeddling = 1
SYMMETRY Symmetry
SPECIFICATION Spec
CHECK_DEADLOCK FALSE
INVARIANTS
    TypeOK
    ResultIsTrue
    EvictsTheNode
