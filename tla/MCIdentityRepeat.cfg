\* One command, repeated once, one fault.
CONSTANTS
    r1 = r1
    r2 = r2
    Registrars = {r1}
    MaxRuns = 2
    MaxFaults = 1
SPECIFICATION Spec
CHECK_DEADLOCK FALSE
PROPERTY RepeatSucceeds
