\* Every plan of up to two actions, in every configuration.
CONSTANTS
    MaxActions = 2
    MaxFaults = 2
SPECIFICATION FairSpec
INVARIANTS
    TypeOK
    RepeatsArePaidFor
    ReportedWasAnnounced
    SilentEffectsArePaidFor
    ResultsAreCarried
PROPERTY PlanCompletes
