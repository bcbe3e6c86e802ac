\* Two tasks of any type, two changes by somebody else, one fault.
CONSTANTS
    deployment = deployment
    service = service
    claim = claim
    Deployments = {deployment}
    Services = {service}
    Secrets = {}
    Claims = {claim}
    Manifests <- MCManifests
    MaxTasks = 2
    MaxEdits = 2
    MaxFaults = 1
SPECIFICATION Spec
CHECK_DEADLOCK FALSE
INVARIANTS
    TypeOK
    SuccessMeansDone
PROPERTIES
    EditsAreSeen
    OthersAreSpared
