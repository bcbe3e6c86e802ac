\* The nodePort changes between the two reads of an apply.
CONSTANTS
    deployment = deployment
    service = service
    claim = claim
    Deployments = {deployment}
    Services = {service}
    Secrets = {}
    Claims = {claim}
    Manifests <- MCManifests
    MaxTasks = 1
    MaxEdits = 2
    MaxFaults = 0
SPECIFICATION Spec
CHECK_DEADLOCK FALSE
PROPERTY PortsStand
