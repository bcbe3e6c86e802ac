\* Three lists, statuses from two of them; a TTL of three ticks, a retry after two, time
\* for two refreshes that are due, two failed requests.  Pods of two containers, two of
\* them; clusters of three objects of each kind and lists of two; mount tables of four.
CONSTANTS
    deployments = deployments
    pods = pods
    nodes = nodes
    Resources = {deployments, pods, nodes}
    StatusResources = {deployments, pods}
    TTL = 3
    RetryTTL = 2
    MaxTime = 7
    MaxFaults = 2
    r1 = r1
    r2 = r2
    RuntimeIds = {r1, r2}
    MaxItems = 2
    MaxStatuses = 1
    MaxReplicas = 2
    MaxPods = 2
    MaxContainers = 2
    MaxObjects = 3
    sda = sda
    sdb = sdb
    proc = proc
    Devices = {sda, sdb, proc}
    VirtualDevices = {proc}
    Points = {0, 1, 2, 3}
    Unreachable = {3}
    MaxCandidates = 3
    MaxMounts = 2
    MaxEntries = 4
SPECIFICATION HeartbeatSpec
CHECK_DEADLOCK FALSE
INVARIANTS
    TypeOK
    UnmarkedIsRecent
    StatusesAgree
    PathsAgreeUnlessTruncated
    DevicesCountedOnce
PROPERTIES
    RefreshesAreSpaced
    StatusesGoForward
