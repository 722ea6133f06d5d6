\* One crash, one recovery and one fault in an API call.
CONSTANTS
    p1 = p1  p2 = p2  d1 = d1  n1 = n1  c1 = c1  cpu = cpu  Capacity = 1
    Nil = Nil
    Pod = {p1, p2}
    Deployment = {d1}
    EdgeNode = {n1}
    CloudNode = {c1}
    CloudHead = c1
    ForeignNode = {}
    Resource = {cpu}
    DeploymentOf <- MCDeploymentOf
    Resources <- MCResources
    ResourcesRequired <- MCRequired
    Replicas <- MCReplicas
    InitialPods <- MCInitialPods
    MaxCopies = 4
    MaxRunning = 2
    MaxWatch = 3
    MaxDisruptions = 0
    MaxFaults = 1
    BatchSize = 2
    MaximumCloudOffload = 5
    MaximumMigrations = 0
    MaxRecoveries = 1
    LimitRecoveries = TRUE
    MaxCrashes = 1
SPECIFICATION Spec
SYMMETRY Symmetry
INVARIANTS
    NoOvercommit
    NoLostPod
PROPERTIES
    ImplementsProtocol
