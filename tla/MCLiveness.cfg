\* The health check never stops; one fault in an API call, one crash.
CONSTANTS
    p1 = p1  d1 = d1  n1 = n1  c1 = c1  c2 = c2  cpu = cpu
    Nil = Nil
    Pod = {p1}
    Deployment = {d1}
    EdgeNode = {n1}
    CloudNode = {c1, c2}
    CloudHead = c1
    ForeignNode = {}
    Resource = {cpu}
    DeploymentOf <- MCDeploymentOf
    Resources <- MCResources
    ResourcesRequired <- MCRequired
    Replicas <- MCReplicas
    InitialPods <- MCInitialPods
    MaxCopies = 4
    MaxRunning = 2
    MaxWatch = 3
    MaxDisruptions = 0
    MaxFaults = 1
    BatchSize = 2
    MaximumCloudOffload = 5
    MaximumMigrations = 0
    MaxRecoveries = 0
    LimitRecoveries = FALSE
    MaxCrashes = 1
SPECIFICATION FairSpec
PROPERTIES
    PlansEnd
    PendingIsBound
