\* One disruption and one recovery, on top of moves and migrations.
CONSTANTS
    p1 = p1  p2 = p2  p3 = p3  d1 = d1  n1 = n1  c1 = c1  x1 = x1  cpu = cpu
    Nil = Nil
    Pod = {p1, p2, p3}
    Deployment = {d1}
    EdgeNode = {n1}
    CloudNode = {c1}
    CloudHead = c1
    ForeignNode = {x1}
    Resource = {cpu}
    DeploymentOf <- MCDeploymentOf
    Resources <- MCResources
    ResourcesRequired <- MCRequired
    Replicas <- MCReplicas
    InitialPods <- MCInitialPods
    MaxCopies = 4
    MaxRunning = 4
    MaxWatch = 2
    MaxDisruptions = 1
    MaxFaults = 0
    BatchSize = 1
    MaximumCloudOffload = 1
    MaximumMigrations = 2
    MaxRecoveries = 1
    LimitRecoveries = TRUE
    MaxCrashes = 0
SPECIFICATION Spec
INVARIANTS
    TypeOK
    MovesAreWhole
PROPERTIES
    DeletesToMove
