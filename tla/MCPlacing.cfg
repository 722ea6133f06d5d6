\* Scale-up from nothing, no failures.
CONSTANTS
    p1 = p1  p2 = p2  p3 = p3  small = small  large = large
    n1 = n1  n2 = n2  c1 = c1  cpu = cpu  mem = mem
    Nil = Nil
    Pod = {p1, p2, p3}
    Deployment = {small, large}
    EdgeNode = {n1, n2}
    CloudNode = {c1}
    CloudHead = c1
    ForeignNode = {}
    Resource = {cpu, mem}
    DeploymentOf <- MCDeploymentOf
    Resources <- MCResources
    ResourcesRequired <- MCRequired
    Replicas <- MCReplicas
    InitialPods <- MCInitialPods
    MaxCopies = 3
    MaxRunning = 4
    MaxWatch = 3
    MaxDisruptions = 0
    MaxFaults = 0
    BatchSize = 3
    MaximumCloudOffload = 5
    MaximumMigrations = 0
    MaxRecoveries = 0
    LimitRecoveries = TRUE
    MaxCrashes = 0
SPECIFICATION Spec
SYMMETRY Symmetry
INVARIANTS
    NoOvercommit
    Accounting
    NoLostPod
    NoGhost
    PlannedIsUnbound
    CalmInv
