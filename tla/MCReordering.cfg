\* Moves from the cloud to the edge, no failures.
CONSTANTS
    p1 = p1  p2 = p2  p3 = p3  p4 = p4  p5 = p5
    d1 = d1  n1 = n1  c1 = c1  cpu = cpu  Capacity = 2  Scale = 3
    Nil = Nil
    Pod = {p1, p2, p3, p4, p5}
    Deployment = {d1}
    EdgeNode = {n1}
    CloudNode = {c1}
    CloudHead = c1
    ForeignNode = {}
    Resource = {cpu}
    DeploymentOf <- MCDeploymentOf
    Resources <- MCResources
    ResourcesRequired <- MCRequired
    Replicas <- MCReplicas
    InitialPods <- MCInitialPods
    MaxCopies = 3
    MaxRunning = 4
    MaxWatch = 3
    MaxDisruptions = 0
    MaxFaults = 0
    BatchSize = 5
    MaximumCloudOffload = 5
    MaximumMigrations = 0
    MaxRecoveries = 0
    LimitRecoveries = TRUE
    MaxCrashes = 0
SPECIFICATION Spec
SYMMETRY Symmetry
INVARIANTS
    OneKindOfPlan
    MovesAreWhole
    NoGhost
    NeverOverbooked
PROPERTIES
    ImplementsProtocol
    DeletesToMove
