\* README.md:13, "it will migrate pods between edge nodes", refuted.
CONSTANTS
    l1 = l1  l2 = l2  s1 = s1  s2 = s2
    small = small  large = large  n1 = n1  c1 = c1  cpu = cpu
    Nil = Nil
    Pod = {l1, l2, s1, s2}
    Deployment = {small, large}
    EdgeNode = {n1}
    CloudNode = {c1}
    CloudHead = c1
    ForeignNode = {}
    Resource = {cpu}
    DeploymentOf <- MCDeploymentOf
    Resources <- MCResources
    ResourcesRequired <- MCRequired
    Replicas <- MCReplicas
    InitialPods <- MCInitialPods
    MaxCopies = 2
    MaxRunning = 4
    MaxWatch = 4
    MaxDisruptions = 0
    MaxFaults = 0
    BatchSize = 5
    MaximumCloudOffload = 5
    MaximumMigrations = 1
    MaxRecoveries = 0
    LimitRecoveries = TRUE
    MaxCrashes = 0
SPECIFICATION Spec
INVARIANT MovesGoElsewhere
