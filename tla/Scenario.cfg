\* The configuration the test reads: up to three migrations, five offloads.
CONSTANTS
    a1 = a1  a2 = a2  b1 = b1  b2 = b2  b3 = b3  k1 = k1  k2 = k2  d1 = d1
    A = A  B = B  C = C  D = D
    n1 = n1  n2 = n2  n3 = n3  c1 = c1  cpu = cpu  mem = mem
    Nil = Nil
    Pod = {a1, a2, b1, b2, b3, k1, k2, d1}
    Deployment = {A, B, C, D}
    EdgeNode = {n1, n2, n3}
    CloudNode = {c1}
    Resource = {cpu, mem}
    DeploymentOf <- MCDeploymentOf
    Nodes <- MCNodes
    Resources <- MCResources
    ResourcesRequired <- MCRequired
    EdgeShare <- MCEdgeShare
    Unit = 240
    MaxCopies = 1
    MaxRunning = 8
    MaximumCloudOffload = 5
    MaximumMigrations = 3
    Script <- MCScript
    Rounds = 0
SPECIFICATION Spec
INVARIANT ScenarioIsAsExpected
CHECK_DEADLOCK FALSE
