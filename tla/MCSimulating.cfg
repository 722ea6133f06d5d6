\* Three frames of up to four new pods and two deletions, each followed by two
\* suggestions of up to two migrations.  The simulator ends.
CONSTANTS
    a1 = a1  a2 = a2  b1 = b1  b2 = b2  d1 = d1  A = A  B = B  D = D
    n1 = n1  n2 = n2  c1 = c1  cpu = cpu  mem = mem
    Nil = Nil
    Pod = {a1, a2, b1, b2, d1}
    Deployment = {A, B, D}
    EdgeNode = {n1, n2}
    CloudNode = {c1}
    Resource = {cpu, mem}
    DeploymentOf <- MCDeploymentOf
    Nodes <- MCNodes
    Resources <- MCResources
    ResourcesRequired <- MCRequired
    EdgeShare <- MCEdgeShare
    Unit = 80
    MaxCopies = 1
    MaxRunning = 5
    MaximumCloudOffload = 5
    MaximumMigrations = 2
    Script <- MCScript
    Rounds = 2
SPECIFICATION Spec
SYMMETRY Symmetry
INVARIANTS
    NeverPanics
    EveryOrderOnce
    TheTableIsOptimal
    MappingsAreCovered
    DecisionsAreCovered
    SuggestionsAreCovered
PROPERTIES
    NoPodIsForgotten
CHECK_DEADLOCK FALSE
