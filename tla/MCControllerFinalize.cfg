SPECIFICATION ReconcileSpec
CONSTANTS
    Watchers = {w1}
    Worker = Worker
    Initializer = Initializer
    Resolver = Resolver
    None = None
    w1 = w1
    w2 = w2
    a1 = a1
    a2 = a2
    Kind = "deployments"
    IPs = {a1}
    Targets = {"zero"}
    Lagging = {"slice", "private"}
    MaxBirths = 1
    MaxDeletes = 1
    MaxFailures = 1
    MaxRestarts = 0
INVARIANTS ForwardPath
PROPERTIES DeletionCompletes
CHECK_DEADLOCK FALSE
