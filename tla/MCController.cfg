SPECIFICATION Spec
CONSTANTS
    Watchers = {w1, w2}
    Worker = Worker
    Initializer = Initializer
    Resolver = Resolver
    None = None
    w1 = w1
    w2 = w2
    a1 = a1
    a2 = a2
    Kind = "deployments"
    IPs = {a1}
    Targets = {"starting", "ready"}
    Lagging = {"resolver", "slice", "private"}
    MaxBirths = 2
    MaxDeletes = 2
    MaxFailures = 1
    MaxRestarts = 1
INVARIANTS TypeOK Forgotten WatchedOnceReconciled
CHECK_DEADLOCK FALSE
