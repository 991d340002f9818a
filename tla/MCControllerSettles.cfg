SPECIFICATION FairSpec
CONSTANTS
    Watchers = {w1}
    Worker = Worker
    Initializer = Initializer
    Resolver = Resolver
    None = None
    w1 = w1
    w2 = w2
    a1 = a1
    a2 = a2
    Kind = "rollout"
    IPs = {a1, a2}
    Targets = {"starting", "healthy"}
    Lagging = {"slice"}
    MaxBirths = 1
    MaxDeletes = 0
    MaxFailures = 0
    MaxRestarts = 0
PROPERTIES ReadyEventuallyServed ZeroEventuallyProxied
