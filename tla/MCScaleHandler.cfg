SPECIFICATION FairSpec
CONSTANTS
    s1 = s1
    h1 = h1
    Watcher = Watcher
    None = None
    Services = {s1}
    Handlers = {h1}
    Autoscalers = {"none", "hpa", "keda"}
    MinTargetReplicas = 1
    MaxReplicas = 2
    Cooldown = 2
    TriggerLists <- SomeTriggers
    MaxRestarts = 1
INVARIANTS TypeOK FreshRead UpJobRaises CooldownSinceList
PROPERTIES DownOnlyWhenAllIdle UpOnlyOnAnswer LoadEventuallyUp IdleEventuallyZero
