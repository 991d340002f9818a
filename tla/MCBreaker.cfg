SPECIFICATION FairSpec
CONSTANTS
    g1 = g1
    g2 = g2
    g3 = g3
    Goroutines = {g1, g2, g3}
    MaxCapacity = 1
    InitialCapacity = 2
    QueueDepth = 2
INVARIANTS TypeOK SlotsNeverUndercounted NoLostWakeup WakeupsSuffice PermitsCounted ReleasePaired
PROPERTIES UsesSemaphore NoStuckWaiter ImplementsLimiter ImplementsGate
