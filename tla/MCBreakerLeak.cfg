SPECIFICATION Spec
CONSTANTS
    g1 = g1
    g2 = g2
    g3 = g3
    Goroutines = {g1, g2, g3}
    MaxCapacity = 1
    InitialCapacity = 1
    QueueDepth = 2
SYMMETRY Symmetry
INVARIANT FullMeansFull
