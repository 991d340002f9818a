SPECIFICATION Spec
CONSTANTS
    c1 = c1
    c2 = c2
    t1 = t1
    t2 = t2
    Services = {c1, c2}
    Targets = {t1, t2}
    First <- AllFirst
    Matches <- Prefixes
    Informers = {1, 2, 3, 4}
    None = None
    MaxDeletes = 1
    MaxChanges = 1
INVARIANTS AlwaysStarted
