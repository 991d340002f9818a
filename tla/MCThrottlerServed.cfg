SPECIFICATION FairSpec
CONSTANTS
    r1 = r1
    r2 = r2
    r3 = r3
    s1 = s1
    s2 = s2
    g1 = g1
    g2 = g2
    n1 = n1
    Requests = {r1,r2}
    Services = {s1}
    Names = {n1}
    NameOf <- OneName
    Senders = {g1, g2}
    Permits = 1
    Slots = 2
    MaxDowns = 1
PROPERTIES HeldUntilServed OutageNoticed
CHECK_DEADLOCK FALSE
