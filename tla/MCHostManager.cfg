SPECIFICATION FairSpec
CONSTANTS
    Requests = {r1, r2, r3}
    Hosts = {h1}
    Prompt = TRUE
    None = None
INVARIANTS TypeOK DisabledIsTimed
PROPERTIES TrafficComesBack
CHECK_DEADLOCK FALSE
