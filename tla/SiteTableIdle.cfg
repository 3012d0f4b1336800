CONSTANTS
    Cleaner = Cleaner
    None = None
    Hosts = {h1}
    Requests = {r1}
    Sites = {s1}
    Bags = {b1, b2}
    Clients = {}
    ReinitIdle = 0
    ResolveTTL = 0
    BagIdle = 1
    MaxTime = 3
SPECIFICATION FairSpec
PROPERTY IdleBagStops
CHECK_DEADLOCK FALSE
