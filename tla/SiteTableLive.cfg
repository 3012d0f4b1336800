CONSTANTS
    Cleaner = Cleaner
    None = None
    Hosts = {h1}
    Requests = {r1, r2}
    Sites = {s1}
    Bags = {b1, b2}
    Clients = {c1}
    ReinitIdle = 0
    ResolveTTL = 0
    BagIdle = 0
    MaxTime = 1
SPECIFICATION FairSpec
PROPERTIES
    IdleTableBagLeaves
    LockServed
CHECK_DEADLOCK FALSE
