CONSTANTS
    Cleaner = Cleaner
    None = None
    Hosts = {h1}
    Requests = {r1, r2}
    Sites = {s1, s2}
    Bags = {b1, b2}
    Clients = {c1, c2}
    ReinitIdle = 0
    ResolveTTL = 0
    BagIdle = 1
    MaxTime = 2
SPECIFICATION Spec
SYMMETRY Symmetry
INVARIANTS
    TableIInv
    TableBagRuns
    TableClientAlive
PROPERTY HandedBagSurvives
CHECK_DEADLOCK FALSE
