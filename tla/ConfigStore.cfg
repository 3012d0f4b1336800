CONSTANTS
    Savers = {p1, p2}
    Main = Main
    Paths = {f}
    NoPath = NoPath
    MaxSections = 1
    MaxFresh = 5
SPECIFICATION Spec
INVARIANTS
    IInv
    WalletKept
    FileCurrent
CHECK_DEADLOCK FALSE
