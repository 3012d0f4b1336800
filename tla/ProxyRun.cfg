CONSTANTS
    DnsTries = 2
    MaxEvents = 3
SPECIFICATION FairSpec
INVARIANTS
    IInv
    NeededIsOpen
    NothingLeft
PROPERTIES
    StopReturns
    ImplementsRun
CHECK_DEADLOCK FALSE
