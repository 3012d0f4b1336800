\* Two producers and two consumers race; safety, refinement and liveness.
CONSTANTS
    NoProc = NoProc
    Writers = {w1, w2}
    Readers = {r1, r2}
    MaxBytes = 3
    MaxWrite = 2
    MaxRead = 2
SPECIFICATION FairSpec
INVARIANTS
    NoSendOnClosed
    IInv
PROPERTIES
    ImplementsPipe
    NobodyBlocked
CHECK_DEADLOCK FALSE
