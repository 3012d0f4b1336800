CONSTANTS
    MaxBody = 6
    MaxPart = 3
    CopySize = 2
SPECIFICATION DownloadFairSpec
INVARIANTS
    BodyVerdict
    DownloadIInv
PROPERTIES
    LeavingEnds
    ResponseEnds
CHECK_DEADLOCK FALSE
