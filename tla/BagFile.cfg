\* Every file of up to three pieces of three bytes, every Range header.
CONSTANTS
    PieceSize = 3
    MaxPiece = 2
    MaxBound = 9
    Absent = Absent
    Files <- MCFiles
    Ranges <- MCRanges
SPECIFICATION Spec
INVARIANTS
    SlicesInRange
    ServesRange
    IInv
CHECK_DEADLOCK FALSE
