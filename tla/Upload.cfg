\* Two handlers, a body longer than the offset's range.
CONSTANTS
    Handlers = {h1, h2}
    None = None
    MaxBody = 5
    BufSize = 3
    Chunk = 2
    IntLimit = 4
SPECIFICATION UploadFairSpec
INVARIANTS
    UploadWhole
    PartsInPlace
PROPERTIES
    HandlersEnd
    UploadArrives
CHECK_DEADLOCK FALSE
