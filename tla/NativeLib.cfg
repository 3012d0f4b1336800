\* Two starts that may overlap anywhere, with or without a configuration, and any number of stops.
CONSTANTS
    Calls = {s1, s2}
    Contexts = {s1, s2, None}
    Channels = {s1, s2}
    None = None
SPECIFICATION Spec
SYMMETRY Symmetry
CONSTRAINT Bounds
INVARIANTS
    IInv
    RunsAreStoppable
    OwnTransport
    FailureFrees
    AnswerArrives
CHECK_DEADLOCK FALSE
