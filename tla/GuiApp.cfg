\* Two starts of the application, with and without tunnel, on each system.
CONSTANTS
    Starts = {s1, s2}
    Window = Window
    Shutdown = Shutdown
    None = None
    Calls <- MCCalls
    Contexts = {s1, s2, None}
    Channels = {"statusUpd"}
SPECIFICATION Spec
SYMMETRY Symmetry
CONSTRAINT Bounds
INVARIANTS
    IInv
    SystemProxyFollows
    ButtonComesBack
    GracefulStop
CHECK_DEADLOCK FALSE
