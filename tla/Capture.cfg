SPECIFICATION FairSpec
CONSTANTS
    c1 = c1
    c2 = c2
    c3 = c3
    s1 = s1
    s2 = s2
    None = None
    Captures = {c1, c2, c3}
    Servers = {s1, s2}
    Server <- ByServer
    MaxActions = 2
    MaxQueue = 2
    Faults = {"slow", "cancel", "kill", "exit", "crash"}
CHECK_DEADLOCK FALSE
INVARIANTS
    NoOverlayInCapture
PROPERTY
    NeitherIsStuck
