SPECIFICATION MCFairSpec
CONSTANTS
    Calls = {c1, c2}
    Sessions = {s1, s2}
    Devices = {"pointer", "keyboard"}
    MaxKeys = 2
    MaxStrokes = 2
    Faults = {"revoke"}
    None = None
    Local = Local
    Parts = {"input"}
    Absent = Absent
    Hosts <- AllHosts
    Desktops <- ByDesk
    Places <- SomePlaces
    Requests <- SomeRequests
    MaxMoves = 1
    MaxPictures = 1
    MaxCalls = 2
    KwinWindows <- ThreeWindows
    ProcessOf <- TwoProcesses
    Placements <- SomePlacements
    Offsets <- OneOffset
PROPERTIES
    ImplementsExclusiveInput
    QueuedCallsProceed
    PressedComesUp
