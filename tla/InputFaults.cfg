SPECIFICATION MCSpec
CONSTANTS
    Calls = {c1, c2, c3}
    Sessions = {s1, s2, s3}
    Devices = {"pointer", "keyboard"}
    MaxKeys = 2
    MaxStrokes = 2
    Faults = {"release", "close", "command", "revoke"}
    None = None
    Local = Local
    Parts = {"input", "points"}
    Absent = Absent
    Hosts <- AllHosts
    Desktops <- ByDesk
    Places <- SomePlaces
    Requests <- SomeRequests
    MaxMoves = 1
    MaxPictures = 1
    MaxCalls = 2
    KwinWindows <- ThreeWindows
    ProcessOf <- TwoProcesses
    Placements <- SomePlacements
    Offsets <- OneOffset
SYMMETRY Symmetry
INVARIANTS
    InputIsSound
    PointsAreMeant
    ElementIsHit
