SPECIFICATION DesktopSpec
CONSTANTS
    c1 = c1
    c2 = c2
    Callers = {c1, c2}
    TTL = 2
    MaxClock = 3
    MaxVersion = 1
    MaxGeneration = 1
    None = None
    Absent = Absent
    Ancestries <- SomeAncestries
    MaxHydrations = 2
    MaxImports = 2
    SetUps = {s1}
    s1 = s1
    MaxSwitches = 3
    i1 = i1
    i2 = i2
    Installs = {i1, i2}
    OwnDirs = {"shell", "host"}
    MaxEvents = 2
    Machines <- OneMachine
    p1 = p1
    p2 = p2
    PiCalls = {p1, p2}
    MaxProcs = 3
    MaxClients = 2
    MaxEnds = 1
CHECK_DEADLOCK FALSE
INVARIANT
    ReloadIsReported
