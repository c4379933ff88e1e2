SPECIFICATION RouteFairSpec
CONSTANTS
    w1 = w1
    w2 = w2
    NoWindow = NoWindow
    Windows = {w1, w2}
    Field <- FieldOf
    Hosts <- SomeHosts
    Requests <- PointClicks
    ScreenshotPrompts = TRUE
    MaxCalls = 2
    MaxMoves = 2
CHECK_DEADLOCK FALSE
INVARIANT
    ReachesAim
