SPECIFICATION InputSpec
CONSTANTS
    NoWindow = NoWindow
    w1 = w1
    w2 = w2
    Windows = {w1, w2}
    Field <- FieldOf
    Hosts <- SomeHosts
    Requests <- SomeRequests
    ScreenshotPrompts = FALSE
    MaxCalls = 2
    MaxMoves = 1
    k1 = k1
    k2 = k2
    k3 = k3
    KeyPresses = {k1, k2, k3}
    Texts <- SomeTexts
    Unmapped = {k3}
    PressesPerBatch = 2
    r1 = r1
    r2 = r2
    Runs = {r1, r2}
    Blocking = {r2}
    MaxBusy = 1
    top1 = top1
    top2 = top2
    None = None
    Tops = {top1, top2}
    Labels <- FourLabels
    Pid <- TwoPids
    Cut <- CutTitles
    Hash <- CollidingHash
    Blank <- NoLabel
    MaxRoundtrips = 3
    MaxChanges = 3
    ses1 = ses1
    ses2 = ses2
    NoSession = NoSession
    Sessions = {ses1, ses2}
    Matching = {ses1, ses2}
    ContainerBase = 5
    MaxBorn = 3
    MaxSessions = 2
    cw1 = cw1
    cw2 = cw2
    out1 = out1
    out2 = out2
    Tasks <- ThreeTasks
    Offers <- SomeOffers
    Wins = {cw1, cw2}
    Outs = {out1, out2}
    Spots = {8}
    Layouts <- FourLayouts
    Origins <- TwoOrigins
    Begin <- OnFirst
    Roundtrips = 1
    MaxDesk = 2
    NoWin = NoWin
CHECK_DEADLOCK FALSE
INVARIANTS
    AnswersForItsRoute
    ReachesAim
    SecretStaysPrivate
    HyprAnswerIsTrue
    FocusesWhatWasListed
    HelperIsTrue
PROPERTIES
    NamedIsActivated
    RunEndsWhole
