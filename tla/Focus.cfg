SPECIFICATION FairSpec
CONSTANTS
    c1 = c1
    c2 = c2
    w1 = w1
    w2 = w2
    None = None
    Callers = {c1}
    MaxScripts = 5
    Windows = {w1, w2}
    OtherWindows = {w1}
    MaxQueries = 2
    Target <- ByIdAndApp
    App <- OneApp
    Faults = {"partial", "drop", "restart", "switch", "close"}
CHECK_DEADLOCK FALSE
INVARIANTS
    NothingLeft
    FocusAnswerIsTrue
PROPERTY
    CallEnds
