SPECIFICATION TextSpec
CONSTANTS
    e1 = e1
    e2 = e2
    e3 = e3
    d1 = d1
    d2 = d2
    None = None
    Events = {e1, e2, e3}
    Devices = {d1, d2}
    Reach <- TwoReach
    Needed <- TwoNeeded
    MaxChanges = 5
    p1 = p1
    p2 = p2
    p3 = p3
    Pastes = {p1, p2, p3}
    ServerOf <- TwoServers
    MaxCopies = 1
    Faults = {"timeout", "refused", "chord", "copy", "exit"}
    NoText = NoText
CHECK_DEADLOCK FALSE
INVARIANTS
    AnswersAreTrue
PROPERTIES
    EmittedTakesEffect
    ImplementsEventChannel
    AbandonedWorkerEnds
    PastesAndRestores
