SPECIFICATION TreesSpec
CONSTANTS
    Observers = {c1}
    Actors = {c2}
    Objects = {o1, o2, o3}
    Windows = {w1, w3}
    Names = {button}
    Indices = {1}
    Identifiers = {o3}
    Mortal = {o1}
    o1 = o1
    o2 = o2
    o3 = o3
    w1 = w1
    w2 = w2
    w3 = w3
    p1 = p1
    p2 = p2
    button = button
    WindowOf <- RestartWindowOf
    PidOf <- RestartPidOf
    NameOf <- MCNameOf
    Useful = {o1, o2}
    Showing = {o1, o2, o3}
    Reported = {w1}
    None = None
    TreeParts = {"cache"}
    r1 = r1
    r2 = r2
    f1 = f1
    f2 = f2
    b1 = b1
    d1 = d1
    e1 = e1
    e2 = e2
    Registry = Registry
    Elements = {r1, r2, f1, f2, b1, d1, e1, e2}
    Shapes <- TwoShapes
    Frames = {f1, f2}
    Rules <- ByTitle
    AllWindows = {f1, f2, b1}
    Containers = {d1, f1}
    Chrome = {r1, r2, f1, f2}
    Owner <- OwnerOfRoot
    Named = {r2}
    Jobs <- SomeJobs
    MaxEdits = 1
    MaxFaults = 1
    Forests <- FiveNodes
    Budgets = {2, 4}
    SizeOf <- CopyIsLarge
    NoParent = NoParent
    Nil = Nil
    Null = Null
    ta = ta
    tX = tX
    Texts <- ShortTexts
    Scalars = {ta, tX}
    KeptOf <- AllButFirst
    Half = Half
    ActionLists <- TwoLists
    Chunk = 2
    MaxRetries = 1
    MaxAppSteps = 2
INVARIANT
    RetryInTarget
