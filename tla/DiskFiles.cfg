SPECIFICATION DiskSpec
CONSTANTS
    Starts = {s1, s2, s3}
    MaxIssued = 2
    Faults = {"lost", "store"}
    None = None
    a = a
    b = b
    pic = pic
    doc = doc
    i1 = i1
    i2 = i2
    NoFile = NoFile
    Captures = {a, b}
    Names = {pic, doc}
    Pictures = {pic}
    Inodes = {i1, i2}
    BirthTimes = TRUE
    Ladder <- Ladders
    MaxUserActs = 2
    Servers = {v1, v2, v3}
    Pids = {p1, p2}
    NoPid = NoPid
    MaxSpills = 2
CHECK_DEADLOCK FALSE
INVARIANT
    FileUnused
PROPERTIES
    NewerReplaces
    OnlyItsPictureGoes
    SweepIsExact
