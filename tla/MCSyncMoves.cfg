CONSTANTS
    a = a
    b = b
    c = c
    s = s
    t = t
    h = h
    k = k
    Path = {a, b}
    Sig = {s}
    Hash = {h}
    Worker = {w1}
    WorkCap = 1
    ResultCap = 1
    ProgressEvery = 1
    Absent = Absent
    NoHash = NoHash
    Fresh = Fresh
    Worlds <- CalmWorlds
SPECIFICATION Spec
INVARIANT MovesAreReal
