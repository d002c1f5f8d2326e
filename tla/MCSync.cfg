CONSTANTS
    a = a
    b = b
    c = c
    s = s
    t = t
    h = h
    k = k
    Path = {a, b, c}
    Sig = {s, t}
    Hash = {h, k}
    Worker = {w1, w2}
    WorkCap = 1
    ResultCap = 1
    ProgressEvery = 1
    Absent = Absent
    NoHash = NoHash
    Fresh = Fresh
    Worlds <- SyncWorlds
SPECIFICATION FairSpec
INVARIANT TypeOK
INVARIANT SyncMirrorsDisk
INVARIANT CounterBalance
INVARIANT NoLaundering
INVARIANT NoSendAfterClose
PROPERTY SyncReturns
PROPERTY GoroutinesEnd
