CONSTANTS
    File = {f1, f2, f3}
    Percent = 680
    Whole = 1000
    Filters = {0, 2}
    MaxAge = 3
    MaxBad = 1
    MaxStops = 1
    Drive = {d1, d2}
    Request <- SomeRequests
    MaxActive = 1
    Client = {c1}
    ProgCap = 1
    SubCap = 1
    MaxOps = 2
    MaxEvents = 2
    NoEvent = NoEvent
    Id = {i1, i2}
    NoEntry = NoEntry
    Torn = Torn
    Body <- SomeBodies
    Days = 2
    Hours = 1
    Minutes = 2
    MaxTime = 4
    MaxPosts = 2
    MaxFaults = 1
    Cap = 2
    MaxShift = 2
    MaxDelay = 3
    Caller = {w1, w2}
    MaxAdds = 3
    hdd = hdd
    ssd = ssd
    partn = partn
    volume = volume
    solid = solid
    nfs = nfs
    root = root
    data = data
    blank = blank
    photos = photos
    music = music
    data2 = data2
    Target = {photos, data2}
    Point = {root, data, blank}
    Begins <- Texts
    Holds <- Below
    Length <- Lengths
    Device = {partn, solid, nfs}
    Kind <- Kinds
    DiskOf <- Disks
    Rotational = {hdd}
    NumCPU = 3
    MaxWorkers = 2
    MaxLines = 3
    NoDevice = NoDevice
SPECIFICATION FairSpec
INVARIANT PartsTypeOK
INVARIANT BoundedWait
INVARIANT OneOperation
INVARIANT StatusIsLatest
INVARIANT InOrder
INVARIANT OncePerTick
INVARIANT FileIsMemory
INVARIANT BackoffKept
INVARIANT DeepestMatch
PROPERTY RotReported
PROPERTY ScrubVerifies
PROPERTY OperationEnds
PROPERTY ForwardersEnd
PROPERTY TickHandled
PROPERTY ComesBack
