CONSTANTS
    Id = {i1}
    NoEntry = NoEntry
    Torn = Torn
    Body <- SomeBodies
    Days = 2
    Hours = 1
    Minutes = 2
    MaxTime = 4
    MaxPosts = 2
    MaxFaults = 0
SPECIFICATION SchedSpec
INVARIANT PostKept
