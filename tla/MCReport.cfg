CONSTANTS
    r1 = r1
    r2 = r2
    d1 = d1
    d2 = d2
    Root = {r1, r2}
    Dir = {d1, d2}
    Parent <- OneIn
    Above <- AboveAll
    RootOf <- OnDrive
    QueueCap = 2
    MaxChanges = 1
    NotifyOnSuccess = FALSE
    None = None
SPECIFICATION Spec
INVARIANT ErrorsMailed
