CONSTANTS
    Proc = {p1}
    Reader = {r1}
    Inode = {i1, i2, i3}
    NoFile = NoFile
    MaxRuns = 3
    MaxWrites = 1
    Exclusive = TRUE
    CrashInTransaction = TRUE
SPECIFICATION Spec
SYMMETRY InodeSymmetry
INVARIANT ProdIsCommittedRuns
