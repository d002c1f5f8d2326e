CONSTANTS
    Proc = {p1}
    Reader = {r1}
    Inode = {i1, i2, i3}
    NoFile = NoFile
    MaxRuns = 3
    MaxWrites = 1
    Exclusive = TRUE
    CrashInTransaction = FALSE
SPECIFICATION Spec
SYMMETRY InodeSymmetry
INVARIANT TypeOK
INVARIANT ProdIsCommittedRuns
INVARIANT ReaderSnapshot
INVARIANT CanaryMatches
INVARIANT NoStaleShadow
PROPERTY NeverModifiedInPlace
PROPERTY AtomicCommit
