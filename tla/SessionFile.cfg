SPECIFICATION Spec
CONSTANTS
    t1 = t1
    t2 = t2
    t3 = t3
    s1 = s1
    Nil = Nil
    Threads = {t1, t2, t3}
    Sids = {s1}
    PosOf <- OneMutex
    Setups <- AllSetups
    Inodes = {i1, i2, i3}
    Contents <- ShortAndLong
    MaxTime = 1
CHECK_DEADLOCK FALSE
INVARIANTS
    OwnsTheFile
PROPERTIES
    ImplementsStore
SYMMETRY InodeSymmetry
