SPECIFICATION Spec
CONSTANTS
    t1 = t1
    t2 = t2
    p1 = p1
    p2 = p2
    k1 = k1
    Nil = Nil
    Threads = {t1, t2}
    Procs = {p1, p2}
    Keys = {k1}
    Tags = {}
    Clusters <- Restarting
    MaxStores = 2
INVARIANT
    NothingInvalidatedIsReturned
