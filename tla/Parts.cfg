SPECIFICATION PartsSpec
CONSTANTS
    Threads = {t1, t2, t3}
    Word = 8
    MaxRequests = 5
    MaxPending = 6
    s1 = s1
    s2 = s2
    s3 = s3
    s4 = s4
    v = v
    t1 = t1
    t2 = t2
    p1 = p1
    p2 = p2
    k1 = k1
    i1 = i1
    i2 = i2
    i3 = i3
    Nil = Nil
CHECK_DEADLOCK FALSE
INVARIANTS
    TypeOK
    PoolSuffices
    OnePlace
    FindsContent
    PagesInOrder
    IndexAgrees
PROPERTIES
    OnlyOneChanges
    CacheCallsEnd
    FileCallsEnd
