SPECIFICATION Spec
CONSTANTS
    a = a
    b = b
    x = x
    y = y
    Nil = Nil
    Blank = Blank
    Requests = {1}
    Keys = {a, b}
    Sids = {1, 2, 3}
    Configs <- AllConfigs
    Limit = 1
CHECK_DEADLOCK FALSE
INVARIANTS
    KeptWhileAlive
    NoOrphans
    RenewedInTime
    ExposedIsSeen
