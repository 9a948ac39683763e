SPECIFICATION FairSpec
CONSTANTS
    Threads = {t1}
    Fds = {f1, f2}
    Handlers = {h1, h2}
    NoHandler = NoHandler
    Slots = {0, 1}
    MaxTime = 2
    MaxCancelers = 1
    AnyThread = TRUE
INVARIANTS
    HandledOnce
    InterestMatchesHandlers
    NoLostWakeup
PROPERTIES
    HandlersAreCalled
    StopEndsRun
