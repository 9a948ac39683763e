SPECIFICATION FairTimerSpec
CONSTANTS
    Threads = {t1}
    Fds = {}
    Handlers = {h1, h2, h3}
    NoHandler = NoHandler
    Slots = {0, 1}
    MaxTime = 1
    MaxCancelers = 0
    AnyThread = FALSE
    Timers = {A, B}
    NoTimer = NoTimer
INVARIANTS
    PendingWaitIsCancellable
PROPERTY
    CancelledWaitCompletes
