SPECIFICATION FairSpec
CONSTANTS
    N = 3
    IdMod = 3
    MaxPosts = 4
INVARIANTS
    TypeOK
    JobsInv
    NoIdleWorkerWhileJobsWait
    JoinedWorkersAreGone
PROPERTIES
    ImplementsJobPool
    QueuedJobsAreServed
    StopReturns
