SPECIFICATION PeerSpec
CONSTANTS
    Kinds <- PeerKinds
    MaxLen = 1
    MaxHeader = 2
    Timeout = 1
INVARIANT NoPeerResetAfterComplete
CHECK_DEADLOCK FALSE
