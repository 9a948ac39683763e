SPECIFICATION Spec
CONSTANTS
    Kinds <- MCKinds
    MaxLen = 2
    MaxHeader = 2
    Timeout = 1
INVARIANTS AnswersInOrder RequestsAreSeparated WatchdogMindsTheClient
PROPERTY ConnectionEnds
CHECK_DEADLOCK FALSE
