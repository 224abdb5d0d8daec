SPECIFICATION FairSpec
CONSTANTS
    Messages = {m1, m2}
    Executions = {e1}
    RetryLimit = 2
    MaxAttempts = 12
    MaxCrashes = 1
    ConsoleOps = {}
    None = None
INVARIANTS AttemptsBounded HandedOverOnce
PROPERTIES EveryMessageSettles ImplementsOutbox
CHECK_DEADLOCK FALSE
