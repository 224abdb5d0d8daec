SPECIFICATION Spec
CONSTANTS
    Messages = {m1}
    Executions = {e1, e2}
    RetryLimit = 2
    MaxAttempts = 5
    MaxCrashes = 1
    ConsoleOps = {"add", "edit", "remove"}
    None = None
INVARIANTS TypeOK HandOversBounded
PROPERTY UncountedNeverMoves
CHECK_DEADLOCK FALSE
