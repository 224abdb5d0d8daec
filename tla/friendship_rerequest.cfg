SPECIFICATION Spec
CONSTANTS
    a = a
    b = b
    Users = {a, b}
    Threads = {t1}
    Ids = {i1, i2}
    Calls <- PairCalls
    AdminOps = {}
    AdminRows <- TypedRows
    SerialAsk = TRUE
    None = None
PROPERTY ReRequestUpdatesStatus
