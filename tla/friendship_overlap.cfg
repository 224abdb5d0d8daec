SPECIFICATION Spec
CONSTANTS
    a = a
    b = b
    Users = {a, b}
    Threads = {t1, t2}
    Ids = {i1, i2, i3, i4, i5, i6, i7, i8}
    Calls <- SelfCalls
    AdminOps = {}
    AdminRows <- TypedRows
    SerialAsk = FALSE
    None = None
SYMMETRY Symmetry
INVARIANTS TypeOK MirroredRows ConsistentPairs
PROPERTIES DuplicatedRowsFrozen
