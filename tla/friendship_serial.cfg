SPECIFICATION Spec
CONSTANTS
    a = a
    b = b
    Users = {a, b}
    Threads = {t1, t2, t3}
    Ids = {i1, i2, i3, i4}
    Calls <- PairCalls
    AdminOps = {}
    AdminRows <- TypedRows
    SerialAsk = TRUE
    None = None
SYMMETRY Symmetry
INVARIANTS UniquePairs
PROPERTIES ImplementsRelation
