SPECIFICATION Spec
CONSTANTS
    Annts = {n1}
    Users = {u1, u2}
    Threads = {t1, t2}
    Ops = {"add", "edit", "release", "revoke", "delete", "import",
           "list", "read", "marks"}
    MaxMarks = 1
    None = None
SYMMETRY Symmetry
INVARIANTS TypeOK ReadStaysRead MarksBounded NamedAreMarked
CHECK_DEADLOCK FALSE
