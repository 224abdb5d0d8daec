SPECIFICATION Spec
CONSTANTS
    t1 = t1
    k1 = k1
    k2 = k2
    Classes = {c1, c2}
    Keys = {k1, k2, k3}
    Threads = {t1, t2, t3}
    Setups <- AloneAndTogether
    None = None
CHECK_DEADLOCK FALSE
INVARIANTS TypeOK OneNormalRow TriggersHaveRows
PROPERTY CompletedCallsAgree
