SPECIFICATION Spec
CONSTANTS
    Humans = {a}
    Robots = {r}
    Threads = {t1, t2}
    Ids = {i1, i2, i3, i4}
    RobotKeys = {k1, k2}
    RongKeys = {g1, g2, g3}
    Calls <- RobotCalls
    ConsoleOps = {"saveRobot", "edit", "remove"}
    AdminOps = {"save", "edit", "remove"}
    AdminRows <- TypedRows
    MaxAdmin = 1
    SerialAsk = FALSE
    None = None
SYMMETRY Symmetry
INVARIANTS TypeOK FriendRobotsKnown RobotCopiesBounded
