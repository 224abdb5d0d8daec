SPECIFICATION FairSpec
CONSTANTS
    Phones = {p}
    Codes = {c}
    Tokens = {k1, k2}
    Threads = {t1, t2}
    TokenLife = 2
    CodeLife = 1
    Ops = {"login", "phoneLogin", "request", "refreshJwtToken", "logout", "sms",
           "register", "phoneVerification", "removeRongUser"}
    MaxCrashes = 1
    None = None
INVARIANTS TypeOK SessionsHaveDeadline LogoutIsFinal RongRowsBounded
CHECK_DEADLOCK FALSE
PROPERTY IdleSessionsEnd
