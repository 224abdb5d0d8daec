SPECIFICATION Spec
CONSTANTS
    Phones = {p}
    Codes = {c}
    Tokens = {k1, k2}
    Threads = {t1, t2}
    TokenLife = 2
    CodeLife = 1
    Ops = {"login", "phoneLogin", "request", "refreshJwtToken", "logout", "sms",
           "register", "phoneVerification", "removeRongUser"}
    MaxCrashes = 0
    None = None
INVARIANT CodesHaveDeadline
CHECK_DEADLOCK FALSE
