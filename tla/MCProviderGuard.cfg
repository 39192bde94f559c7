CONSTANTS
    Runtimes = {"x", "y"}
    Free = "free"
    SafetyWindow = 9
    Freshness = 8
    QueryTimeout = 20
    Horizon = 40
SPECIFICATION GuardSpec
INVARIANT AtMostOneAuthority
CHECK_DEADLOCK FALSE
