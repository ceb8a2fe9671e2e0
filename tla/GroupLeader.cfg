SPECIFICATION FairSpec
CONSTANTS
    Members = {m1, m2}
    TIMEOUT = 2
    MAX_TIME = 4
    MAX_JOINS = 4
INVARIANTS MapsAgree NoEarlyExpiry
PROPERTIES SilentAreRemoved StopReturns
CHECK_DEADLOCK FALSE
