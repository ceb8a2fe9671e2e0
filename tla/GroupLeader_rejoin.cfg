SPECIFICATION FairSpec
CONSTANTS
    Members = {m1, m2}
    TIMEOUT = 2
    MAX_TIME = 4
    MAX_JOINS = 4
PROPERTIES OnlyExpiredRemoved
CHECK_DEADLOCK FALSE
