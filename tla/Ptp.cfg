SPECIFICATION FairSpec
CONSTANTS
    m1 = m1
    m2 = m2
    Masters = {m1, m2}
    None = none
    MasterClock <- TwoClocks
    Skews = {0, 3}
    MaxDelay = 2
    MAX_FAULTS = 1
    MAX_TIME = 6
    MAX_ROUNDS = 2
INVARIANTS TypeOK NoStrayResponse SyncAccuracy
PROPERTY RoundCompletes
CHECK_DEADLOCK FALSE
