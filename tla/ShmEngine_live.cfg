SPECIFICATION FairSpec
CONSTANTS
    MAX_CLIENTS = 1
    BUFFER_SLOTS = 3
    MAX_TICKET = 4
    Writers = {w1, w2, w3, w4}
    Owner <- AllInProcess0
    AppThreads = {}
    Queueing = {}
    Dropping = {0}
    Stopping = {}
    LateJoin = FALSE
INVARIANTS
    WritersApart
    PublishedStamped
PROPERTY
    PublishedIsReceived
CHECK_DEADLOCK FALSE
