SPECIFICATION FairSpec
CONSTANTS
    MAX_CLIENTS = 2
    BUFFER_SLOTS = 2
    MAX_TICKET = 3
    Writers = {w1, w2}
    Owner <- AllInProcess0
    AppThreads = {}
    Queueing = {}
    Dropping = {0, 1}
    Stopping = {}
    LateJoin = FALSE
PROPERTY SendCompletes
CHECK_DEADLOCK FALSE
