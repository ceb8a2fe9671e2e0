SPECIFICATION Spec
CONSTANTS
    MAX_CLIENTS = 2
    BUFFER_SLOTS = 3
    MAX_TICKET = 4
    Writers = {w1}
    Owner <- AllInProcess0
    AppThreads = {}
    Queueing = {0}
    Dropping = {0, 1}
    Stopping = {}
    LateJoin = FALSE
INVARIANT ViewIntact
CHECK_DEADLOCK FALSE
