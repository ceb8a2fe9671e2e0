SPECIFICATION Spec
CONSTANTS
    MAX_CLIENTS = 2
    BUFFER_SLOTS = 3
    MAX_TICKET = 4
    Writers = {w1}
    Owner <- AllInProcess0
    AppThreads = {w1}
    Queueing = {0}
    Dropping = {0, 1}
    Stopping = {1}
    LateJoin = TRUE
INVARIANTS
    TypeOK
    ViewKept
    QueueInOrder
    NoMismatch
    OnlyPublished
PROPERTY
    ImplementsBus
CHECK_DEADLOCK FALSE
