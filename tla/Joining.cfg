SPECIFICATION LiveSpec
CONSTANTS
    s1 = s1
    a1 = a1
    x1 = x1
    Gateway = Gateway
    NoOne = NoOne
    Components = {s1, a1, x1}
    Sensors = {s1}
    Unit <- MCUnit
    MAX_CLIENTS = 3
    MAX_FOREIGN = 1
    Mortal = {a1}
CHECK_DEADLOCK FALSE
INVARIANTS
    TypeOK
    PortsUnique
    DirectoryHasRoom
    ReadsPublished
    NoTedsBeforeHandlers
PROPERTIES
    RegisterReturns
    InterestReaches
