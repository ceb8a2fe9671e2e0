SPECIFICATION LiveSpec
CONSTANTS
    s1 = s1
    a1 = a1
    s2 = s2
    v1 = v1
    v2 = v2
    Vehicles = {v1, v2}
    Components = {s1, a1, s2}
    Home <- MCHome
    Port <- MCPort
    Sensors = {s1, s2}
    Unit <- MCUnit
    Local = Local
    Broadcast = Broadcast
    MAX_MESSAGES = 2
CHECK_DEADLOCK FALSE
INVARIANTS
    TypeOK
    DeliveredOnce
    SourceIdentifies
    MeasuresOwn
PROPERTIES
    LocalPingReturns
    Quiet
