SPECIFICATION LiveSpec
CONSTANTS
    a1 = a1
    a2 = a2
    a3 = a3
    v1 = v1
    Own = Own
    Actuators = {a1, a2, a3}
    Vehicles = {v1}
    Home <- MCHome
    Periods = {4, 6}
    MAX_PERIOD = 6
    Values = {0, 1}
    MAX_INTERESTS = 3
    MAX_QUEUE = 1
CHECK_DEADLOCK FALSE
INVARIANTS IntervalServes DiesOnlyOnRestart
PROPERTIES ListedIsServed StopsWhenUnwanted
