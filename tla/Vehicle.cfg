SPECIFICATION Spec
CONSTANTS
    Vehicles = {v1, v2}
    Quadrants = {north, south}
    KeyOf <- OwnKeys
    NoKey = zero
    Garbage = garbage
    MAX_NEARBY_ENTITIES = 1
    MAX_MOVES = 1
    MAX_TRAFFIC = 1
    MAX_LOSSES = 1
INVARIANTS KeySettles
PROPERTIES MembersUnderstand
CHECK_DEADLOCK FALSE
SYMMETRY VehicleSymmetry
