SPECIFICATION Spec
CONSTANTS
    MAX_NEARBY_ENTITIES = 2
    MACs = {a, b, c}
    NoMAC = zero
    Callers = {p, q}
SYMMETRY Symmetric
INVARIANT TypeOK
PROPERTY ImplementsSet
