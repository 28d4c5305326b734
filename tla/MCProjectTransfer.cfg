SPECIFICATION Spec
CONSTANTS
    Projects = {p, q}
    Windows = {w1, w2, w3}
    MaxMoves = 2
    MaxExits = 2
    Disturbances = {"unwritable"}
    Closed = Closed
    NoStore = NoStore
PROPERTIES MovesAtomically
SYMMETRY Symmetry
CHECK_DEADLOCK FALSE
