SPECIFICATION Spec
CONSTANTS
    Projects = {p, q}
    Windows = {w1, w2, w3}
    MaxMoves = 2
    MaxExits = 1
    Disturbances = {"slow source"}
    Closed = Closed
    NoStore = NoStore
PROPERTIES ReloadDiscardsStale
CHECK_DEADLOCK FALSE
