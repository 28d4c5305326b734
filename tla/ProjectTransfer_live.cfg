SPECIFICATION FairSpec
CONSTANTS
    Projects = {p, q}
    Windows = {w1, w2}
    MaxMoves = 2
    MaxExits = 1
    Disturbances = {"slow target", "slow source", "refusal", "reopen", "overlap", "uncommitted"}
    Closed = Closed
    NoStore = NoStore
PROPERTIES MovesSettle
CHECK_DEADLOCK FALSE
