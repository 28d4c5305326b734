SPECIFICATION Spec
CONSTANTS
    Bodies = {a, b, "private"}
    Clients = {"phone"}
    MaxEvents = 2
    MaxBytes = 3
    QueueCap = 2
    MaxSeq = 3
    MaxEpochs = 2
    MaxBreaks = 2
INVARIANTS NeverRefused ReplayGapFree RetentionBounded
PROPERTIES ShowsOneMoment
SYMMETRY Symmetry
CHECK_DEADLOCK FALSE
