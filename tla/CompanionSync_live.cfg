SPECIFICATION FairSpec
CONSTANTS
    Bodies = {a, "private"}
    Clients = {"phone"}
    MaxEvents = 2
    MaxBytes = 3
    QueueCap = 2
    MaxSeq = 3
    MaxEpochs = 2
    MaxBreaks = 2
PROPERTIES CatchesUp
CHECK_DEADLOCK FALSE
