SPECIFICATION FairSpec
CONSTANTS
    Callers = {a, b}
    CommandIds = {i1, i2, i3}
    Contents = {x, y}
    MaxEntries = 2
    Ttl = 1
    MaxRuns = 3
INVARIANTS ReceiptIsForCommand
PROPERTIES AtMostOnce CallerAnswered
CHECK_DEADLOCK FALSE
