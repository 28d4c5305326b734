SPECIFICATION FairSpec
CONSTANTS
    Sessions = {s1, s2}
    Ttl = 1
    MaxLeases = 2
    DesktopSizes = {d1}
    Brokers = {TRUE, FALSE}
    Reacquires = FALSE
    Restorer = restorer
    NoLease = NoLease
    NoSize = NoSize
INVARIANTS TypeOK DesktopSizeRestored
PROPERTIES LandsInLeaseOrder CommandAnswered OrphanLeaseEnds
CHECK_DEADLOCK FALSE
