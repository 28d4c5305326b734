SPECIFICATION FairSpec
CONSTANTS
    Devices = {d, e}
    Grants = {observe, control}
    Offers = {o, p}
    Sockets = {s, t, u}
    MaxHandshakes = 2
    MaxUnauthenticated = 2
    Faults = {"unwritable", "slow", "crash"}
    Nobody = Nobody
INVARIANTS TypeOK RightsAreCurrent ClientsAreCounted ReportsAreTrue
PROPERTIES PairedByItsCode PairingEnds
CHECK_DEADLOCK FALSE
