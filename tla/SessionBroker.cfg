SPECIFICATION FairSpec
CONSTANTS
    Apps = {a}
    Terminals = {s, t}
    MaxBrokers = 4
    Faults = {"broker", "app", "slow", "reaped", "terminated"}
    MaxFaults = 5
INVARIANTS TypeOK IdleMeansEmpty OneBroker TerminalsAreFound
PROPERTIES AppGetsBroker ReplacementsAreLeft
CHECK_DEADLOCK FALSE
