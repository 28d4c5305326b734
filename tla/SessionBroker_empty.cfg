SPECIFICATION FairSpec
CONSTANTS
    Apps = {a}
    Terminals = {s, t}
    MaxBrokers = 4
    Faults = {"broker", "app", "slow", "reaped", "terminated"}
    MaxFaults = 2

PROPERTIES EmptyBrokerExits
CHECK_DEADLOCK FALSE
