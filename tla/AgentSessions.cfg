SPECIFICATION FairSpec
CONSTANTS
    Windows = {w1, w2}
    Agents = {a1, a2}
    Phone = Phone
    None = None
INVARIANTS TypeOK NoAgentLost TurnsReportHome IdleAgentsGo CardsKeepAgents StopHolds
PROPERTIES TurnsSettle
CHECK_DEADLOCK FALSE
