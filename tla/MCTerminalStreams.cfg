SPECIFICATION Spec
CONSTANTS
    Sessions = {s1, s2}
    Devices = {d1, d2}
    MaxStreams = 4
    Retained = 1
    MaxMembers = 2
    MaxPending = 1
    MaxWorld = 2
SYMMETRY Symmetry
INVARIANTS TypeOK MembersSeeOneStretch MembersAreUpToDate OneObserver NeverBack NobodyWaitsForNothing
CHECK_DEADLOCK FALSE
