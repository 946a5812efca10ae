CONSTANTS
    s1 = s1
    s2 = s2
    Sockets <- OneSocket
    MaxFilters = 2
    NecpUnits = {1, 2}
    MaxGen = 2
    PreserveValues = {FALSE}
SPECIFICATION Spec
INVARIANT LastDisconnectClearsPolicy
