CONSTANTS
    n1 = n1
    n2 = n2
    n3 = n3
    None = None
    Node = {n1, n2, n3}
    Elector = {n3}
    Phase <- MCPhase
    LoyalTicks = 2
    Grace = 2
    VersionTimeout = FALSE
    MaxTerm = 2
    MaxTime = 1000
    MaxVersion = 0
    MaxDelay = 0
    Faults = {}
    MaxFaults = 0
SPECIFICATION TSpec
INVARIANT OnePresident
VIEW View
CHECK_DEADLOCK FALSE
