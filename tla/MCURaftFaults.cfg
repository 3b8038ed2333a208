CONSTANTS
    n1 = n1
    n2 = n2
    n3 = n3
    None = None
    Node = {n1, n2, n3}
    Elector = {n3}
    Phase <- MCPhase
    LoyalTicks = 2
    Grace = 1
    VersionTimeout = FALSE
    MaxTerm = 1
    MaxTime = 1000
    MaxVersion = 0
    MaxDelay = 0
    Faults = {"demotion", "restart", "death"}
    MaxFaults = 1
SPECIFICATION TSpec
 
PROPERTY CountedAreLoyal
VIEW View
CHECK_DEADLOCK FALSE
