CONSTANTS
    n1 = n1
    n2 = n2
    n3 = n3
    None = None
    Node = {n1, n2, n3}
    Elector = {n3}
    Phase <- MCPhase
    LoyalTicks = 2
    Grace = 1
    VersionTimeout = FALSE
    MaxTerm = 2
    MaxTime = 1000
    MaxVersion = 1
    MaxDelay = 0
    Faults = {}
    MaxFaults = 0
SPECIFICATION TSpec
INVARIANT OnePresident
PROPERTIES ElectedIsCurrent CountedAreLoyal
VIEW View
CHECK_DEADLOCK FALSE
