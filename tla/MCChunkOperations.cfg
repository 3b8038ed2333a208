CONSTANTS
    Server = {A, B, C}
    Goal = 2
    ZombieRace = FALSE
    MaxRequests = 2
    MaxFaults = 2
SPECIFICATION Spec
SYMMETRY MCSymmetry
INVARIANTS
    TypeOK
    CopiesAreCurrent
    OperationIsAnswered
    MasterKnowsDisk
CHECK_DEADLOCK FALSE
