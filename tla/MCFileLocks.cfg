CONSTANTS
    Owner = {1, 2, 3}
    Session <- MCSession
    EOF = 3
    Ranges <- MCRanges
    MaxPending = 1
SPECIFICATION Spec
INVARIANTS ExclusiveExcludes ActiveIsHeld SortedDisjoint 
