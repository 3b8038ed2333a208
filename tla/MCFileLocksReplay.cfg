CONSTANTS
    Owner = {1, 2}
    Session <- MCSession
    EOF = 1
    Ranges <- MCRanges
    MaxPending = 1
SPECIFICATION ReplaySpec
INVARIANT ShadowInSync
