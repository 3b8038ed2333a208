CONSTANTS
    Owner = {1, 2, 3}
    Session <- MCSession
    EOF = 3
    Ranges <- MCQueueRanges
    MaxPending = 2
SPECIFICATION Spec
INVARIANT PendingIsBlocked
