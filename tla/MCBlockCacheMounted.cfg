SPECIFICATION Spec
CONSTANTS
    Node <- MCNode
    Null = Null
    Key <- MCKey
    Value <- MCBuffer
    Free = Free
    Junk = Junk
    MaxBlocks = 3
    SectorSize = 2
    Entries = 2
    EntrySectors = 2
    Requests <- AllRequests
INVARIANTS MapAndListAgree CacheHoldsDisk ReadReturnsDisk NoPanic
PROPERTY ImplementsLru
CHECK_DEADLOCK FALSE
