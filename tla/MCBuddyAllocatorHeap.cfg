SPECIFICATION PortSpec
CONSTANTS
    Levels = 4
    MinSize = 1
    FreeBlockSize = 1
    Sizes = {1, 3, 8, 9}
    Reservable <- SomeFromStart
    Null = Null
    Start = 7
    Junk = Junk
INVARIANTS TreeFits ListsHoldFreeBlocks PortFollowsPrototype StrayFreeIsRefused
PROPERTIES ImplementsHeap PortAnswersAlike
