SPECIFICATION Spec
CONSTANTS
    Node = {disk, ram, n1, n2}
    DiskRoot = disk
    RamRoot = ram
    Process = {p}
    Name = {"a", "b"}
    Byte = {"x", "y"}
    None = None
    Free = Free
    Garbled = Garbled
    Path <- Paths
    PageSize = 2
    Data <- Writes
    SeekOffset <- Offsets
    MaxBytes = 3
    MaxOpens = 2
SYMMETRY Spare
CHECK_DEADLOCK FALSE
INVARIANTS TreeIsSound ReadsReturnText PathsNameNodes
PROPERTY NamesAreStable
