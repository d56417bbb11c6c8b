SPECIFICATION Spec
CONSTANTS
    Thread <- SystemTests
    Idle = "idle"
    Lock = {"lock1", "lock2"}
    Inner = "inner"
    Program <- SystemTestProgram
    LockedAtStart = {"lock1"}
    InitialValue = 1
    MaxValue = 255
PROPERTY AllEnd
CHECK_DEADLOCK FALSE
