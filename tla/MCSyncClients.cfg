SPECIFICATION Spec
CONSTANTS
    Thread <- Clients
    Idle = "idle"
    Lock = {"lock1", "lock2"}
    Inner = "inner"
    Program <- ClientProgram
    LockedAtStart = {}
    InitialValue = 1
    MaxValue = 255
INVARIANTS TypeOK OneInside QueueHoldsWaiters NoPermitLost
