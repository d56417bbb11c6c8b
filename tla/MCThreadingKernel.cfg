SPECIFICATION Spec
CONSTANTS
    MaxThreads = 4
    Sleeper <- AllThreads
    Slots = 2
    Naps <- ShortNaps
    MaxKeys = 1
    KernelThreads = TRUE
    InstantCalls = TRUE
INVARIANTS RingIsThreadList RunnerIsReady WakersNameWaiters
CHECK_DEADLOCK FALSE
