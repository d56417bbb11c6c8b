SPECIFICATION Spec
CONSTANTS
    MaxThreads = 4
    Sleeper <- AllThreads
    Slots = 2
    Naps <- ShortNaps
    MaxKeys = 1
    KernelThreads = FALSE
    InstantCalls = TRUE
INVARIANTS TypeOK WaitsHaveWakers NoFailure
PROPERTIES ExecIsACall SchedulerAnswers ReadyThreadRuns SleeperRuns
CHECK_DEADLOCK FALSE
