SPECIFICATION SleepersSpec
CONSTANTS
    s1 = s1
    s2 = s2
    s3 = s3
    s4 = s4
    Sleeper <- Threads
    Naps <- ShortNaps
    MaxAsleep = 4
    Slots = 3
SYMMETRY Symmetric
INVARIANTS SleepersTypeOK ListInOrder
PROPERTIES NobodyWokenEarly
CHECK_DEADLOCK FALSE
