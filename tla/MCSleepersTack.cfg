SPECIFICATION SleepersSpec
CONSTANTS
    s1 = s1
    s2 = s2
    s3 = s3
    s4 = s4
    Sleeper <- Threads
    Naps <- ShortNaps
    MaxAsleep = 2
    Slots = 4
INVARIANTS TackedOnEnd
CHECK_DEADLOCK FALSE
