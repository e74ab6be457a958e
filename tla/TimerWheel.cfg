\* Durations below and above a turn of the wheel, none a whole number of turns.
CONSTANTS
    t1 = t1
    t2 = t2
    NULL = NULL
    Timers = {t1, t2}
    Durations = {1, 2, 3, 9}
    WHEEL_SIZE = 4
SPECIFICATION FairSpec
INVARIANTS ExpiresOnTime RunningTimersExact
PROPERTIES ServiceSpec 
