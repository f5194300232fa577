SPECIFICATION LiveSpec
CONSTANTS
    t1 = t1
    t2 = t2
    k1 = k1
    Timers = {t1, t2}
    Ops = {o1, o2}
    Queues = {k1}
    Home <- OneService
    Msec = 2
    Horizon = 2
    MaxTime = 3
    Expiries = {1, 3}
    MaxAdjust = 1
    Never = Never
    NotSet = NotSet
INVARIANTS
    WaitsCovered
    NeverOversleeps
PROPERTIES
    NeverEarly
    NoBusyWait
    WaitsEnd
