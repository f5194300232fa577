SPECIFICATION QueueSpec
CONSTANTS
    Timers = {t1, t2, t3, t4, t5, t6}
    DueTimes = {1, 2}
    Never = Never
    NotQueued = NotQueued
INVARIANTS
    HeapSound
PROPERTIES
    QueueIsBag
