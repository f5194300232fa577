SPECIFICATION Spec
CONSTANTS
    Threads = {t1, t2, t3}
    Posters = {s1, s2}
    Spurious = {t3}
    MaxQueue = 2
SYMMETRY Symmetry
INVARIANTS
    IdleUntilSignalled
    WakeupNotLost
    EventOutlivesSignal
