SPECIFICATION Spec
CONSTANTS
    s1 = s1
    s2 = s2
    x1 = x1
    x2 = x2
    o1 = o1
    o2 = o2
    Services = {s1}
    Sets = {x1, x2}
    Home <- OneHome
    Signals = {1, 2}
    Ops = {o1}
    PipeSize = 2
    MaxRaised = 2
INVARIANTS
    ShutdownDestroys
