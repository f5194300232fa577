SPECIFICATION FairSpec
CONSTANTS
    t1 = t1
    t2 = t2
    s1 = s1
    s2 = s2
    i1 = i1
    i2 = i2
    h1 = h1
    h2 = h2
    Threads = {t1, t2}
    Strands = {s1, s2}
    Impls = {i1, i2}
    Handlers = {h1, h2}
    NoThread = NoThread
    NoImpl = NoImpl
    NoHandler = NoHandler
INVARIANTS
    ImplSound
    OrderKept
PROPERTIES
    StrandIsSerial
    GivenServed
