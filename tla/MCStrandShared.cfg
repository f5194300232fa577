SPECIFICATION Spec
CONSTANTS
    t1 = t1
    t2 = t2
    s1 = s1
    s2 = s2
    i1 = i1
    h1 = h1
    h2 = h2
    h3 = h3
    Threads = {t1, t2}
    Strands = {s1, s2}
    Impls = {i1}
    Handlers = {h1, h2, h3}
    NoThread = NoThread
    NoImpl = NoImpl
    NoHandler = NoHandler
INVARIANT DocumentedOrder
