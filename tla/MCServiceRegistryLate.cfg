SPECIFICATION Spec
CONSTANTS
    t1 = t1
    t2 = t2
    scheduler = scheduler
    reactor = reactor
    signals = signals
    Threads = {t1, t2}
    Services = {scheduler, reactor, signals}
    Uses <- UsesOfAsio
    LateUses = {signals}
    NoThread = NoThread
    Scheduler = scheduler
    Reactor = reactor
    Starters = {signals}
CHECK_DEADLOCK FALSE
PROPERTIES
    ShutDownFirst
