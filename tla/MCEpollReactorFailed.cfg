SPECIFICATION Spec
CONSTANTS
    p1 = p1
    p2 = p2
    f1 = f1
    f2 = f2
    Files = {f1, f2}
    States <- TwoStates
    Ops = {o1}
    Waits = {}
    Internal = {}
    Kinds = {0}
    EventMax = 1
    MayFork = FALSE
    MayHang = FALSE
    MaxReady = 1
    MayFail = TRUE
    None = None
CHECK_DEADLOCK FALSE
INVARIANTS
    LiveIsOpen
